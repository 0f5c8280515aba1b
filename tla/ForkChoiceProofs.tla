--------------------------- MODULE ForkChoiceProofs ---------------------------
(***************************************************************************)
(* Fork choice, proved for every network: every epoch and window length,   *)
(* every set of slots and VRF outputs, and block trees of any size.        *)
(***************************************************************************)
EXTENDS ForkChoice, TLAPS, FiniteSetTheorems, WellFoundedInduction

-----------------------------------------------------------------------------
(* Sums over finite sets and recursion on block indices.  Both are functions *)
(* defined by recursion; that such a function exists, and what it yields, is *)
(* shown by looking at the smallest counterexample.                          *)

(* A non-empty set of natural numbers has a least element. *)
LEMMA LeastNatural ==
    ASSUME NEW S \in SUBSET Nat, S # {}
    PROVE  \E m \in S : \A n \in S : m =< n
<1> DEFINE R == OpToRel(<, Nat)
<1>1. PICK m \in S : \A n \in S : ~ (<<n, m>> \in R)
  <2> HIDE DEF R
  <2> QED BY NatLessThanWellFounded, WFMin DEF R
<1>2. \A n \in S : ~ (n < m)
  BY <1>1 DEF OpToRel
<1> QED
  BY <1>2

First(s) == CHOOSE x \in s : TRUE

(* The equation that SumFunctionOnSet solves, on the sets of D. *)
Sums(f, g, D) ==
    g = [s \in D |-> IF s = {} THEN 0 ELSE f[First(s)] + g[s \ {First(s)}]]

LEMMA SumChoice ==
    ASSUME NEW f, NEW S
    PROVE  SumFunctionOnSet(f, S) = (CHOOSE g : Sums(f, g, SUBSET S))[S]
BY DEF SumFunctionOnSet, FoldFunctionOnSet, MapThenFoldSet, Sums, First

(* It has a solution on the subsets of a finite set. *)
LEMMA SumsExist ==
    ASSUME NEW f, NEW S, IsFiniteSet(S)
    PROVE  \E g : Sums(f, g, SUBSET S)
<1> DEFINE D(n) == {s \in SUBSET S : Cardinality(s) =< n}
           Bad == {n \in Nat : ~ \E g : Sums(f, g, D(n))}
<1>1. \A s \in SUBSET S : IsFiniteSet(s) /\ Cardinality(s) \in Nat
  BY FS_Subset, FS_CardinalityType
<1>2. ASSUME NEW s \in SUBSET S, s # {}
      PROVE  /\ First(s) \in s /\ s \ {First(s)} \in SUBSET S
             /\ Cardinality(s \ {First(s)}) = Cardinality(s) - 1
  <2>1. First(s) \in s
    BY <1>2 DEF First
  <2> QED
    BY <1>1, <2>1, FS_RemoveElement
<1>3. Bad = {}
  <2> SUFFICES ASSUME Bad # {} PROVE FALSE
    OBVIOUS
  <2>1. PICK m \in Bad : \A n \in Bad : m =< n
    <3>1. Bad \in SUBSET Nat
      OBVIOUS
    <3> HIDE DEF Bad
    <3> QED
      BY <3>1, LeastNatural
  <2>2. m \in Nat /\ ~ \E g : Sums(f, g, D(m))
    OBVIOUS
  <2>3. CASE m = 0
    <3>1. \A s \in D(0) : s = {}
      BY <1>1, FS_EmptySet
    <3> DEFINE g == [s \in D(0) |-> 0]
    <3> HIDE DEF D
    <3>2. Sums(f, g, D(0))
      BY <3>1 DEF Sums
    <3> QED
      BY <2>2, <2>3, <3>2
  <2>4. CASE m # 0
    <3>1. m - 1 \in Nat /\ m - 1 \notin Bad
      <4>1. m - 1 \in Nat /\ ~ (m =< m - 1)
        BY <2>2, <2>4
      <4> HIDE DEF Bad
      <4> QED
        BY <2>1, <4>1
    <3>2. PICK h : Sums(f, h, D(m - 1))
      BY <3>1
    <3> DEFINE g == [s \in D(m) |-> IF s = {} THEN 0 ELSE f[First(s)] + h[s \ {First(s)}]]
    <3>3. ASSUME NEW s \in D(m), s # {}
          PROVE  s \ {First(s)} \in D(m - 1) /\ s \ {First(s)} \in D(m)
      BY <1>1, <1>2, <2>2, <3>3
    <3>4. D(m - 1) \subseteq D(m)
      BY <1>1, <2>2
    <3> HIDE DEF D
    <3>5. \A s \in D(m - 1) : g[s] = h[s]
      BY <3>2, <3>4 DEF Sums
    <3>6. \A s \in D(m) : g[s] = IF s = {} THEN 0 ELSE f[First(s)] + g[s \ {First(s)}]
      BY <3>3, <3>5
    <3>7. Sums(f, g, D(m))
      <4> DEFINE k == [s \in D(m) |-> IF s = {} THEN 0 ELSE f[First(s)] + g[s \ {First(s)}]]
      <4>1. DOMAIN g = D(m) /\ g = [s \in D(m) |-> g[s]]
        OBVIOUS
      <4> HIDE DEF g
      <4>2. g = k
        BY <3>6, <4>1
      <4> QED
        BY <4>2 DEF Sums
    <3> QED
      BY <2>2, <3>7
  <2> QED
    BY <2>3, <2>4
<1>4. D(Cardinality(S)) = SUBSET S
  BY FS_Subset
<1>5. Cardinality(S) \in Nat
  BY FS_CardinalityType
<1> HIDE DEF D
<1> QED
  BY <1>3, <1>4, <1>5

(* A sum of natural numbers is one, and the sum over nothing is zero. *)
LEMMA SumNatural ==
    ASSUME NEW S, IsFiniteSet(S), NEW f, \A x \in S : f[x] \in Nat
    PROVE  SumFunctionOnSet(f, S) \in Nat /\ (S = {} => SumFunctionOnSet(f, S) = 0)
<1> DEFINE G == CHOOSE g : Sums(f, g, SUBSET S)
           Bad == {n \in Nat : \E s \in SUBSET S : Cardinality(s) = n /\ G[s] \notin Nat}
<1>1. SumFunctionOnSet(f, S) = G[S] /\ Sums(f, G, SUBSET S)
  BY SumChoice, SumsExist
<1> HIDE DEF G
<1>2. \A s \in SUBSET S : G[s] = IF s = {} THEN 0 ELSE f[First(s)] + G[s \ {First(s)}]
  BY <1>1 DEF Sums
<1>3. \A s \in SUBSET S : IsFiniteSet(s) /\ Cardinality(s) \in Nat
  BY FS_Subset, FS_CardinalityType
<1>4. Bad = {}
  <2> SUFFICES ASSUME Bad # {} PROVE FALSE
    OBVIOUS
  <2>1. PICK m \in Bad : \A n \in Bad : m =< n
    <3>1. Bad \in SUBSET Nat
      OBVIOUS
    <3> HIDE DEF Bad
    <3> QED
      BY <3>1, LeastNatural
  <2>2. PICK s \in SUBSET S : Cardinality(s) = m /\ G[s] \notin Nat
    BY <2>1
  <2>3. s # {}
    <3>1. G[{}] = 0
      BY <1>2
    <3> QED
      BY <2>2, <3>1
  <2> DEFINE x == First(s)
             r == s \ {x}
  <2>4. x \in s
    BY <2>3 DEF First
  <2>5. G[s] = f[x] + G[r]
    BY <1>2, <2>3
  <2>6. r \in SUBSET S /\ Cardinality(r) = m - 1 /\ m \in Nat /\ Cardinality(r) \in Nat
    BY <1>3, <2>2, <2>4, FS_RemoveElement
  <2> HIDE DEF x, r
  <2>7. m - 1 \notin Bad
    BY <2>1, <2>6
  <2>8. G[r] \in Nat
    BY <2>6, <2>7
  <2> QED
    BY <2>2, <2>4, <2>5, <2>8
<1>5. G[S] \in Nat
  BY <1>3, <1>4
<1> QED
  BY <1>1, <1>2, <1>5

-----------------------------------------------------------------------------
(* Epochs and slots. *)

epoch(slot) == slot \div slots_per_epoch

(* The closure check of is_short_range_fork calls this "not in the seed      *)
(* update range".                                                            *)
Late(slot) == slot % slots_per_epoch >= (slots_per_epoch * 2) \div 3

(* Slots of an epoch are in order, and the end of an epoch's seed update     *)
(* range is more than a window away from the next epoch.                     *)
LEMMA EpochOrder ==
    ASSUME NEW s \in Nat, NEW t \in Nat, s =< t
    PROVE  /\ epoch(s) \in Nat /\ epoch(t) \in Nat /\ epoch(s) =< epoch(t)
           /\ epoch(s) = epoch(t) /\ Late(s) => Late(t)
           /\ epoch(s) < epoch(t) /\ ~Late(s) => s + SUB_WINDOWS_PER_WINDOW < t
           /\ epoch(s) + 1 < epoch(t) => s + SUB_WINDOWS_PER_WINDOW < t
           /\ t < slots_per_epoch => epoch(s) = epoch(t)
<1> DEFINE E == slots_per_epoch
           x == s \div E
           y == t \div E
           u == s % E
           v == t % E
<1>1. E \in Nat /\ E > 0 /\ E % 3 = 0
  BY ConsensusAssumption
<1>2. /\ x \in Nat /\ y \in Nat /\ u \in 0..(E - 1) /\ v \in 0..(E - 1)
      /\ s = E * x + u /\ t = E * y + v
  BY <1>1
<1>3. SUB_WINDOWS_PER_WINDOW \in Nat /\ SUB_WINDOWS_PER_WINDOW =< E \div 3
  <2>1. /\ SUB_WINDOWS_PER_WINDOW \in Nat /\ SLOTS_PER_SUB_WINDOW \in Nat
        /\ SLOTS_PER_SUB_WINDOW >= 1 /\ E \div 3 \in Nat
        /\ SUB_WINDOWS_PER_WINDOW * SLOTS_PER_SUB_WINDOW =< E \div 3
    BY <1>1, ConsensusAssumption
  <2>2. \A m, n \in Nat : n >= 1 => m =< m * n
    OBVIOUS
  <2>3. SUB_WINDOWS_PER_WINDOW =< SUB_WINDOWS_PER_WINDOW * SLOTS_PER_SUB_WINDOW
    BY <2>1, <2>2
  <2>4. \A a, b, c \in Int : a =< b /\ b =< c => a =< c
    OBVIOUS
  <2>5. SUB_WINDOWS_PER_WINDOW * SLOTS_PER_SUB_WINDOW \in Int
    BY <2>1
  <2> HIDE DEF E
  <2> QED
    BY <2>1, <2>3, <2>4, <2>5
<1>4. PICK d \in Nat : E = 3 * d
  BY <1>1
<1>5. E \div 3 = d /\ (E * 2) \div 3 = 2 * d
  BY <1>1, <1>4
<1> HIDE DEF E, x, y, u, v
<1>6. \A m, n \in Nat : m < n => E * m + E =< E * n
  <2> SUFFICES ASSUME NEW m \in Nat, NEW n \in Nat, m < n PROVE E * m + E =< E * n
    OBVIOUS
  <2>1. PICK k \in Nat : n = m + 1 + k
    <3>1. n - m - 1 \in Nat /\ n = m + 1 + (n - m - 1)
      OBVIOUS
    <3> QED
      BY <3>1
  <2>2. E * n = E * m + E + E * k /\ E * k \in Nat /\ E * m \in Nat
    BY <1>1, <2>1
  <2> QED
    BY <1>1, <2>2
<1>7. x =< y
  <2> SUFFICES ASSUME y < x PROVE FALSE
    BY <1>2
  <2>1. E * y + E =< E * x /\ E * y \in Nat /\ E * x \in Nat
    BY <1>1, <1>2, <1>6
  <2> QED
    BY <1>1, <1>2, <2>1
<1>8. x = y => u =< v
  BY <1>1, <1>2
<1>9. ASSUME x < y PROVE s + E - u =< t
  <2>1. E * x + E =< E * y /\ E * y \in Nat /\ E * x \in Nat
    BY <1>1, <1>2, <1>6, <1>9
  <2> QED
    BY <1>1, <1>2, <2>1
<1>10. ASSUME x + 1 < y PROVE s + E < t
  <2>1. E * (x + 1) + E =< E * y /\ E * y \in Nat /\ E * (x + 1) = E * x + E /\ E * x \in Nat
    BY <1>1, <1>2, <1>6, <1>10
  <2> QED
    BY <1>1, <1>2, <2>1
<1>11. t < E => x = y
  <2>1. ASSUME NEW z \in Nat, z # 0 PROVE E * z >= E
    BY <1>1, <1>6, <2>1
  <2> QED
    BY <1>1, <1>2, <1>7, <2>1
<1>12. epoch(s) = x /\ epoch(t) = y /\ (Late(s) <=> u >= 2 * d) /\ (Late(t) <=> v >= 2 * d)
  BY <1>5 DEF epoch, Late, x, y, u, v, E
<1> QED
  BY <1>1, <1>2, <1>3, <1>4, <1>5, <1>7, <1>8, <1>9, <1>10, <1>11, <1>12 DEF E

-----------------------------------------------------------------------------
(* Windows. *)

ConsensusState ==
    [hash : Nat, height : Nat, slot : Nat, vrf : Nat, epoch_count : Nat,
     staking_lock : Int, next_lock : Int, min_window_density : Nat,
     sub_window_densities : [SubWindows -> Nat]]

(* Every slot belongs to a sub-window. *)
LEMMA SubWindowType ==
    ASSUME NEW s \in Nat
    PROVE  relative_sub_window(s) \in SubWindows /\ global_sub_window(s) \in Nat
<1>1. global_sub_window(s) \in Nat
  BY ConsensusAssumption DEF global_sub_window
<1> QED
  BY <1>1, ConsensusAssumption DEF relative_sub_window, SubWindows

(* Clearing as many sub-windows as there are leaves none. *)
LEMMA AllCleared ==
    ASSUME NEW r \in SubWindows
    PROVE  SubWindows \subseteq
              {(r + d) % SUB_WINDOWS_PER_WINDOW : d \in 1..(SUB_WINDOWS_PER_WINDOW + 1)}
<1> DEFINE W == SUB_WINDOWS_PER_WINDOW
<1>1. W \in Nat /\ W > 0 /\ SubWindows = 0..(W - 1)
  BY ConsensusAssumption DEF SubWindows
<1> HIDE DEF W
<1>2. ASSUME NEW w \in 0..(W - 1)
      PROVE  \E d \in 1..(W + 1) : (r + d) % W = w
  <2>1. w % W = w /\ (w + W) % W = w
    BY <1>1
  <2>2. CASE w > r
    <3>1. w - r \in 1..(W + 1) /\ r + (w - r) = w
      BY <1>1, <2>2
    <3> QED
      BY <2>1, <3>1
  <2>3. CASE w =< r
    <3>1. w - r + W \in 1..(W + 1) /\ r + (w - r + W) = w + W
      BY <1>1, <2>3
    <3> QED
      BY <2>1, <3>1
  <2> QED
    BY <1>1, <2>2, <2>3
<1> QED
  BY <1>1, <1>2 DEF W

(* A projected density is a number, and it is zero when the window has moved *)
(* on entirely.                                                              *)
LEMMA RelativeDensity ==
    ASSUME NEW b1 \in ConsensusState, NEW b2 \in ConsensusState
    PROVE  /\ relative_min_window_density(b1, b2) \in Nat
           /\ b1.slot + SUB_WINDOWS_PER_WINDOW < b2.slot /\ b2.slot >= GRACE_PERIOD_END =>
                 relative_min_window_density(b1, b2) = 0
<1> DEFINE W == SUB_WINDOWS_PER_WINDOW
           max_slot    == Larger(b1.slot, b2.slot)
           shift_count == Smaller(Larger(max_slot - (b1.slot + 1), 0), W)
           r           == relative_sub_window(b1.slot)
           cleared     == {(r + d) % W : d \in 1..(shift_count + 1)}
           left        == SubWindows \ cleared
           sum         == SumFunctionOnSet(b1.sub_window_densities, left)
<1>1. relative_min_window_density(b1, b2) =
         IF max_slot < GRACE_PERIOD_END THEN b1.min_window_density
         ELSE Smaller(b1.min_window_density, sum)
  BY DEF relative_min_window_density
<1>2. /\ b1.slot \in Nat /\ b2.slot \in Nat /\ b1.min_window_density \in Nat
      /\ b1.sub_window_densities \in [SubWindows -> Nat]
  BY DEF ConsensusState
<1>3. W \in Nat /\ GRACE_PERIOD_END \in Nat
  BY ConsensusAssumption
<1>4. IsFiniteSet(left)
  <2>1. IsFiniteSet(SubWindows)
    BY <1>3, FS_Interval DEF SubWindows
  <2> QED
    BY <2>1, FS_Subset
<1>5. sum \in Nat /\ (left = {} => sum = 0)
  BY <1>2, <1>4, SumNatural
<1> HIDE DEF sum
<1>6. ASSUME b1.slot + W < b2.slot, b2.slot >= GRACE_PERIOD_END
      PROVE  sum = 0 /\ ~(max_slot < GRACE_PERIOD_END)
  <2>1. max_slot = b2.slot /\ shift_count = W
    BY <1>2, <1>3, <1>6 DEF Larger, Smaller
  <2>2. left = {}
    BY <1>2, <2>1, SubWindowType, AllCleared
  <2> QED
    BY <1>2, <1>3, <1>5, <1>6, <2>1, <2>2
<1> HIDE DEF max_slot, W
<1> QED
  BY <1>1, <1>2, <1>5, <1>6 DEF Smaller, W

LEMMA BuildFields ==
    ASSUME NEW pred, NEW slot, NEW vrf, NEW hash,
           NEW b, b = BlockUnprovenBuild(pred, slot, vrf, hash)
    PROVE  /\ b.hash = hash /\ b.height = pred.height + 1 /\ b.slot = slot
           /\ b.epoch_count = pred.epoch_count + (IF epoch(slot) > epoch(pred.slot) THEN 1 ELSE 0)
           /\ b.staking_lock = IF epoch(slot) > epoch(pred.slot) THEN pred.next_lock
                               ELSE pred.staking_lock
           /\ b.next_lock = IF in_seed_update_range(slot % slots_per_epoch) THEN pred.hash
                            ELSE IF epoch(slot) > epoch(pred.slot) THEN 0 ELSE pred.next_lock
BY DEF BlockUnprovenBuild, next_epoch_data, epoch

(* Genesis has a consensus state, and so has every block that is produced.   *)
LEMMA BuildType ==
    /\ GenesisState \in ConsensusState
    /\ \A pred \in ConsensusState, slot \in Nat, vrf \in Nat, hash \in Nat :
          BlockUnprovenBuild(pred, slot, vrf, hash) \in ConsensusState
<1>1. GenesisState \in ConsensusState
  <2>1. SUB_WINDOWS_PER_WINDOW * SLOTS_PER_SUB_WINDOW \in Nat /\ SLOTS_PER_SUB_WINDOW \in Nat
    BY ConsensusAssumption
  <2> QED
    BY <2>1 DEF GenesisState, ConsensusState
<1>2. ASSUME NEW pred \in ConsensusState, NEW slot \in Nat, NEW vrf \in Nat, NEW hash \in Nat
      PROVE  BlockUnprovenBuild(pred, slot, vrf, hash) \in ConsensusState
  <2> DEFINE current == current_sub_window_densities(pred, slot)
             data == next_epoch_data(pred, slot)
             new_epoch == slot \div slots_per_epoch > pred.slot \div slots_per_epoch
  <2>1. /\ pred.hash \in Nat /\ pred.height \in Nat /\ pred.epoch_count \in Nat
        /\ pred.staking_lock \in Int /\ pred.next_lock \in Int
        /\ pred.min_window_density \in Nat /\ pred.sub_window_densities \in [SubWindows -> Nat]
        /\ pred.slot \in Nat
    BY DEF ConsensusState
  <2>2. current \in [SubWindows -> Nat]
    BY <2>1 DEF current_sub_window_densities
  <2>3. data.staking_lock \in Int /\ data.next_lock \in Int
    BY <2>1 DEF next_epoch_data
  <2>4. next_min_window_density(pred, slot) \in Nat
    <3>1. IsFiniteSet(SubWindows) /\ DOMAIN current = SubWindows
      BY <2>2, ConsensusAssumption, FS_Interval DEF SubWindows
    <3>2. SumFunction(current) \in Nat
      BY <2>2, <3>1, SumNatural DEF SumFunction
    <3> HIDE DEF current
    <3> QED
      BY <2>1, <3>2 DEF next_min_window_density, Smaller, current
  <2>5. next_sub_window_densities(pred, slot) \in [SubWindows -> Nat]
    <3> HIDE DEF current
    <3> QED
      BY <2>2, SubWindowType DEF next_sub_window_densities, current
  <2>6. BlockUnprovenBuild(pred, slot, vrf, hash) =
           [hash |-> hash, height |-> pred.height + 1, slot |-> slot, vrf |-> vrf,
            epoch_count  |-> pred.epoch_count + (IF new_epoch THEN 1 ELSE 0),
            staking_lock |-> data.staking_lock, next_lock |-> data.next_lock,
            min_window_density   |-> next_min_window_density(pred, slot),
            sub_window_densities |-> next_sub_window_densities(pred, slot)]
    BY DEF BlockUnprovenBuild
  <2> HIDE DEF data, new_epoch
  <2> QED
    BY <2>1, <2>3, <2>4, <2>5, <2>6 DEF ConsensusState
<1> QED
  BY <1>1, <1>2

-----------------------------------------------------------------------------
(* The tree. *)

Block == [cs : ConsensusState, pred : Nat]

LEMMA BlockType ==
    /\ \A b \in Block : b.cs \in ConsensusState /\ b.pred \in Nat
    /\ \A cs \in ConsensusState, p \in Nat : [cs |-> cs, pred |-> p] \in Block
<1> HIDE DEF ConsensusState
<1> QED
  BY DEF Block

(* Block i of t got its consensus state from the block it was built on.      *)
Built(t, i) ==
    /\ t[i].pred \in 1..(i - 1)
    /\ \E slot, vrf \in Nat :
          /\ slot > t[t[i].pred].cs.slot
          /\ t[i].cs = BlockUnprovenBuild(t[t[i].pred].cs, slot, vrf, i)

IsTree(t) ==
    /\ t \in Seq(Block)
    /\ Len(t) >= 1
    /\ t[1].pred = 0
    /\ \A i \in 1..Len(t) : t[i].cs.hash = i
    /\ \A i \in 2..Len(t) : Built(t, i)

TreeInv == IsTree(tree)

(* A block built on a block of a tree makes a larger tree. *)
LEMMA TreeGrows ==
    ASSUME NEW t, IsTree(t), NEW p \in 1..Len(t), NEW slot \in Nat, NEW vrf \in Nat,
           slot > t[p].cs.slot,
           NEW new, new = [cs   |-> BlockUnprovenBuild(t[p].cs, slot, vrf, Len(t) + 1),
                           pred |-> p]
    PROVE  IsTree(Append(t, new))
<1> DEFINE L == Len(t)
           state == BlockUnprovenBuild(t[p].cs, slot, vrf, L + 1)
           u == Append(t, new)
<1>1. t \in Seq(Block) /\ L >= 1 /\ L \in Nat
  BY DEF IsTree
<1>2. t[p] \in Block
  BY <1>1
<1>3. state \in ConsensusState
  <2>1. t[p].cs \in ConsensusState /\ L + 1 \in Nat
    BY <1>1, <1>2, BlockType
  <2> HIDE DEF L
  <2> QED
    BY <2>1, BuildType
<1>4. state.hash = L + 1
  BY BuildFields
<1>5. new.cs = state /\ new.pred = p
  OBVIOUS
<1>6. new \in Block
  BY <1>1, <1>3, BlockType
<1>7. u \in Seq(Block) /\ Len(u) = L + 1 /\ u[L + 1] = new /\ \A i \in 1..L : u[i] = t[i]
  BY <1>1, <1>6
<1> HIDE DEF u
<1>8. \A i \in 1..L : t[i].cs.hash = i
  BY DEF IsTree
<1>9. u[1].pred = 0
  <2>1. 1 \in 1..L /\ t[1].pred = 0
    BY <1>1 DEF IsTree
  <2> QED
    BY <1>7, <2>1
<1>10. ASSUME NEW i \in 2..L PROVE Built(u, i)
  <2>1. Built(t, i)
    BY DEF IsTree
  <2>2. t[i].pred \in 1..(i - 1) /\ i \in 1..L
    BY <1>1, <2>1 DEF Built
  <2>3. t[i].pred \in 1..L
    BY <1>1, <2>2
  <2>4. u[i] = t[i] /\ u[t[i].pred] = t[t[i].pred]
    BY <1>7, <2>2, <2>3
  <2> QED
    BY <2>1, <2>4 DEF Built
<1> HIDE DEF L
<1>11. Built(u, L + 1)
  <2> DEFINE k == L + 1
  <2>1. u[p] = t[p] /\ u[k].pred = p /\ u[k].cs = state
    BY <1>5, <1>7 DEF L
  <2>2. p \in 1..(k - 1)
    BY <1>1 DEF L
  <2> HIDE DEF state, k
  <2>3. u[u[k].pred] = t[p]
    BY <2>1
  <2>4. /\ slot > u[u[k].pred].cs.slot
        /\ u[k].cs = BlockUnprovenBuild(u[u[k].pred].cs, slot, vrf, k)
    BY <2>1, <2>3 DEF state, k, L
  <2>5. Built(u, k)
    BY <2>1, <2>2, <2>4 DEF Built
  <2> QED
    BY <2>5 DEF k
<1> HIDE DEF state
<1>12. \A i \in 2..(L + 1) : Built(u, i)
  <2>1. \A i \in 2..(L + 1) : i \in 2..L \/ i = L + 1
    BY <1>1
  <2> QED
    BY <1>10, <1>11, <2>1 DEF L
<1>13. \A i \in 1..(L + 1) : u[i].cs.hash = i
  <2>1. \A i \in 1..(L + 1) : i \in 1..L \/ i = L + 1
    BY <1>1
  <2>2. \A i \in 1..L : u[i].cs.hash = i
    BY <1>7, <1>8 DEF L
  <2>3. u[L + 1].cs.hash = L + 1
    <3>1. u[L + 1] = new
      BY <1>7
    <3> QED
      BY <1>4, <1>5, <3>1
  <2> QED
    BY <2>1, <2>2, <2>3
<1>14. L + 1 >= 1
  BY <1>1
<1>15. IsTree(u)
  BY <1>7, <1>9, <1>12, <1>13, <1>14 DEF IsTree
<1> QED
  BY <1>15 DEF u

(* The tree only grows, and a new block is built on a block of it. *)
LEMMA SpecTreeInv == Spec => []TreeInv
<1>1. Init => TreeInv
  <2> SUFFICES ASSUME Init PROVE TreeInv
    OBVIOUS
  <2> DEFINE block == [cs |-> GenesisState, pred |-> 0]
  <2>1. tree = <<block>>
    BY DEF Init
  <2>2. block \in Block /\ block.pred = 0 /\ block.cs.hash = 1
    <3>1. GenesisState.hash = 1
      BY DEF GenesisState
    <3> QED
      BY <3>1, BuildType, BlockType
  <2> HIDE DEF block
  <2>3. tree \in Seq(Block) /\ Len(tree) = 1 /\ tree[1] = block
    BY <2>1, <2>2
  <2> QED
    BY <2>2, <2>3 DEF TreeInv, IsTree
<1>2. TreeInv /\ [Next]_tree => TreeInv'
  <2> SUFFICES ASSUME TreeInv, [Next]_tree PROVE TreeInv'
    OBVIOUS
  <2>1. CASE UNCHANGED tree
    BY <2>1 DEF TreeInv, IsTree, Built
  <2>2. CASE Next
    <3>1. PICK p \in DOMAIN tree, slot \in Slots, vrf \in Vrfs : ProduceBlock(p, slot, vrf)
      BY <2>2 DEF Next
    <3> DEFINE new == [cs   |-> BlockUnprovenBuild(tree[p].cs, slot, vrf, Len(tree) + 1),
                       pred |-> p]
    <3>2. slot > tree[p].cs.slot /\ tree' = Append(tree, new)
      BY <3>1 DEF ProduceBlock
    <3>3. IsTree(tree) /\ tree \in Seq(Block)
      BY DEF TreeInv, IsTree
    <3>4. p \in 1..Len(tree) /\ slot \in Nat /\ vrf \in Nat
      BY <3>3, ForkChoiceAssumption
    <3>5. IsTree(Append(tree, new))
      <4> HIDE DEF IsTree
      <4> QED
        BY <3>2, <3>3, <3>4, TreeGrows
    <3> HIDE DEF new
    <3>6. IsTree(tree')
      BY <3>2, <3>5
    <3> QED
      BY <3>6 DEF TreeInv
  <2> QED
    BY <2>1, <2>2
<1> QED
  BY <1>1, <1>2, PTL DEF Spec

(* Any two blocks of the tree are compared alike from both sides: the kind   *)
(* of fork does not depend on which of them is the tip, the comparisons are  *)
(* those of numbers, and no two blocks have the same hash.  So the nodes     *)
(* that know both blocks end up on the same one (consensus_take).            *)
THEOREM AgreementTheorem == Spec => []NodesAgree
<1>1. TreeInv => NodesAgree
  <2> SUFFICES ASSUME TreeInv, NEW i \in DOMAIN tree, NEW j \in DOMAIN tree, i # j
               PROVE  Take(i, j) <=> ~Take(j, i)
    BY DEF NodesAgree
  <2> DEFINE a == tree[i].cs
             b == tree[j].cs
             da == relative_min_window_density(a, b)
             db == relative_min_window_density(b, a)
  <2>1. a \in ConsensusState /\ b \in ConsensusState /\ a.hash # b.hash
    <3>1. tree \in Seq(Block) /\ a.hash = i /\ b.hash = j
      BY DEF TreeInv, IsTree
    <3>2. tree[i] \in Block /\ tree[j] \in Block
      BY <3>1
    <3> QED
      BY <3>1, <3>2, BlockType
  <2>2. /\ a.height \in Nat /\ b.height \in Nat /\ a.vrf \in Nat /\ b.vrf \in Nat
        /\ a.hash \in Nat /\ b.hash \in Nat
    BY <2>1 DEF ConsensusState
  <2>3. is_short_range_fork(a, b) <=> is_short_range_fork(b, a)
    BY DEF is_short_range_fork
  <2>4. da \in Nat /\ db \in Nat
    BY <2>1, RelativeDensity
  <2> HIDE DEF a, b
  <2>5. short_range_fork_take(a, b) <=> ~short_range_fork_take(b, a)
    BY <2>1, <2>2 DEF short_range_fork_take, TakeByVrf
  <2> HIDE DEF da, db
  <2>6. long_range_fork_take(a, b) <=> ~long_range_fork_take(b, a)
    BY <2>4, <2>5 DEF long_range_fork_take, da, db
  <2>7. consensus_take(a, b) <=> ~consensus_take(b, a)
    BY <2>3, <2>5, <2>6 DEF consensus_take
  <2> QED
    BY <2>7 DEF Take, a, b
<1> QED
  BY <1>1, SpecTreeInv, PTL

-----------------------------------------------------------------------------
(* A block and its ancestors. *)

(* What block b keeps of a block a that it descends from.  Epochs without a  *)
(* block are not counted, so the epoch count may lag behind the epochs.      *)
Follows(a, b) ==
    /\ a.height < b.height /\ a.slot < b.slot
    /\ a.epoch_count =< b.epoch_count
    /\ b.epoch_count - a.epoch_count =< epoch(b.slot) - epoch(a.slot)
    /\ a.epoch_count = b.epoch_count =>
          /\ a.staking_lock = b.staking_lock /\ epoch(a.slot) = epoch(b.slot)
          /\ Late(a.slot) => a.next_lock = b.next_lock
    /\ b.epoch_count = a.epoch_count + 1 /\ Late(a.slot) => b.staking_lock = a.next_lock

LEMMA StateFields ==
    ASSUME NEW a \in ConsensusState
    PROVE  /\ a.hash \in Nat /\ a.height \in Nat /\ a.slot \in Nat /\ a.vrf \in Nat
           /\ a.epoch_count \in Nat
BY DEF ConsensusState

(* Producer and fork choice mean the same by the seed update range. *)
LEMMA SeedUpdateRange ==
    ASSUME NEW slot \in Nat
    PROVE  in_seed_update_range(slot % slots_per_epoch) <=> ~Late(slot)
<1> DEFINE E == slots_per_epoch
           u == slot % E
<1>1. E \in Nat /\ E > 0 /\ E % 3 = 0
  BY ConsensusAssumption
<1>2. u \in Nat
  BY <1>1
<1>3. (E \div 3) * 2 = (E * 2) \div 3 /\ (E \div 3) * 2 \in Nat
  BY <1>1
<1> HIDE DEF u, E
<1> QED
  BY <1>2, <1>3 DEF in_seed_update_range, Late, u, E

(* A new block follows its parent and what its parent follows. *)
LEMMA BuildFollows ==
    ASSUME NEW pred \in ConsensusState, NEW slot \in Nat, NEW vrf \in Nat, NEW hash \in Nat,
           slot > pred.slot,
           NEW b, b = BlockUnprovenBuild(pred, slot, vrf, hash)
    PROVE  /\ Follows(pred, b)
           /\ \A a \in ConsensusState : Follows(a, pred) => Follows(a, b)
<1> DEFINE new == epoch(slot) > epoch(pred.slot)
<1>1. /\ b.height = pred.height + 1 /\ b.slot = slot
      /\ b.epoch_count = pred.epoch_count + (IF new THEN 1 ELSE 0)
      /\ b.staking_lock = IF new THEN pred.next_lock ELSE pred.staking_lock
      /\ b.next_lock = IF in_seed_update_range(slot % slots_per_epoch) THEN pred.hash
                       ELSE IF new THEN 0 ELSE pred.next_lock
  BY BuildFields
<1>2. /\ pred.height \in Nat /\ pred.slot \in Nat /\ pred.epoch_count \in Nat
  BY StateFields
<1>3. /\ epoch(slot) \in Nat /\ epoch(pred.slot) \in Nat
      /\ ~new => epoch(pred.slot) = epoch(slot)
      /\ ~new /\ Late(pred.slot) => Late(slot)
  <2>1. pred.slot =< slot
    BY <1>2
  <2>2. /\ epoch(pred.slot) \in Nat /\ epoch(slot) \in Nat /\ epoch(pred.slot) =< epoch(slot)
        /\ epoch(pred.slot) = epoch(slot) /\ Late(pred.slot) => Late(slot)
    BY <1>2, <2>1, EpochOrder
  <2> QED
    BY <2>2
<1>4. Late(slot) /\ ~new => b.next_lock = pred.next_lock
  BY <1>1, SeedUpdateRange
<1>5. Follows(pred, b)
  BY <1>1, <1>2, <1>3, <1>4 DEF Follows
<1>6. ASSUME NEW a \in ConsensusState, Follows(a, pred)
      PROVE  Follows(a, b)
  <2>1. /\ a.height \in Nat /\ a.slot \in Nat /\ a.epoch_count \in Nat
    BY StateFields
  <2>2. epoch(a.slot) \in Nat /\ a.slot =< slot
    BY <1>2, <1>6, <2>1, EpochOrder DEF Follows
  <2>3. epoch(a.slot) = epoch(slot) /\ Late(a.slot) => Late(slot)
    BY <2>1, <2>2, EpochOrder
  <2> QED
    BY <1>1, <1>2, <1>3, <1>4, <1>6, <2>1, <2>2, <2>3 DEF Follows
<1> QED
  BY <1>5, <1>6

(* A block is taken over every block it follows: over a close one because it *)
(* is higher, over a distant one because nothing of the window of that one   *)
(* is left in its own.                                                       *)
LEMMA FollowerTaken ==
    ASSUME NEW a \in ConsensusState, NEW b \in ConsensusState, Follows(a, b)
    PROVE  consensus_take(a, b)
<1>1. /\ a.height \in Nat /\ a.slot \in Nat /\ a.epoch_count \in Nat
      /\ b.height \in Nat /\ b.slot \in Nat /\ b.epoch_count \in Nat
  BY StateFields
<1>2. short_range_fork_take(a, b)
  <2>1. b.height > a.height
    BY <1>1 DEF Follows
  <2> QED
    BY <2>1 DEF short_range_fork_take
<1>3. ASSUME ~is_short_range_fork(a, b)
      PROVE  long_range_fork_take(a, b)
  <2>1. a.epoch_count # b.epoch_count /\ ~OneEpochAhead(b, a)
    BY <1>3 DEF is_short_range_fork, Follows
  <2>2. b.epoch_count > a.epoch_count + 1 \/ ~Late(a.slot)
    BY <1>1, <2>1 DEF OneEpochAhead, Late, Follows
  <2>3. a.slot =< b.slot /\ epoch(a.slot) \in Nat /\ epoch(b.slot) \in Nat
    BY <1>1, EpochOrder DEF Follows
  <2>4. /\ epoch(a.slot) < epoch(b.slot)
        /\ b.epoch_count > a.epoch_count + 1 => epoch(a.slot) + 1 < epoch(b.slot)
    BY <1>1, <2>1, <2>3 DEF Follows
  <2>5. a.slot + SUB_WINDOWS_PER_WINDOW < b.slot
    BY <1>1, <2>2, <2>3, <2>4, EpochOrder
  <2>6. b.slot >= GRACE_PERIOD_END
    <3>1. ~(b.slot < slots_per_epoch)
      BY <1>1, <2>3, <2>4, EpochOrder
    <3> QED
      BY <1>1, <3>1, ConsensusAssumption
  <2>7. relative_min_window_density(a, b) = 0 /\ relative_min_window_density(b, a) \in Nat
    BY <2>5, <2>6, RelativeDensity
  <2> QED
    BY <1>2, <2>7 DEF long_range_fork_take
<1> QED
  BY <1>2, <1>3 DEF consensus_take

(* The equation of the recursive function in ProperAncestors, on D. *)
Below(t, g, D) ==
    g = [j \in D |-> IF t[j].pred = 0 THEN {} ELSE g[t[j].pred] \cup {t[j].pred}]

(* It has a solution, as every block comes after the one it is built on. *)
LEMMA BelowExists ==
    ASSUME NEW t, IsTree(t)
    PROVE  \E g : Below(t, g, 1..Len(t))
<1> DEFINE Bad == {n \in Nat : n =< Len(t) /\ ~ \E g : Below(t, g, 1..n)}
<1>1. Len(t) \in Nat
  BY DEF IsTree
<1>2. ASSUME NEW j \in 1..Len(t) PROVE t[j].pred = 0 \/ t[j].pred \in 1..(j - 1)
  <2>1. CASE j = 1
    BY <2>1 DEF IsTree
  <2>2. CASE j # 1
    <3>1. j \in 2..Len(t)
      BY <1>1, <2>2
    <3>2. Built(t, j)
      BY <3>1 DEF IsTree
    <3> QED
      BY <3>2 DEF Built
  <2> QED
    BY <2>1, <2>2
<1>3. Bad = {}
  <2> SUFFICES ASSUME Bad # {} PROVE FALSE
    OBVIOUS
  <2>1. PICK m \in Bad : \A n \in Bad : m =< n
    <3>1. Bad \in SUBSET Nat
      OBVIOUS
    <3> HIDE DEF Bad
    <3> QED
      BY <3>1, LeastNatural
  <2>2. m \in Nat /\ m =< Len(t) /\ ~ \E g : Below(t, g, 1..m)
    OBVIOUS
  <2>3. m # 0
    <3> SUFFICES ASSUME m = 0 PROVE FALSE
      OBVIOUS
    <3> DEFINE g == [j \in 1..0 |-> {}]
    <3>1. Below(t, g, 1..0)
      BY DEF Below
    <3> QED
      BY <2>2, <3>1
  <2>4. m - 1 \in Nat /\ m - 1 =< Len(t) /\ m - 1 \notin Bad
    <3>1. m - 1 \in Nat /\ m - 1 =< Len(t) /\ ~(m =< m - 1)
      BY <1>1, <2>2, <2>3
    <3> HIDE DEF Bad
    <3> QED
      BY <2>1, <3>1
  <2>5. PICK h : Below(t, h, 1..(m - 1))
    BY <2>4
  <2> DEFINE D == 1..m
             C == 1..(m - 1)
             g == [j \in D |-> IF t[j].pred = 0 THEN {} ELSE h[t[j].pred] \cup {t[j].pred}]
  <2>6. C \subseteq D /\ \A j \in D : t[j].pred = 0 \/ t[j].pred \in C
    BY <1>1, <1>2, <2>2
  <2> HIDE DEF Bad, C, D
  <2>7. \A j \in C : g[j] = h[j]
    BY <2>5, <2>6 DEF Below, C
  <2>8. \A j \in D : g[j] = IF t[j].pred = 0 THEN {} ELSE g[t[j].pred] \cup {t[j].pred}
    BY <2>6, <2>7
  <2>9. Below(t, g, D)
    <3> DEFINE k == [j \in D |-> IF t[j].pred = 0 THEN {} ELSE g[t[j].pred] \cup {t[j].pred}]
    <3>1. DOMAIN g = D /\ g = [j \in D |-> g[j]]
      OBVIOUS
    <3> HIDE DEF g
    <3>2. g = k
      BY <2>8, <3>1
    <3> QED
      BY <3>2 DEF Below
  <2> QED
    BY <2>2, <2>9 DEF D
<1>4. Len(t) \notin Bad
  BY <1>3
<1> QED
  BY <1>1, <1>4

(* So a block's ancestors are its parent and the ancestors of its parent.    *)
LEMMA AncestorsEquation ==
    ASSUME TreeInv, NEW i \in DOMAIN tree
    PROVE  ProperAncestors(i) = IF tree[i].pred = 0 THEN {}
                                ELSE ProperAncestors(tree[i].pred) \cup {tree[i].pred}
<1> DEFINE G == CHOOSE g : Below(tree, g, DOMAIN tree)
<1>1. \A j : ProperAncestors(j) = G[j]
  BY DEF ProperAncestors, Below
<1>2. DOMAIN tree = 1..Len(tree)
  BY DEF TreeInv, IsTree
<1>3. Below(tree, G, DOMAIN tree)
  BY <1>2, BelowExists DEF TreeInv
<1> HIDE DEF G
<1>4. G[i] = IF tree[i].pred = 0 THEN {} ELSE G[tree[i].pred] \cup {tree[i].pred}
  BY <1>3 DEF Below
<1> QED
  BY <1>1, <1>4

(* Every block follows all its ancestors. *)
LEMMA AncestorsFollowed ==
    ASSUME TreeInv
    PROVE  \A i \in DOMAIN tree : \A a \in ProperAncestors(i) :
              a \in DOMAIN tree /\ Follows(tree[a].cs, tree[i].cs)
<1> DEFINE L == Len(tree)
           Good(i) == \A a \in ProperAncestors(i) :
                         a \in 1..L /\ Follows(tree[a].cs, tree[i].cs)
           Bad == {i \in 1..L : ~Good(i)}
<1>1. L \in Nat /\ DOMAIN tree = 1..L /\ tree \in Seq(Block) /\ tree[1].pred = 0
  BY DEF TreeInv, IsTree
<1>2. \A i \in 1..L : tree[i].cs \in ConsensusState
  BY <1>1, BlockType
<1>3. Bad = {}
  <2> SUFFICES ASSUME Bad # {} PROVE FALSE
    OBVIOUS
  <2>1. PICK i \in Bad : \A n \in Bad : i =< n
    <3>1. Bad \in SUBSET Nat
      BY <1>1
    <3> HIDE DEF Bad
    <3> QED
      BY <3>1, LeastNatural
  <2>2. i \in 1..L /\ ~Good(i)
    OBVIOUS
  <2>3. ProperAncestors(i) # {}
    BY <2>2
  <2> DEFINE p == tree[i].pred
  <2> HIDE DEF L
  <2>4. p # 0 /\ ProperAncestors(i) = ProperAncestors(p) \cup {p}
    BY <1>1, <2>2, <2>3, AncestorsEquation
  <2>5. i \in 2..L
    BY <1>1, <2>2, <2>4
  <2>6. Built(tree, i)
    BY <2>5 DEF TreeInv, IsTree, L
  <2>7. p \in 1..(i - 1)
    BY <2>6 DEF Built
  <2>8. p \in 1..L /\ ~(i =< p)
    BY <1>1, <2>2, <2>7
  <2>9. Good(p)
    <3>1. p \notin Bad
      <4> HIDE DEF Bad
      <4> QED
        BY <2>1, <2>8
    <3> QED
      BY <2>8, <3>1
  <2>10. /\ Follows(tree[p].cs, tree[i].cs)
         /\ \A c \in ConsensusState : Follows(c, tree[p].cs) => Follows(c, tree[i].cs)
    <3>1. PICK slot \in Nat, vrf \in Nat :
             /\ slot > tree[p].cs.slot
             /\ tree[i].cs = BlockUnprovenBuild(tree[p].cs, slot, vrf, i)
      BY <2>6 DEF Built
    <3>2. tree[p].cs \in ConsensusState /\ i \in Nat
      BY <1>1, <1>2, <2>2, <2>8
    <3> QED
      BY <3>1, <3>2, BuildFollows
  <2>11. Good(i)
    <3> SUFFICES ASSUME NEW a \in ProperAncestors(i)
                 PROVE  a \in 1..L /\ Follows(tree[a].cs, tree[i].cs)
      OBVIOUS
    <3>1. a = p \/ a \in ProperAncestors(p)
      BY <2>4
    <3>2. CASE a = p
      BY <2>8, <2>10, <3>2
    <3>3. CASE a \in ProperAncestors(p)
      <4>1. a \in 1..L /\ Follows(tree[a].cs, tree[p].cs)
        BY <2>9, <3>3
      <4> QED
        BY <1>2, <2>10, <4>1
    <3> QED
      BY <3>1, <3>2, <3>3
  <2> QED
    BY <2>2, <2>11
<1>4. \A i \in 1..L : Good(i)
  BY <1>3
<1> QED
  BY <1>1, <1>4

(* A node never prefers a block to a descendant of it, whatever epochs and   *)
(* gaps lie between the two: consensus_take with the ancestor as the tip     *)
(* takes the descendant.                                                     *)
THEOREM ExtensionTheorem == Spec => []ExtensionsTaken
<1>1. TreeInv => ExtensionsTaken
  <2> SUFFICES ASSUME TreeInv, NEW i \in DOMAIN tree, NEW a \in ProperAncestors(i)
               PROVE  consensus_take(tree[a].cs, tree[i].cs)
    BY DEF ExtensionsTaken, Take
  <2>1. a \in DOMAIN tree /\ Follows(tree[a].cs, tree[i].cs)
    BY AncestorsFollowed
  <2>2. tree[a] \in Block /\ tree[i] \in Block
    BY <2>1 DEF TreeInv, IsTree
  <2>3. tree[a].cs \in ConsensusState /\ tree[i].cs \in ConsensusState
    BY <2>2, BlockType
  <2> QED
    BY <2>1, <2>3, FollowerTaken
<1> QED
  BY <1>1, SpecTreeInv, PTL
=============================================================================
