--------------------- MODULE TransitionFrontierSyncProofs ---------------------
(***************************************************************************)
(* Proofs about TransitionFrontierSync, for every block tree, every set of *)
(* peers and every K.                                                      *)
(***************************************************************************)
EXTENDS TransitionFrontierSync, TLAPS, WellFoundedInduction

-----------------------------------------------------------------------------
(* Chains and their ends. *)

(* A non-empty set of natural numbers has a least element. *)
LEMMA LeastNatural ==
    ASSUME NEW S \in SUBSET Nat, S # {}
    PROVE  \E m \in S : \A n \in S : m =< n
<1> DEFINE R == OpToRel(<, Nat)
<1>1. PICK m \in S : \A n \in S : ~ (<<n, m>> \in R)
  <2> HIDE DEF R
  <2> QED BY NatLessThanWellFounded, WFMin DEF R
<1>2. \A n \in S : ~ (n < m)
  BY <1>1 DEF OpToRel
<1> QED
  BY <1>2

(* A non-empty set of blocks has a lowest one, the root of a chain. *)
LEMMA LowestIn ==
    ASSUME NEW S \in SUBSET Blocks, S # {}
    PROVE  Lowest(S) \in S /\ \A b \in S : Height[Lowest(S)] =< Height[b]
<1> DEFINE H == {Height[b] : b \in S}
<1>1. H \subseteq Nat /\ H # {}
  BY TreeAssumption
<1>2. PICK h \in H : \A m \in H : h =< m
  BY <1>1, LeastNatural
<1>3. \E b \in S : \A c \in S : Height[b] =< Height[c]
  BY <1>2
<1> QED
  BY <1>3 DEF Lowest

(* Heights are bounded, so it has a highest one too, its tip. *)
LEMMA HighestIn ==
    ASSUME NEW S \in SUBSET Blocks, S # {}
    PROVE  Highest(S) \in S /\ \A b \in S : Height[b] =< Height[Highest(S)]
<1> DEFINE D == {MaxHeight - Height[b] : b \in S}
<1>1. D \subseteq Nat /\ D # {}
  BY TreeAssumption
<1>2. PICK d \in D : \A m \in D : d =< m
  BY <1>1, LeastNatural
<1>3. PICK b \in S : d = MaxHeight - Height[b]
  BY <1>2
<1>4. \A c \in S : Height[c] =< Height[b]
  <2> TAKE c \in S
  <2>1. MaxHeight - Height[b] =< MaxHeight - Height[c]
    BY <1>2, <1>3
  <2> QED
    BY <2>1, TreeAssumption
<1> QED
  BY <1>4 DEF Highest

(* The chain proof of a block ends with it and its root belongs to it. *)
LEMMA ChainOfType ==
    ASSUME NEW t \in Blocks
    PROVE  /\ ChainOf(t) \in SUBSET Blocks
           /\ t \in ChainOf(t)
           /\ RootOf(t) \in Blocks
<1>1. ChainOf(t) \in SUBSET Blocks /\ t \in ChainOf(t)
  BY TreeAssumption, ConstantsAssumption DEF ChainOf
<1> QED
  BY <1>1, LowestIn DEF RootOf

-----------------------------------------------------------------------------
(* The types of the operators from stores to stores. *)

(* A chain, and what is ready to be applied of it, are sets of blocks. *)
LEMMA ChainType ==
    ASSUME NEW n \in Store
    PROVE  InChain(n) \in SUBSET Blocks /\ blocks_apply_next(n) \in SUBSET Blocks
BY DEF InChain, blocks_apply_next

(* Requests have their type, and none of them is the idle writer. *)
LEMMA RequestTypes ==
    /\ Idle \in Requests
    /\ \A b \in Blocks : /\ BlockApply(b) \in Requests /\ BlockApply(b) # Idle
                         /\ Reconstruct(b) \in Requests /\ Reconstruct(b) # Idle
                         /\ DiffCreate(b) \in Requests /\ DiffCreate(b) # Idle
    /\ \A bs \in SUBSET Blocks, u \in Updates :
          Commit(bs, u) \in Requests /\ Commit(bs, u) # Idle
BY DEF Requests, Idle, BlockApply, Reconstruct, DiffCreate, Commit

(* Extending the snarked ledger updates of a commit keeps their type. *)
LEMMA UpdatesType ==
    /\ NoUpdates \in Updates
    /\ \A u \in Updates, bs \in SUBSET Blocks : extend_with_needed(u, bs) \in Updates
<1>1. NoUpdates \in Updates
  BY DEF NoUpdates, Updates
<1>2. ASSUME NEW u \in Updates, NEW bs \in SUBSET Blocks
      PROVE  extend_with_needed(u, bs) \in Updates
  <2> DEFINE steps == {b \in bs : Pred[b] \in bs \ {b} /\ Snarked[b] # Snarked[Pred[b]]}
             of(l) == {c \in steps : Snarked[c] = l}
  <2>1. ASSUME NEW l \in Ledgers, \E b \in steps : Snarked[b] = l
        PROVE  <<[parent |-> Snarked[Pred[Lowest(of(l))]], block |-> Lowest(of(l))]>>
                   \in Seq([parent : Ledgers, block : Blocks])
    <3>1. Lowest(of(l)) \in Blocks
      BY <2>1, LowestIn
    <3> HIDE DEF of
    <3>2. Snarked[Pred[Lowest(of(l))]] \in Ledgers
      BY <3>1, TreeAssumption, LedgerAssumption
    <3> QED
      BY <3>1, <3>2
  <2> QED
    BY <2>1 DEF extend_with_needed, Updates
<1> QED
  BY <1>1, <1>2

-----------------------------------------------------------------------------
(* The inductive invariant, as a predicate on stores. *)

BlockPhases == {"BlocksPending", "BlocksSuccess", "CommitPending"}

(* What each phase keeps: a target while ledgers are synchronized, a chain   *)
(* while blocks are, a parent while a block is produced.                     *)
Wf(n) ==
    /\ n \in Store
    /\ n.best_chain # {}
    /\ n.sync \in BlockPhases => InChain(n) # {}
    /\ n.sync \notin BlockPhases => n.chain = NoChain
    /\ n.sync \in LedgerPhases <=> n.ledger.state # "None"
    /\ n.sync \in LedgerPhases => n.tip \in Blocks /\ n.root \in Blocks
    /\ n.sync \in LedgerPhases \ {"RootLedgerPending"} => n.ledger.state = "SnarkedPending"
    /\ n.sync = "RootLedgerPending" => n.ledger.staged \in Blocks
    /\ n.producer.state # "Idle" => n.producer.pred \in Blocks

(* PendingHasRequest of a store. *)
Matched(n) ==
    /\ \A b \in Blocks : n.chain[b] = "ApplyPending" => n.writer = BlockApply(b)
    /\ n.ledger.state = "ReconstructPending" => n.writer = Reconstruct(n.ledger.staged)
    /\ n.sync = "CommitPending" <=> n.writer.kind = "Commit"
    /\ n.sync = "CommitPending" => n.writer.blocks = InChain(n)

Good(n) == Wf(n) /\ Matched(n)

(* Offering the writer to the block producer. *)
LEMMA DiffCreateInitGood ==
    ASSUME NEW n, Good(n)
    PROVE  LET m == StagedLedgerDiffCreateInit(n)
           IN  /\ Good(m)
               /\ m.sync = n.sync
               /\ WriterFree(m) => m = n /\ n.producer.state # "WonSlotTransactionsSuccess"
<1> DEFINE m == StagedLedgerDiffCreateInit(n)
<1>1. CASE WriterFree(n) /\ n.producer.state = "WonSlotTransactionsSuccess"
  <2>1. n.producer.pred \in Blocks
    BY <1>1 DEF Good, Wf
  <2>2. m = [n EXCEPT !.writer = DiffCreate(n.producer.pred),
                      !.producer.state = "StagedLedgerDiffCreatePending"]
    BY <1>1 DEF StagedLedgerDiffCreateInit
  <2>3. m \in Store
    <3>1. n \in Store /\ DiffCreate(n.producer.pred) \in Requests
      BY <2>1, RequestTypes DEF Good, Wf
    <3>2. [n.producer EXCEPT !.state = "StagedLedgerDiffCreatePending"]
             \in [state : ProducerStates, pred : Blocks \cup {NoBlock}]
      BY <3>1 DEF Store, ProducerStates
    <3>3. m = [n EXCEPT !.writer = DiffCreate(n.producer.pred),
                        !.producer = [n.producer EXCEPT !.state = "StagedLedgerDiffCreatePending"]]
      BY <2>2, <3>1 DEF Store
    <3> QED
      BY <3>1, <3>2, <3>3 DEF Store
  <2>4. InChain(m) = InChain(n)
    BY <2>2, <2>3 DEF Good, Wf, InChain, Store
  <2>5. Wf(m)
    <3>1. /\ m.best_chain = n.best_chain /\ m.sync = n.sync /\ m.chain = n.chain
          /\ m.ledger = n.ledger /\ m.tip = n.tip /\ m.root = n.root
          /\ m.producer.pred = n.producer.pred
      BY <2>2 DEF Good, Wf, Store
    <3> QED
      BY <2>1, <2>3, <2>4, <3>1 DEF Good, Wf
  <2>6. Matched(m)
    BY <1>1, <2>1, <2>2, <2>3, <2>4, RequestTypes
    DEF Good, Wf, Matched, Store, WriterFree, Idle, BlockApply, Reconstruct, DiffCreate
  <2> QED
    BY <2>1, <2>2, <2>5, <2>6, RequestTypes DEF Good, Wf, Store, WriterFree
<1>2. CASE ~(WriterFree(n) /\ n.producer.state = "WonSlotTransactionsSuccess")
  BY <1>2 DEF StagedLedgerDiffCreateInit
<1> QED
  BY <1>1, <1>2

(* Offering the writer to the next block to be applied. *)
LEMMA NextApplyInitGood ==
    ASSUME NEW n, Good(n)
    PROVE  LET m == BlocksNextApplyInit(n)
           IN  /\ Good(m)
               /\ m.sync = n.sync
               /\ WriterFree(m) => m = n /\ blocks_apply_next(n) = {}
<1> DEFINE m == BlocksNextApplyInit(n)
<1>1. CASE WriterFree(n) /\ blocks_apply_next(n) # {}
  <2>1. PICK b \in blocks_apply_next(n) :
           m = [n EXCEPT !.writer = BlockApply(b), !.chain[b] = "ApplyPending"]
    BY <1>1 DEF BlocksNextApplyInit
  <2>2. b \in Blocks /\ n.chain[b] = "FetchSuccess"
    BY DEF blocks_apply_next, InChain
  <2>3. m \in Store
    <3>1. n \in Store /\ BlockApply(b) \in Requests
      BY <2>2, RequestTypes DEF Good, Wf
    <3>2. [n.chain EXCEPT ![b] = "ApplyPending"] \in [Blocks -> BlockStates]
      BY <2>2, <3>1 DEF Store, BlockStates
    <3>3. m = [n EXCEPT !.writer = BlockApply(b),
                        !.chain = [n.chain EXCEPT ![b] = "ApplyPending"]]
      BY <2>1, <3>1 DEF Store
    <3> QED
      BY <3>1, <3>2, <3>3 DEF Store
  <2>4. InChain(m) = InChain(n) /\ m.chain # NoChain /\ n.chain # NoChain
    BY <2>1, <2>2, <2>3 DEF Good, Wf, InChain, NoChain, Store
  <2>5. Wf(m)
    BY <2>1, <2>2, <2>3, <2>4 DEF Good, Wf, Store
  <2>6. Matched(m)
    BY <1>1, <2>1, <2>2, <2>3, <2>4, RequestTypes
    DEF Good, Wf, Matched, Store, WriterFree, Idle, BlockApply, Reconstruct
  <2> QED
    BY <2>1, <2>2, <2>5, <2>6, RequestTypes DEF Good, Wf, Store, WriterFree
<1>2. CASE ~(WriterFree(n) /\ blocks_apply_next(n) # {})
  BY <1>2 DEF BlocksNextApplyInit
<1> QED
  BY <1>1, <1>2

(* Offering the writer to the commit of a chain that is complete. *)
LEMMA CommitInitGood ==
    ASSUME NEW n, Good(n)
    PROVE  LET m == CommitInit(n)
           IN  /\ Good(m)
               /\ m.sync = "BlocksSuccess" => n.sync = "BlocksSuccess" /\ ~WriterFree(n)
               /\ WriterFree(m) => m = n /\ n.sync # "BlocksSuccess"
<1> DEFINE m == CommitInit(n)
<1>1. CASE WriterFree(n) /\ n.sync = "BlocksSuccess"
  <2>1. PICK u \in Updates : m = [n EXCEPT !.writer = Commit(InChain(n), u),
                                           !.sync = "CommitPending"]
    <3>1. n.updates \in Updates /\ n.best_chain \in SUBSET Blocks
      BY DEF Good, Wf, Store
    <3> QED
      BY <1>1, <3>1, UpdatesType DEF CommitInit
  <2>2. InChain(n) \in SUBSET Blocks
    BY DEF InChain
  <2>3. m \in Store
    <3>1. n \in Store /\ Commit(InChain(n), u) \in Requests
      BY <2>2, RequestTypes DEF Good, Wf
    <3> QED
      BY <2>1, <3>1 DEF Store, SyncStates
  <2>4. InChain(m) = InChain(n)
    BY <2>1, <2>3 DEF Good, Wf, InChain, Store
  <2>5. Wf(m)
    BY <1>1, <2>1, <2>3, <2>4 DEF Good, Wf, Store, BlockPhases, LedgerPhases
  <2>6. Matched(m)
    BY <1>1, <2>1, <2>3, <2>4, RequestTypes
    DEF Good, Wf, Matched, Store, WriterFree, Idle, BlockApply, Reconstruct, Commit
  <2> QED
    BY <1>1, <2>1, <2>2, <2>5, <2>6, RequestTypes DEF Good, Wf, Store, WriterFree
<1>2. CASE ~(WriterFree(n) /\ n.sync = "BlocksSuccess")
  BY <1>2 DEF CommitInit
<1> QED
  BY <1>1, <1>2

(* Offering the writer to the reconstruction of the root. *)
LEMMA ReconstructInitGood ==
    ASSUME NEW n, Good(n)
    PROVE  LET m == ReconstructInit(n)
           IN  /\ Good(m)
               /\ m.sync = n.sync
               /\ WriterFree(m) => m = n /\ n.ledger.state # "PartsFetchSuccess"
<1> DEFINE m == ReconstructInit(n)
<1>1. CASE WriterFree(n) /\ n.ledger.state = "PartsFetchSuccess"
  <2>1. n.ledger.staged \in Blocks /\ n.sync = "RootLedgerPending"
    BY <1>1 DEF Good, Wf
  <2>2. m = [n EXCEPT !.writer = Reconstruct(n.ledger.staged),
                      !.ledger.state = "ReconstructPending"]
    BY <1>1 DEF ReconstructInit
  <2>3. m \in Store
    <3>1. n \in Store /\ Reconstruct(n.ledger.staged) \in Requests
      BY <2>1, RequestTypes DEF Good, Wf
    <3>2. [n.ledger EXCEPT !.state = "ReconstructPending"]
             \in [state : LedgerSyncStates, snarked : Ledgers, staged : Blocks \cup {NoBlock}]
      BY <3>1 DEF Store, LedgerSyncStates
    <3>3. m = [n EXCEPT !.writer = Reconstruct(n.ledger.staged),
                        !.ledger = [n.ledger EXCEPT !.state = "ReconstructPending"]]
      BY <2>2, <3>1 DEF Store
    <3> QED
      BY <3>1, <3>2, <3>3 DEF Store
  <2>4. InChain(m) = InChain(n)
    BY <2>2, <2>3 DEF Good, Wf, InChain, Store
  <2>5. Wf(m)
    <3>1. /\ m.best_chain = n.best_chain /\ m.sync = n.sync /\ m.chain = n.chain
          /\ m.ledger.staged = n.ledger.staged /\ m.ledger.state = "ReconstructPending"
          /\ m.tip = n.tip /\ m.root = n.root /\ m.producer = n.producer
      BY <2>2 DEF Good, Wf, Store
    <3> QED
      BY <2>1, <2>3, <2>4, <3>1 DEF Good, Wf, LedgerPhases
  <2>6. Matched(m)
    BY <1>1, <2>1, <2>2, <2>3, <2>4, RequestTypes
    DEF Good, Wf, Matched, Store, WriterFree, Idle, BlockApply, Reconstruct
  <2> QED
    BY <2>1, <2>2, <2>5, <2>6, RequestTypes DEF Good, Wf, Store, WriterFree
<1>2. CASE ~(WriterFree(n) /\ n.ledger.state = "PartsFetchSuccess")
  BY <1>2 DEF ReconstructInit
<1> QED
  BY <1>1, <1>2

(* No component has work for an idle writer: NoLostWakeup of a store. *)
Quiet(n) ==
    WriterFree(n) =>
        /\ blocks_apply_next(n) = {}
        /\ n.sync # "BlocksSuccess"
        /\ n.ledger.state # "PartsFetchSuccess"
        /\ n.producer.state # "WonSlotTransactionsSuccess"

(* After an answer the four clients are offered the writer in turn.  If it   *)
(* is still free none of them took it, so none of them had work.             *)
LEMMA AfterWriteGood ==
    ASSUME NEW n, Good(n)
    PROVE  /\ Good(AfterWrite(n))
           /\ Quiet(AfterWrite(n))
           /\ n.sync # "BlocksSuccess" => AfterWrite(n).sync # "BlocksSuccess"
<1> DEFINE a == StagedLedgerDiffCreateInit(n)
           b == BlocksNextApplyInit(a)
           c == CommitInit(b)
           d == ReconstructInit(c)
<1>1. Good(a) /\ a.sync = n.sync
      /\ (WriterFree(a) => a = n /\ n.producer.state # "WonSlotTransactionsSuccess")
  BY DiffCreateInitGood
<1>2. Good(b) /\ b.sync = a.sync /\ (WriterFree(b) => b = a /\ blocks_apply_next(a) = {})
  BY <1>1, NextApplyInitGood
<1>3. Good(c) /\ (c.sync = "BlocksSuccess" => b.sync = "BlocksSuccess")
      /\ (WriterFree(c) => c = b /\ b.sync # "BlocksSuccess")
  BY <1>2, CommitInitGood
<1>4. Good(d) /\ d.sync = c.sync
      /\ (WriterFree(d) => d = c /\ c.ledger.state # "PartsFetchSuccess")
  BY <1>3, ReconstructInitGood
<1>5. AfterWrite(n) = d
  BY DEF AfterWrite
<1> HIDE DEF a, b, c, d
<1> QED
  BY <1>1, <1>2, <1>3, <1>4, <1>5 DEF Quiet

-----------------------------------------------------------------------------
(* The answers. *)

(* An answer frees the writer and changes nothing else. *)
LEMMA AnsweredWf ==
    ASSUME NEW n, Wf(n)
    PROVE  /\ Wf(Answered(n)) /\ Answered(n).writer = Idle
           /\ InChain(Answered(n)) = InChain(n)
           /\ \A f \in DOMAIN n \ {"writer"} : Answered(n)[f] = n[f]
<1> DEFINE m == Answered(n)
<1>1. n \in Store
  BY DEF Wf
<1>2. m \in Store /\ m.writer = Idle /\ \A f \in DOMAIN n \ {"writer"} : m[f] = n[f]
  BY <1>1, RequestTypes DEF Answered, Store
<1>3. /\ m.best_chain = n.best_chain /\ m.sync = n.sync /\ m.chain = n.chain
      /\ m.ledger = n.ledger /\ m.tip = n.tip /\ m.root = n.root /\ m.producer = n.producer
  BY <1>1 DEF Answered, Store
<1>4. InChain(m) = InChain(n)
  BY <1>3 DEF InChain
<1> HIDE DEF m
<1>5. Wf(m)
  BY <1>2, <1>3, <1>4 DEF Wf
<1> QED
  BY <1>2, <1>4, <1>5 DEF m

(* A free writer matches a store in which nobody waits for it. *)
LEMMA IdleMatched ==
    ASSUME NEW n, Wf(n), n.writer = Idle,
           \A b \in Blocks : n.chain[b] # "ApplyPending",
           n.ledger.state # "ReconstructPending",
           n.sync # "CommitPending"
    PROVE  Good(n)
BY DEF Good, Matched, Idle

(* The last block is applied: with a free writer the commit starts at once. *)
LEMMA BlocksSuccessGood ==
    ASSUME NEW n, Good(n), n.writer = Idle, n.sync = "BlocksPending"
    PROVE  Good(BlocksSuccess(n)) /\ BlocksSuccess(n).sync # "BlocksSuccess"
<1>1. CASE \A b \in InChain(n) : n.chain[b] = "ApplySuccess"
  <2> DEFINE top == Highest(InChain(n))
             low == Height[top] - K
             cut == [b \in Blocks |-> IF Height[b] < low THEN "None" ELSE n.chain[b]]
             m   == [n EXCEPT !.sync = "BlocksSuccess", !.chain = cut]
  <2>1. n \in Store /\ InChain(n) \in SUBSET Blocks /\ InChain(n) # {}
    BY DEF Good, Wf, InChain, BlockPhases
  <2>2. top \in InChain(n) /\ top \in Blocks
    BY <2>1, HighestIn
  <2>3. BlocksSuccess(n) = CommitInit(m)
    <3>1. m = [n EXCEPT !.sync = "BlocksSuccess",
                        !.chain = [b \in Blocks |-> IF Height[b] < low THEN "None" ELSE @[b]]]
      BY <2>1 DEF Store
    <3> QED
      BY <1>1, <3>1 DEF BlocksSuccess
  <2> HIDE DEF top
  <2>4. cut \in [Blocks -> BlockStates] /\ cut[top] # "None"
    BY <2>1, <2>2, TreeAssumption, ConstantsAssumption DEF Store, BlockStates, InChain
  <2>5. \A b \in Blocks : cut[b] # "ApplyPending"
    BY <1>1, <2>1 DEF InChain, Store
  <2> HIDE DEF cut
  <2>6. m \in Store /\ m.sync = "BlocksSuccess" /\ m.chain = cut /\ m.writer = Idle
        /\ m.best_chain = n.best_chain /\ m.ledger = n.ledger /\ m.producer = n.producer
    BY <2>1, <2>4 DEF Store, SyncStates
  <2> HIDE DEF m
  <2>7. top \in InChain(m)
    BY <2>2, <2>4, <2>6 DEF InChain
  <2>8. n.ledger.state = "None"
    BY DEF Good, Wf, LedgerPhases
  <2>9. Wf(m)
    BY <2>6, <2>7, <2>8 DEF Good, Wf, BlockPhases, LedgerPhases
  <2>10. Good(m)
    BY <2>5, <2>6, <2>8, <2>9, IdleMatched
  <2> QED
    BY <2>3, <2>6, <2>10, CommitInitGood DEF WriterFree
<1>2. CASE ~ \A b \in InChain(n) : n.chain[b] = "ApplySuccess"
  BY <1>2 DEF BlocksSuccess
<1> QED
  BY <1>1, <1>2

(* The service has applied the block, or refused it. *)
LEMMA BlockAppliedGood ==
    ASSUME NEW n, Good(n), NEW b \in Blocks, n.writer = BlockApply(b),
           n.sync # "BlocksSuccess"
    PROVE  /\ Good(BlocksNextApplySuccess(Answered(n), b))
           /\ BlocksNextApplySuccess(Answered(n), b).sync # "BlocksSuccess"
           /\ Good(BlocksNextApplyError(Answered(n), b))
           /\ BlocksNextApplyError(Answered(n), b).sync # "BlocksSuccess"
<1> DEFINE a == Answered(n)
<1>1. Wf(a) /\ a \in Store /\ a.writer = Idle /\ a.chain = n.chain /\ a.sync = n.sync
      /\ a.ledger = n.ledger
  <2>1. n \in Store /\ Wf(n)
    BY DEF Good, Wf
  <2>2. a.chain = n.chain /\ a.sync = n.sync /\ a.ledger = n.ledger
    BY <2>1, AnsweredWf DEF Store
  <2> QED
    BY <2>1, <2>2, AnsweredWf DEF Wf
<1>2. /\ \A c \in Blocks \ {b} : a.chain[c] # "ApplyPending"
      /\ a.ledger.state # "ReconstructPending"
      /\ a.sync # "CommitPending"
  <2>1. \A c \in Blocks : BlockApply(c) = BlockApply(b) => c = b
    BY DEF BlockApply
  <2>2. BlockApply(b).kind = "BlockApply" /\ BlockApply(b) # Reconstruct(n.ledger.staged)
    BY DEF BlockApply, Reconstruct
  <2> QED
    BY <1>1, <2>1, <2>2 DEF Good, Matched
<1> HIDE DEF a
<1>3. CASE a.chain[b] # "ApplyPending"
  <2>1. Good(a)
    BY <1>1, <1>2, <1>3, IdleMatched
  <2> QED
    BY <1>1, <1>3, <2>1
    DEF BlocksNextApplySuccess, BlocksNextApplyError, blocks_apply_pending, a
<1>4. CASE a.chain[b] = "ApplyPending"
  <2>1. a.sync = "BlocksPending" /\ a.ledger.state = "None"
    BY <1>1, <1>2, <1>4 DEF Wf, NoChain, BlockPhases, LedgerPhases
  <2>2. b \in blocks_apply_pending(a)
    BY <1>4 DEF blocks_apply_pending
  <2> DEFINE ch == [a.chain EXCEPT ![b] = "ApplySuccess"]
             m  == [a EXCEPT !.chain = ch]
  <2>3. ch \in [Blocks -> BlockStates] /\ ch[b] = "ApplySuccess"
        /\ \A c \in Blocks : ch[c] # "ApplyPending"
    BY <1>1, <1>2 DEF Store, BlockStates
  <2>4. m = [a EXCEPT !.chain[b] = "ApplySuccess"]
    BY <1>1 DEF Store
  <2> HIDE DEF ch
  <2>5. m \in Store /\ m.sync = "BlocksPending" /\ m.chain = ch /\ m.writer = Idle
        /\ m.best_chain = a.best_chain /\ m.ledger = a.ledger /\ m.producer = a.producer
    BY <1>1, <2>1, <2>3 DEF Store
  <2> HIDE DEF m
  <2>6. b \in InChain(m)
    BY <2>3, <2>5 DEF InChain
  <2>7. Wf(m)
    BY <1>1, <2>1, <2>5, <2>6 DEF Wf, BlockPhases, LedgerPhases
  <2>8. Good(m)
    BY <2>1, <2>3, <2>5, <2>7, IdleMatched
  <2>9. Good(BlocksNextApplySuccess(a, b))
        /\ BlocksNextApplySuccess(a, b).sync # "BlocksSuccess"
    <3>1. BlocksNextApplySuccess(a, b) =
             IF blocks_apply_next(m) # {} THEN BlocksNextApplyInit(m) ELSE BlocksSuccess(m)
      BY <2>2, <2>4 DEF BlocksNextApplySuccess
    <3> QED
      BY <2>5, <2>8, <3>1, NextApplyInitGood, BlocksSuccessGood
  <2> DEFINE e == [a EXCEPT !.blacklist = a.blacklist \cup {b}, !.sync = "Synced",
                            !.chain = NoChain, !.attempts = NoQueries, !.updates = NoUpdates]
  <2>10. e = BlocksNextApplyError(a, b)
    BY <1>1, <2>2 DEF BlocksNextApplyError, Store
  <2>11. NoChain \in [Blocks -> BlockStates] /\ NoQueries \in [Blocks -> [Peers -> RpcStates]]
    BY DEF NoChain, NoQueries, BlockStates, RpcStates
  <2>12. e \in Store /\ e.sync = "Synced" /\ e.chain = NoChain /\ e.writer = Idle
         /\ e.best_chain = a.best_chain /\ e.ledger = a.ledger /\ e.producer = a.producer
    BY <1>1, <2>11, UpdatesType DEF Store, SyncStates
  <2> HIDE DEF e
  <2>13. Wf(e)
    BY <1>1, <2>1, <2>12 DEF Wf, BlockPhases, LedgerPhases
  <2>14. Good(e)
    BY <2>1, <2>12, <2>13, IdleMatched DEF NoChain
  <2> QED
    BY <2>9, <2>10, <2>12, <2>14 DEF a
<1> QED
  BY <1>3, <1>4

(* The frontier has been committed. *)
LEMMA SyncedGood ==
    ASSUME NEW n, Good(n), n.sync = "CommitPending", NEW discard \in BOOLEAN
    PROVE  /\ Good(Synced(Answered(n), discard))
           /\ Synced(Answered(n), discard).sync # "BlocksSuccess"
<1> DEFINE a == Answered(n)
           bl == {b \in a.blacklist : Height[b] + K > Height[Highest(InChain(a))]}
           pr == IF discard THEN [state |-> "Idle", pred |-> NoBlock] ELSE a.producer
           m == [a EXCEPT !.best_chain = InChain(a), !.blacklist = bl, !.sync = "Synced",
                          !.chain = NoChain, !.updates = NoUpdates, !.producer = pr]
<1>1. n \in Store /\ Wf(n)
  BY DEF Good, Wf
<1>2. Wf(a) /\ a \in Store /\ a.writer = Idle /\ a.sync = n.sync /\ a.ledger = n.ledger
      /\ a.producer = n.producer
  <2>1. a.sync = n.sync /\ a.ledger = n.ledger /\ a.producer = n.producer
    BY <1>1, AnsweredWf DEF Store
  <2> QED
    BY <1>1, <2>1, AnsweredWf DEF Wf
<1> HIDE DEF a
<1>3. m = Synced(a, discard)
  BY <1>2 DEF Synced, Store
<1>4. InChain(a) \in SUBSET Blocks /\ InChain(a) # {} /\ a.ledger.state = "None"
  BY <1>2 DEF Wf, InChain, BlockPhases, LedgerPhases
<1>5. bl \in SUBSET Blocks /\ NoChain \in [Blocks -> BlockStates]
      /\ pr \in [state : ProducerStates, pred : Blocks \cup {NoBlock}]
      /\ (pr.state # "Idle" => pr.pred \in Blocks)
  BY <1>2 DEF Wf, Store, NoChain, BlockStates, ProducerStates
<1> HIDE DEF bl, pr
<1>6. m \in Store /\ m.sync = "Synced" /\ m.chain = NoChain /\ m.writer = Idle
      /\ m.best_chain = InChain(a) /\ m.ledger = a.ledger /\ m.producer = pr
  BY <1>2, <1>4, <1>5, UpdatesType DEF Store, SyncStates
<1> HIDE DEF m
<1>7. Wf(m)
  BY <1>4, <1>5, <1>6 DEF Wf, BlockPhases, LedgerPhases
<1>8. Good(m)
  BY <1>4, <1>6, <1>7, IdleMatched DEF NoChain
<1> QED
  BY <1>3, <1>6, <1>8 DEF a

(* The root has been reconstructed: the blocks above it are next. *)
LEMMA BlocksPendingGood ==
    ASSUME NEW n, Good(n), n.ledger.state = "ReconstructPending"
    PROVE  /\ Good(BlocksPending(Answered(n)))
           /\ BlocksPending(Answered(n)).sync # "BlocksSuccess"
<1> DEFINE a == Answered(n)
           m == BlocksPending(a)
<1>1. n \in Store /\ Wf(n)
  BY DEF Good, Wf
<1>2. Wf(a) /\ a \in Store /\ a.writer = Idle /\ a.ledger = n.ledger
  <2>1. a.ledger = n.ledger
    BY <1>1, AnsweredWf DEF Store
  <2> QED
    BY <1>1, <2>1, AnsweredWf DEF Wf
<1>3. a.sync = "RootLedgerPending" /\ a.tip \in Blocks /\ a.root \in Blocks
  BY <1>2 DEF Wf, LedgerPhases
<1> HIDE DEF a
<1> DEFINE roots == a.root_updates \cup {a.root}
           applied == Lowest(roots)
           between == ChainOf(a.tip) \ {a.root, a.tip}
           ch == [b \in Blocks |->
                    CASE b = applied -> "ApplySuccess"
                      [] b \in (roots \cup {a.tip}) \ {applied} -> "FetchSuccess"
                      [] b \in between \ roots -> IF b \in a.best_chain THEN "ApplySuccess"
                                          ELSE "FetchPending"
                      [] OTHER -> "None"]
           up == extend_with_needed(NoUpdates, roots)
<1>4. m = [a EXCEPT !.sync = "BlocksPending", !.tip = NoBlock, !.root = NoBlock,
                    !.root_updates = {}, !.ledger = NoLedgerSync, !.chain = ch, !.updates = up]
  BY DEF BlocksPending
<1>5. roots \in SUBSET Blocks /\ applied \in Blocks
  <2>1. roots \in SUBSET Blocks /\ roots # {}
    BY <1>2, <1>3 DEF Store
  <2> QED
    BY <2>1, LowestIn
<1>6. up \in Updates
  BY <1>5, UpdatesType
<1> HIDE DEF applied, roots, between, up
<1>7. /\ ch \in [Blocks -> BlockStates]
      /\ \A b \in Blocks : ch[b] \in {"None", "FetchPending", "FetchSuccess", "ApplySuccess"}
      /\ ch[applied] # "None"
  BY <1>5 DEF BlockStates
<1> HIDE DEF ch
<1>8. NoLedgerSync \in [state : LedgerSyncStates, snarked : Ledgers, staged : Blocks \cup {NoBlock}]
      /\ NoLedgerSync.state = "None"
  BY LedgerAssumption DEF NoLedgerSync, LedgerSyncStates
<1>9. m \in Store /\ m.sync = "BlocksPending" /\ m.chain = ch /\ m.writer = Idle
      /\ m.best_chain = a.best_chain /\ m.ledger = NoLedgerSync /\ m.producer = a.producer
  <2>1. "BlocksPending" \in SyncStates
    BY DEF SyncStates
  <2> HIDE DEF m
  <2>2. m \in Store
    BY <1>2, <1>4, <1>6, <1>7, <1>8, <2>1 DEF Store
  <2> QED
    BY <1>2, <1>4, <2>2 DEF Store
<1> HIDE DEF m
<1>10. applied \in InChain(m)
  BY <1>5, <1>7, <1>9 DEF InChain
<1>11. Wf(m)
  BY <1>2, <1>8, <1>9, <1>10 DEF Wf, BlockPhases, LedgerPhases
<1>12. Good(m)
  BY <1>7, <1>8, <1>9, <1>11, IdleMatched
<1> QED
  BY <1>9, <1>12 DEF m, a

-----------------------------------------------------------------------------
(* Asking peers for blocks touches the attempts only. *)

(* A query is a function from blocks to peers. *)
LEMMA QueriesType ==
    ASSUME NEW n, NEW r, NEW q \in Queries(n, r)
    PROVE  DOMAIN q \in SUBSET Blocks /\ \A b \in DOMAIN q : q[b] \in Peers
BY DEF Queries, RequestsFor, Missing

(* Attempts are nobody's business but the fetching of blocks. *)
LEMMA AttemptsGood ==
    ASSUME NEW n, Good(n), NEW at \in [Blocks -> [Peers -> RpcStates]]
    PROVE  LET m == [n EXCEPT !.attempts = at]
           IN  /\ Good(m)
               /\ m.sync = n.sync /\ m.chain = n.chain /\ m.ledger = n.ledger
               /\ m.writer = n.writer /\ m.producer = n.producer
<1> DEFINE m == [n EXCEPT !.attempts = at]
<1>1. n \in Store
  BY DEF Good, Wf
<1>2. m \in Store /\ m.sync = n.sync /\ m.chain = n.chain /\ m.ledger = n.ledger
      /\ m.writer = n.writer /\ m.producer = n.producer /\ m.best_chain = n.best_chain
      /\ m.tip = n.tip /\ m.root = n.root
  BY <1>1 DEF Store
<1> HIDE DEF m
<1>3. InChain(m) = InChain(n)
  BY <1>2 DEF InChain
<1>4. Wf(m) /\ Matched(m)
  BY <1>2, <1>3 DEF Good, Wf, Matched
<1> QED
  BY <1>2, <1>4 DEF Good, m

(* Asking peers for blocks keeps the store good. *)
LEMMA QueryPendingGood ==
    ASSUME NEW n, Good(n), NEW q, DOMAIN q \in SUBSET Blocks,
           \A b \in DOMAIN q : q[b] \in Peers
    PROVE  LET m == QueryPending(n, q)
           IN  /\ Good(m)
               /\ m.sync = n.sync /\ m.chain = n.chain /\ m.ledger = n.ledger
               /\ m.writer = n.writer /\ m.producer = n.producer
<1> DEFINE at == [b \in Blocks |-> IF b \in DOMAIN q
                                   THEN [n.attempts[b] EXCEPT ![q[b]] = "Pending"]
                                   ELSE n.attempts[b]]
<1>1. n \in Store
  BY DEF Good, Wf
<1>2. QueryPending(n, q) = [n EXCEPT !.attempts = at]
  BY <1>1 DEF QueryPending, Store
<1>3. at \in [Blocks -> [Peers -> RpcStates]]
  BY <1>1 DEF Store, RpcStates
<1> HIDE DEF at
<1> QED
  BY <1>2, <1>3, AttemptsGood

(* A peer works on a block or on none. *)
LEMMA SendRequestsType ==
    ASSUME NEW r \in [Peers -> Blocks \cup {NoBlock}], NEW q, DOMAIN q \in SUBSET Blocks
    PROVE  SendRequests(r, q) \in [Peers -> Blocks \cup {NoBlock}]
BY DEF SendRequests

-----------------------------------------------------------------------------
(* BestTipUpdate: whatever the phase, the new target leaves the writer and   *)
(* the producer alone, and nothing that waits for the writer is changed.     *)

LedgerRecord ==
    [state : LedgerSyncStates, snarked : Ledgers, staged : Blocks \cup {NoBlock}]

(* The targets of a ledger synchronization have their type. *)
LEMMA TargetTypes ==
    /\ \A h \in Ledgers : /\ SnarkedTarget(h) \in LedgerRecord
                          /\ SnarkedTarget(h).state = "SnarkedPending"
    /\ \A b \in Blocks : /\ RootTarget(b) \in LedgerRecord
                         /\ RootTarget(b).state = "SnarkedPending"
                         /\ RootTarget(b).staged = b
BY LedgerAssumption DEF SnarkedTarget, RootTarget, LedgerRecord, LedgerSyncStates

(* A retargeted ledger starts over, or goes on as it was. *)
LEMMA UpdateTargetType ==
    ASSUME NEW l \in LedgerRecord, NEW new \in LedgerRecord, new.state = "SnarkedPending"
    PROVE  LET u == update_target(l, new)
           IN  /\ u \in LedgerRecord
               /\ u = l \/ u.state \in {"SnarkedPending", "PartsFetchPending"}
               /\ l.state = "SnarkedPending" => u.state = "SnarkedPending"
               /\ l.staged \in Blocks /\ new.staged \in Blocks => u.staged \in Blocks
               /\ u.state = "None" => l.state = "None"
<1> DEFINE u == update_target(l, new)
<1>1. [new EXCEPT !.state = "PartsFetchPending"] \in LedgerRecord
      /\ [new EXCEPT !.state = "PartsFetchPending"].state = "PartsFetchPending"
      /\ [new EXCEPT !.state = "PartsFetchPending"].staged = new.staged
  BY DEF LedgerRecord, LedgerSyncStates
<1>2. CASE l.state = "SnarkedPending"
  <2>1. u = new
    BY <1>2 DEF update_target
  <2> QED
    BY <1>2, <2>1
<1>3. CASE l.state # "SnarkedPending"
  <2>1. u \in {l, new, [new EXCEPT !.state = "PartsFetchPending"]}
    BY <1>3 DEF update_target
  <2> QED
    BY <1>1, <1>3, <2>1
<1> QED
  BY <1>2, <1>3

(* What a store looks like after a retarget that leaves it in a ledger phase. *)
LedgerTarget(n, m, t) ==
    /\ m \in Store
    /\ m.sync \in LedgerPhases
    /\ m.tip = t /\ m.root = RootOf(t) /\ m.chain = NoChain
    /\ m.best_chain = n.best_chain /\ m.writer = n.writer /\ m.producer = n.producer
    /\ m.ledger = n.ledger \/ m.ledger.state \in {"SnarkedPending", "PartsFetchPending"}
    /\ m.ledger.state # "None"
    /\ m.sync # "RootLedgerPending" => m.ledger.state = "SnarkedPending"
    /\ m.sync = "RootLedgerPending" => m.ledger.staged \in Blocks

(* Such a store is good: nobody waits for the writer on its behalf. *)
LEMMA LedgerTargetGood ==
    ASSUME NEW n, Good(n), n.sync # "CommitPending", NEW t \in Blocks, NEW m,
           LedgerTarget(n, m, t)
    PROVE  Good(m)
<1>1. Wf(m)
  BY ChainOfType DEF Good, Wf, LedgerTarget, BlockPhases, LedgerPhases
<1>2. Matched(m)
  BY DEF Good, Matched, LedgerTarget, LedgerPhases, NoChain
<1> QED
  BY <1>1, <1>2 DEF Good

(* A better tip while ledgers are synchronized. *)
LEMMA RetargetLedgerGood ==
    ASSUME NEW n, Good(n), n.sync \in LedgerPhases, NEW t \in Blocks
    PROVE  LedgerTarget(n, RetargetLedger(n, t), t)
<1> DEFINE root == RootOf(t)
           r == RetargetLedger(n, t)
           m == [n EXCEPT !.tip = t, !.root = root]
<1>1. /\ n \in Store /\ n.ledger \in LedgerRecord /\ n.ledger.state # "None"
      /\ n.chain = NoChain
      /\ (n.sync # "RootLedgerPending" => n.ledger.state = "SnarkedPending")
      /\ (n.sync = "RootLedgerPending" => n.ledger.staged \in Blocks)
      /\ n.root \in Blocks
  BY DEF Good, Wf, Store, LedgerRecord, LedgerPhases, BlockPhases
<1>2. root \in Blocks /\ Staking[t] \in Ledgers /\ NextEpoch[t] \in Ledgers
  BY ChainOfType, LedgerAssumption
<1>3. ASSUME NEW p \in LedgerPhases, NEW l \in LedgerRecord, NEW ru \in SUBSET Blocks,
             l = n.ledger \/ l.state \in {"SnarkedPending", "PartsFetchPending"},
             l.state # "None",
             p # "RootLedgerPending" => l.state = "SnarkedPending",
             p = "RootLedgerPending" => l.staged \in Blocks
      PROVE  LedgerTarget(n, [n EXCEPT !.tip = t, !.root = root, !.sync = p,
                                       !.root_updates = ru, !.ledger = l], t)
  <2> DEFINE o == [n EXCEPT !.tip = t, !.root = root, !.sync = p,
                            !.root_updates = ru, !.ledger = l]
  <2>1. p \in SyncStates
    BY <1>3 DEF SyncStates
  <2>2. o \in Store
    BY <1>1, <1>2, <1>3, <2>1 DEF Store, LedgerRecord
  <2>3. /\ o.tip = t /\ o.root = root /\ o.sync = p /\ o.ledger = l /\ o.chain = n.chain
        /\ o.best_chain = n.best_chain /\ o.writer = n.writer /\ o.producer = n.producer
    BY <1>1 DEF Store
  <2> HIDE DEF o
  <2> QED
    BY <1>1, <1>3, <2>2, <2>3 DEF LedgerTarget, o
<1> DEFINE next == next_epoch_needed(t, root)
           staking == SnarkedTarget(Staking[t])
           nextEpoch == SnarkedTarget(NextEpoch[t])
           Set(p, ru, l) == [n EXCEPT !.tip = t, !.root = root, !.sync = p,
                                      !.root_updates = ru, !.ledger = l]
<1>set. ASSUME NEW p \in LedgerPhases, NEW l \in LedgerRecord, NEW ru \in SUBSET Blocks,
               l = n.ledger \/ l.state \in {"SnarkedPending", "PartsFetchPending"},
               l.state # "None",
               p # "RootLedgerPending" => l.state = "SnarkedPending",
               p = "RootLedgerPending" => l.staged \in Blocks
        PROVE  LedgerTarget(n, Set(p, ru, l), t)
  BY <1>set, <1>3
<1>4. n.root_updates \in SUBSET Blocks /\ n.sync \in LedgerPhases
  BY <1>1 DEF Store
<1>5. staking \in LedgerRecord /\ staking.state = "SnarkedPending"
      /\ nextEpoch \in LedgerRecord /\ nextEpoch.state = "SnarkedPending"
  BY <1>2, TargetTypes
<1>6. RootTarget(root) \in LedgerRecord /\ RootTarget(root).state = "SnarkedPending"
      /\ RootTarget(root).staged \in Blocks
  BY <1>2, TargetTypes
<1> HIDE DEF root, next, staking, nextEpoch
<1>7. CASE n.sync = "StakingLedgerPending"
  <2> DEFINE l == update_target(n.ledger, staking)
  <2>1. r = [n EXCEPT !.tip = t, !.root = root, !.ledger = l]
    BY <1>1, <1>7 DEF RetargetLedger, root, staking, Store
  <2>2. l \in LedgerRecord /\ l.state = "SnarkedPending"
    BY <1>1, <1>5, <1>7, UpdateTargetType
  <2> HIDE DEF l, r
  <2>3. r = Set(n.sync, n.root_updates, l)
    BY <1>1, <2>1 DEF Store
  <2> HIDE DEF Set
  <2>t. LedgerTarget(n, r, t)
    BY <1>set, <1>4, <1>7, <2>2, <2>3
  <2> QED
    BY <2>t DEF r
<1>8. CASE n.sync # "StakingLedgerPending" /\ Staking[n.tip] # Staking[t]
  <2>1. r = [n EXCEPT !.tip = t, !.root = root, !.sync = "StakingLedgerPending",
                      !.ledger = staking]
    BY <1>1, <1>8 DEF RetargetLedger, root, staking, Store
  <2> HIDE DEF r
  <2>2. r = Set("StakingLedgerPending", n.root_updates, staking)
    BY <1>1, <2>1 DEF Store
  <2>3. "StakingLedgerPending" \in LedgerPhases
    BY DEF LedgerPhases
  <2> HIDE DEF Set
  <2>t. LedgerTarget(n, r, t)
    BY <1>set, <1>4, <1>5, <2>2, <2>3
  <2> QED
    BY <2>t DEF r
<1>9. CASE n.sync = "NextEpochLedgerPending" /\ Staking[n.tip] = Staking[t]
  <2> DEFINE l == IF next THEN update_target(n.ledger, nextEpoch) ELSE n.ledger
  <2>1. r = [n EXCEPT !.tip = t, !.root = root, !.ledger = l]
    BY <1>1, <1>9 DEF RetargetLedger, root, next, nextEpoch, Store
  <2>2. l \in LedgerRecord /\ l.state = "SnarkedPending"
    BY <1>1, <1>5, <1>9, UpdateTargetType
  <2> HIDE DEF l, r
  <2>3. r = Set(n.sync, n.root_updates, l)
    BY <1>1, <2>1 DEF Store
  <2> HIDE DEF Set
  <2>t. LedgerTarget(n, r, t)
    BY <1>set, <1>4, <1>9, <2>2, <2>3
  <2> QED
    BY <2>t DEF r
<1>10. CASE n.sync = "RootLedgerPending" /\ Staking[n.tip] = Staking[t]
  <2> DEFINE keep == /\ n.ledger.state \in {"PartsFetchSuccess", "ReconstructPending"}
                     /\ root # Genesis /\ Pred[root] = n.root
             new == next /\ NextEpoch[n.tip] # NextEpoch[t]
  <2>1. CASE new
    <3>1. r = [n EXCEPT !.tip = t, !.root = root, !.sync = "NextEpochLedgerPending",
                        !.ledger = nextEpoch]
      BY <1>1, <1>10, <2>1 DEF RetargetLedger, root, next, nextEpoch, Store
    <3> HIDE DEF r
    <3>2. r = Set("NextEpochLedgerPending", n.root_updates, nextEpoch)
      BY <1>1, <3>1 DEF Store
    <3>3. "NextEpochLedgerPending" \in LedgerPhases
      BY DEF LedgerPhases
    <3> HIDE DEF Set
    <3>t. LedgerTarget(n, r, t)
      BY <1>set, <1>4, <1>5, <3>2, <3>3
    <3> QED
      BY <3>t DEF r
  <2>2. CASE ~new /\ keep
    <3>1. r = [n EXCEPT !.tip = t, !.root = root,
                        !.root_updates = n.root_updates \cup {n.root}]
      BY <1>1, <1>10, <2>2 DEF RetargetLedger, root, next, Store
    <3> HIDE DEF r
    <3>2. r = Set(n.sync, n.root_updates \cup {n.root}, n.ledger)
      BY <1>1, <3>1 DEF Store
    <3>3. n.root_updates \cup {n.root} \in SUBSET Blocks
      BY <1>1, <1>4
    <3> HIDE DEF Set
    <3>t. LedgerTarget(n, r, t)
      BY <1>1, <1>set, <1>4, <1>10, <3>2, <3>3
    <3> QED
      BY <3>t DEF r
  <2>3. CASE ~new /\ ~keep
    <3> DEFINE l == update_target(n.ledger, RootTarget(root))
    <3>1. r = [n EXCEPT !.tip = t, !.root = root, !.root_updates = {}, !.ledger = l]
      BY <1>1, <1>10, <2>3 DEF RetargetLedger, root, next, Store
    <3>2. /\ l \in LedgerRecord
          /\ l = n.ledger \/ l.state \in {"SnarkedPending", "PartsFetchPending"}
          /\ l.state # "None" /\ l.staged \in Blocks
      BY <1>1, <1>6, <1>10, UpdateTargetType
    <3> HIDE DEF l, r
    <3>3. r = Set(n.sync, {}, l)
      BY <1>1, <3>1 DEF Store
    <3> HIDE DEF Set
    <3>t. LedgerTarget(n, r, t)
      BY <1>set, <1>4, <1>10, <3>2, <3>3
    <3> QED
      BY <3>t DEF r
  <2> QED
    BY <2>1, <2>2, <2>3
<1> QED
  BY <1>7, <1>8, <1>9, <1>10 DEF LedgerPhases

(* A new target whose root has yet to be reconstructed. *)
LEMMA NextRequiredGood ==
    ASSUME NEW n, Good(n), NEW t \in Blocks, NEW old_tip, NEW old_root, NEW cur
    PROVE  LedgerTarget(n, next_required_ledger_to_sync(n, old_tip, old_root, cur, t), t)
<1> DEFINE root == RootOf(t)
           r == next_required_ledger_to_sync(n, old_tip, old_root, cur, t)
           parts == [RootTarget(root) EXCEPT !.state = "PartsFetchPending"]
           Set(p, l) == [n EXCEPT !.tip = t, !.root = root, !.root_updates = {},
                                  !.chain = NoChain, !.attempts = NoQueries,
                                  !.updates = NoUpdates, !.sync = p, !.ledger = l]
<1>1. n \in Store
  BY DEF Good, Wf
<1>2. root \in Blocks /\ Staking[t] \in Ledgers /\ NextEpoch[t] \in Ledgers
  BY ChainOfType, LedgerAssumption
<1>3. /\ SnarkedTarget(Staking[t]) \in LedgerRecord
      /\ SnarkedTarget(Staking[t]).state = "SnarkedPending"
      /\ SnarkedTarget(NextEpoch[t]) \in LedgerRecord
      /\ SnarkedTarget(NextEpoch[t]).state = "SnarkedPending"
      /\ RootTarget(root) \in LedgerRecord /\ RootTarget(root).staged \in Blocks
      /\ RootTarget(root).state = "SnarkedPending"
  BY <1>2, TargetTypes
<1>4. parts \in LedgerRecord /\ parts.state = "PartsFetchPending" /\ parts.staged \in Blocks
  BY <1>3 DEF LedgerRecord, LedgerSyncStates
<1> HIDE DEF root
<1>5. ASSUME NEW p \in LedgerPhases, NEW l \in LedgerRecord,
             l.state \in {"SnarkedPending", "PartsFetchPending"},
             p # "RootLedgerPending" => l.state = "SnarkedPending",
             p = "RootLedgerPending" => l.staged \in Blocks
      PROVE  LedgerTarget(n, Set(p, l), t)
  <2> DEFINE o == Set(p, l)
  <2>1. p \in SyncStates /\ NoChain \in [Blocks -> BlockStates]
        /\ NoQueries \in [Blocks -> [Peers -> RpcStates]]
    BY <1>5 DEF SyncStates, NoChain, NoQueries, BlockStates, RpcStates
  <2>2. o \in Store
    BY <1>1, <1>2, <1>5, <2>1, UpdatesType DEF Store, LedgerRecord
  <2>3. /\ o.tip = t /\ o.root = root /\ o.sync = p /\ o.ledger = l /\ o.chain = NoChain
        /\ o.best_chain = n.best_chain /\ o.writer = n.writer /\ o.producer = n.producer
    BY <1>1 DEF Store
  <2> HIDE DEF o
  <2>4. LedgerTarget(n, o, t)
    BY <1>5, <2>2, <2>3 DEF LedgerTarget, root
  <2> QED
    BY <2>4 DEF o
<1>6. \/ r = Set("StakingLedgerPending", SnarkedTarget(Staking[t]))
      \/ r = Set("NextEpochLedgerPending", SnarkedTarget(NextEpoch[t]))
      \/ r = Set("RootLedgerPending", parts)
      \/ r = Set("RootLedgerPending", RootTarget(root))
  BY <1>1 DEF next_required_ledger_to_sync, root, Store
<1>7. /\ "StakingLedgerPending" \in LedgerPhases
      /\ "NextEpochLedgerPending" \in LedgerPhases
      /\ "RootLedgerPending" \in LedgerPhases
  BY DEF LedgerPhases
<1> HIDE DEF r, Set, parts
<1>8. LedgerTarget(n, r, t)
  BY <1>3, <1>4, <1>5, <1>6, <1>7
<1> QED
  BY <1>8 DEF r

(* What every retarget preserves. *)
Retargeted(n, m) ==
    /\ Good(m)
    /\ m.sync # "BlocksSuccess"
    /\ m.writer = n.writer /\ m.producer = n.producer
    /\ m.ledger.state = "PartsFetchSuccess" => n.ledger.state = "PartsFetchSuccess"

(* Retargets that leave the store in a ledger phase are of this kind. *)
LEMMA LedgerTargetRetargeted ==
    ASSUME NEW n, Good(n), n.sync # "CommitPending", NEW t \in Blocks, NEW m,
           LedgerTarget(n, m, t)
    PROVE  Retargeted(n, m)
<1>1. Good(m)
  BY LedgerTargetGood
<1> QED
  BY <1>1 DEF LedgerTarget, Retargeted, LedgerPhases

(* A retarget to a chain whose blocks are next. *)
LEMMA BlocksTargetGood ==
    ASSUME NEW n, Good(n), n.sync \in {"Synced", "BlocksPending"}, NEW t \in Blocks, NEW m,
           m \in Store, m.sync = "BlocksPending", InChain(m) # {},
           m.best_chain = n.best_chain, m.ledger = n.ledger,
           m.writer = n.writer, m.producer = n.producer,
           \A b \in Blocks : m.chain[b] = "ApplyPending" => n.chain[b] = "ApplyPending"
    PROVE  Retargeted(n, m)
<1>1. n.ledger.state = "None"
  BY DEF Good, Wf, LedgerPhases
<1>2. Wf(m)
  BY <1>1 DEF Good, Wf, BlockPhases, LedgerPhases
<1>3. Matched(m)
  BY <1>1 DEF Good, Matched
<1> QED
  BY <1>1, <1>2, <1>3 DEF Good, Retargeted

(* A better tip while blocks are fetched and applied. *)
LEMMA RetargetBlocksGood ==
    ASSUME NEW n, Good(n), n.sync = "BlocksPending", NEW t \in Blocks
    PROVE  Retargeted(n, RetargetBlocks(n, t))
<1> DEFINE root == RootOf(t)
           applied == n.chain[root] = "ApplySuccess"
           below == {b \in InChain(n) : Height[b] =< Height[root] /\ n.chain[b] # "FetchPending"}
           ch == [b \in Blocks |-> IF b \notin ChainOf(t) THEN "None"
                                   ELSE push_block(n, b, b \in {root, t})]
           at == [b \in Blocks |-> IF ch[b] = "FetchPending" THEN n.attempts[b] ELSE NoQueries[b]]
           up == IF applied THEN extend_with_needed(n.updates, below) ELSE n.updates
           m == [n EXCEPT !.chain = ch, !.attempts = at, !.updates = up]
<1>1. n \in Store
  BY DEF Good, Wf
<1>2. CASE root \in n.best_chain \/ applied
  <2>1. m = RetargetBlocks(n, t)
    BY <1>1, <1>2 DEF RetargetBlocks, Store
  <2>2. up \in Updates
    <3>1. below \in SUBSET Blocks /\ n.updates \in Updates
      BY <1>1 DEF Store, InChain
    <3> QED
      BY <3>1, UpdatesType
  <2>3. ASSUME NEW b \in Blocks
        PROVE  /\ push_block(n, b, b \in {root, t}) \in BlockStates \ {"None"}
               /\ push_block(n, b, b \in {root, t}) = "ApplyPending" =>
                     n.chain[b] = "ApplyPending"
    BY <1>1 DEF push_block, BlockStates, Store
  <2>4. /\ ch \in [Blocks -> BlockStates]
        /\ ch[t] # "None"
        /\ \A b \in Blocks : ch[b] = "ApplyPending" => n.chain[b] = "ApplyPending"
    BY <2>3, ChainOfType DEF BlockStates
  <2> HIDE DEF ch, up
  <2>5. at \in [Blocks -> [Peers -> RpcStates]]
    BY <1>1 DEF Store, NoQueries, RpcStates
  <2> HIDE DEF at
  <2>6. /\ m \in Store /\ m.sync = n.sync /\ m.chain = ch /\ m.best_chain = n.best_chain
        /\ m.ledger = n.ledger /\ m.writer = n.writer /\ m.producer = n.producer
    BY <1>1, <2>2, <2>4, <2>5 DEF Store
  <2> HIDE DEF m
  <2>7. t \in InChain(m)
    BY <2>4, <2>6 DEF InChain
  <2>8. Retargeted(n, m)
    BY <2>4, <2>6, <2>7, BlocksTargetGood
  <2> QED
    BY <2>1, <2>8
<1>3. CASE ~(root \in n.best_chain \/ applied)
  <2>1. LedgerTarget(n, RetargetBlocks(n, t), t)
    BY <1>3, NextRequiredGood DEF RetargetBlocks
  <2> QED
    BY <2>1, LedgerTargetRetargeted
<1> QED
  BY <1>2, <1>3

(* A better tip when in sync. *)
LEMMA RetargetSyncedGood ==
    ASSUME NEW n, Good(n), n.sync = "Synced", NEW t \in Blocks
    PROVE  Retargeted(n, RetargetSynced(n, t))
<1> DEFINE ch == [b \in Blocks |->
                    CASE b \notin ChainOf(t) -> "None"
                      [] b \in ChainOf(t) \cap n.best_chain -> "ApplySuccess"
                      [] b \in ChainOf(t) \ n.best_chain ->
                            IF b = t THEN "FetchSuccess" ELSE "FetchPending"]
           m == [n EXCEPT !.sync = "BlocksPending", !.chain = ch]
<1>1. n \in Store
  BY DEF Good, Wf
<1>2. CASE RootOf(t) \in n.best_chain
  <2>1. m = RetargetSynced(n, t)
    BY <1>2 DEF RetargetSynced
  <2>2. /\ ch \in [Blocks -> BlockStates]
        /\ ch[t] # "None"
        /\ \A b \in Blocks : ch[b] # "ApplyPending"
    BY ChainOfType DEF BlockStates
  <2> HIDE DEF ch
  <2>3. /\ m \in Store /\ m.sync = "BlocksPending" /\ m.chain = ch
        /\ m.best_chain = n.best_chain
        /\ m.ledger = n.ledger /\ m.writer = n.writer /\ m.producer = n.producer
    BY <1>1, <2>2 DEF Store, SyncStates
  <2> HIDE DEF m
  <2>4. t \in InChain(m)
    BY <2>2, <2>3 DEF InChain
  <2>5. Retargeted(n, m)
    BY <2>2, <2>3, <2>4, BlocksTargetGood
  <2> QED
    BY <2>1, <2>5
<1>3. CASE RootOf(t) \notin n.best_chain
  <2>1. LedgerTarget(n, RetargetSynced(n, t), t)
    BY <1>3, NextRequiredGood DEF RetargetSynced
  <2> QED
    BY <2>1, LedgerTargetRetargeted
<1> QED
  BY <1>2, <1>3

(* A better tip never disturbs what waits for the ledger service. *)
LEMMA RetargetGood ==
    ASSUME NEW n, Good(n), n.sync \notin {"BlocksSuccess", "CommitPending"}, NEW t \in Blocks
    PROVE  Retargeted(n, Retarget(n, t))
<1>1. CASE n.sync \in LedgerPhases
  <2>1. Retarget(n, t) = RetargetLedger(n, t)
    BY <1>1 DEF Retarget, LedgerPhases
  <2> QED
    BY <1>1, <2>1, RetargetLedgerGood, LedgerTargetRetargeted
<1>2. CASE n.sync = "BlocksPending"
  <2>1. Retarget(n, t) = RetargetBlocks(n, t)
    BY <1>2 DEF Retarget, LedgerPhases
  <2> QED
    BY <1>2, <2>1, RetargetBlocksGood
<1>3. CASE n.sync = "Synced"
  <2>1. Retarget(n, t) = RetargetSynced(n, t)
    BY <1>3 DEF Retarget, LedgerPhases
  <2> QED
    BY <1>3, <2>1, RetargetSyncedGood
<1>4. n.sync \in SyncStates
  BY DEF Good, Wf, Store
<1> QED
  BY <1>1, <1>2, <1>3, <1>4 DEF SyncStates

-----------------------------------------------------------------------------
(* The ledger service. *)

(* Changing the contents of one ledger, or panicking, gives a service again. *)
LEMMA ServiceUpdates ==
    ASSUME NEW l \in Service, NEW h \in Ledgers, NEW c \in Contents, NEW p \in Panics,
           NEW b \in SUBSET Blocks
    PROVE  /\ [l EXCEPT !.sync_snarked[h] = c] \in Service
           /\ [l EXCEPT !.panic = p] \in Service
           /\ [l EXCEPT !.sync_staged = b] \in Service
<1>1. [l.sync_snarked EXCEPT ![h] = c] \in [Ledgers -> Contents]
  BY DEF Service
<1>2. [l EXCEPT !.sync_snarked[h] = c] =
         [l EXCEPT !.sync_snarked = [l.sync_snarked EXCEPT ![h] = c]]
  BY DEF Service
<1>3. [l EXCEPT !.sync_snarked = [l.sync_snarked EXCEPT ![h] = c]] \in Service
  BY <1>1 DEF Service
<1> QED
  BY <1>2, <1>3 DEF Service

(* A copy is made from one of the origins. *)
LEMMA CopyForSyncType ==
    ASSUME NEW l \in Service, NEW origins \in Seq(Ledgers), origins # <<>>, NEW h \in Ledgers
    PROVE  CopyForSync(l, origins, h) \in Service
<1> DEFINE complete == {i \in DOMAIN origins : l.snarked[origins[i]] # "Absent"}
           first == CHOOSE i \in complete : \A j \in complete : i =< j
           origin == IF complete = {} THEN origins[1] ELSE origins[first]
           c == IF origin = h THEN Content(l, origin) ELSE "Partial"
<1>1. origin \in Ledgers
  <2>1. CASE complete = {}
    BY <2>1
  <2>2. CASE complete # {}
    <3>1. complete \in SUBSET Nat
      OBVIOUS
    <3>2. \E i \in complete : \A j \in complete : i =< j
      BY <2>2, <3>1, LeastNatural
    <3>3. first \in complete
      BY <3>2
    <3> HIDE DEF first
    <3> QED
      BY <2>2, <3>3
  <2> QED
    BY <2>1, <2>2
<1>2. CopyForSync(l, origins, h) =
         IF l.sync_snarked[h] # "Absent" THEN l
         ELSE IF Content(l, origin) = "Absent" THEN [l EXCEPT !.panic = "copy"]
         ELSE [l EXCEPT !.sync_snarked[h] = c]
  BY DEF CopyForSync
<1> HIDE DEF origin
<1>3. c \in Contents /\ "copy" \in Panics
  BY <1>1 DEF Content, Contents, Service, Panics
<1> HIDE DEF c
<1>4. [l EXCEPT !.panic = "copy"] \in Service /\ [l EXCEPT !.sync_snarked[h] = c] \in Service
  <2>1. {} \in SUBSET Blocks
    OBVIOUS
  <2> QED
    BY <1>3, <2>1, ServiceUpdates
<1> QED
  BY <1>2, <1>4

(* Preparing the ledger to be synchronized. *)
LEMMA PrepareType ==
    ASSUME NEW n, Wf(n), NEW l \in Service, NEW previous_root \in Seq(Ledgers)
    PROVE  Prepare(l, n, previous_root) \in Service
<1>1. ASSUME n.sync \in LedgerPhases
      PROVE  /\ n.tip \in Blocks /\ n.root \in Blocks
             /\ Staking[n.tip] \in Ledgers /\ NextEpoch[n.tip] \in Ledgers
             /\ Snarked[n.root] \in Ledgers
  BY <1>1, LedgerAssumption DEF Wf
<1>2. CASE n.sync = "StakingLedgerPending"
  <2>1. Prepare(l, n, previous_root) = CopyForSync(l, <<GenesisLedger>>, Staking[n.tip])
    BY <1>2 DEF Prepare
  <2>2. <<GenesisLedger>> \in Seq(Ledgers) /\ <<GenesisLedger>> # <<>>
    BY LedgerAssumption
  <2>3. n.sync \in LedgerPhases
    BY <1>2 DEF LedgerPhases
  <2> QED
    BY <1>1, <2>1, <2>2, <2>3, CopyForSyncType
<1>3. CASE n.sync = "NextEpochLedgerPending"
  <2>1. Prepare(l, n, previous_root) =
           IF next_epoch_needed(n.tip, n.root)
           THEN CopyForSync(l, <<Staking[n.tip]>>, NextEpoch[n.tip]) ELSE l
    BY <1>3 DEF Prepare
  <2>2. n.sync \in LedgerPhases
    BY <1>3 DEF LedgerPhases
  <2>3. <<Staking[n.tip]>> \in Seq(Ledgers) /\ <<Staking[n.tip]>> # <<>>
    BY <1>1, <2>2
  <2> QED
    BY <1>1, <2>1, <2>2, <2>3, CopyForSyncType
<1>4. CASE n.sync = "RootLedgerPending"
  <2> DEFINE origins == previous_root \o RootOrigins(n)
  <2>1. Prepare(l, n, previous_root) = CopyForSync(l, origins, Snarked[n.root])
    BY <1>4 DEF Prepare
  <2>2. n.sync \in LedgerPhases
    BY <1>4 DEF LedgerPhases
  <2>3. RootOrigins(n) \in Seq(Ledgers) /\ Len(RootOrigins(n)) > 0
    BY <1>1, <2>2 DEF RootOrigins
  <2>4. origins \in Seq(Ledgers) /\ origins # <<>>
    BY <2>3
  <2> HIDE DEF origins
  <2> QED
    BY <1>1, <2>1, <2>2, <2>4, CopyForSyncType
<1>5. CASE n.sync \notin LedgerPhases
  BY <1>5 DEF Prepare, LedgerPhases
<1> QED
  BY <1>2, <1>3, <1>4, <1>5 DEF LedgerPhases

(* What a commit leaves in the service. *)
LEMMA CommitLedgersType ==
    ASSUME NEW l \in Service, NEW blocks \in SUBSET Blocks, NEW updates
    PROVE  CommitLedgers(l, blocks, updates) \in Service
<1> DEFINE pushed == {x \in RecreatePath(updates, Snarked[Lowest(blocks)]) : updates[x] # <<>>}
           sync == [h \in Ledgers |-> IF h \in pushed THEN "Full" ELSE l.sync_snarked[h]]
           main == [h \in Ledgers |-> IF h \notin LedgersToKeep(blocks) THEN "Absent"
                                      ELSE IF sync[h] # "Absent" THEN sync[h]
                                      ELSE l.snarked[h]]
<1>1. sync \in [Ledgers -> Contents]
  BY DEF Service, Contents
<1> HIDE DEF sync
<1>2. main \in [Ledgers -> Contents]
  BY <1>1 DEF Service, Contents
<1>3. l.panic \in Panics /\ "recreate" \in Panics /\ "mask" \in Panics
  BY DEF Service, Panics
<1>4. StagedToKeep(l, blocks) \in SUBSET Blocks
  BY DEF StagedToKeep, Service
<1>5. [h \in Ledgers |-> "Absent"] \in [Ledgers -> Contents]
  BY DEF Contents
<1> HIDE DEF main
<1>6. \E p \in Panics : CommitLedgers(l, blocks, updates) =
         [snarked |-> main, sync_snarked |-> [h \in Ledgers |-> "Absent"],
          staged |-> StagedToKeep(l, blocks), sync_staged |-> {}, panic |-> p]
  BY <1>3 DEF CommitLedgers, main, sync
<1> QED
  BY <1>2, <1>4, <1>5, <1>6 DEF Service

-----------------------------------------------------------------------------
(* The steps. *)

(* Good matches owners and requests, Quiet leaves no work behind. *)
IInv ==
    /\ Good(node)
    /\ Quiet(node)
    /\ node.sync # "BlocksSuccess"
    /\ ledgers \in Service
    /\ rpc \in [Peers -> Blocks \cup {NoBlock}]

(* Nothing the clients of the writer look at has changed. *)
LEMMA SameQuiet ==
    ASSUME NEW n, NEW m, Quiet(n), m.sync = n.sync, m.chain = n.chain, m.ledger = n.ledger,
           m.writer = n.writer, m.producer = n.producer
    PROVE  Quiet(m)
BY DEF Quiet, WriterFree, blocks_apply_next, InChain

(* Without a chain there is nothing to apply. *)
LEMMA NothingToApply ==
    ASSUME NEW n, n.chain = NoChain
    PROVE  blocks_apply_next(n) = {}
BY DEF blocks_apply_next, InChain, NoChain

(* The shape of a request follows from its kind. *)
LEMMA RequestKinds ==
    ASSUME NEW w \in Requests
    PROVE  /\ w.kind = "BlockApply" => w.block \in Blocks /\ w = BlockApply(w.block)
           /\ w.kind = "StagedLedgerReconstruct" =>
                 w.block \in Blocks /\ w = Reconstruct(w.block)
           /\ w.kind = "StagedLedgerDiffCreate" => w.block \in Blocks /\ w = DiffCreate(w.block)
           /\ w.kind = "Commit" => w.blocks \in SUBSET Blocks
BY DEF Requests, Idle, BlockApply, Reconstruct, DiffCreate

(* Initially the node is in sync and the writer idle. *)
LEMMA InitIInv == Init => IInv
<1> SUFFICES ASSUME Init PROVE IInv
  OBVIOUS
<1>1. /\ NoLedgerSync \in LedgerRecord /\ NoLedgerSync.state = "None"
      /\ NoChain \in [Blocks -> BlockStates]
      /\ NoQueries \in [Blocks -> [Peers -> RpcStates]]
  BY LedgerAssumption DEF NoLedgerSync, LedgerRecord, LedgerSyncStates, NoChain, NoQueries,
     BlockStates, RpcStates
<1>2. {Genesis} \in SUBSET Blocks /\ "Synced" \in SyncStates
  BY TreeAssumption DEF SyncStates
<1>3. [state |-> "Idle", pred |-> NoBlock] \in [state : ProducerStates, pred : Blocks \cup {NoBlock}]
  BY DEF ProducerStates
<1>4. node \in Store
  BY <1>1, <1>2, <1>3, UpdatesType, RequestTypes DEF Init, Store, LedgerRecord
<1>5. /\ node.best_chain # {} /\ node.sync = "Synced" /\ node.chain = NoChain
      /\ node.ledger.state = "None" /\ node.writer = Idle /\ node.producer.state = "Idle"
  BY <1>1 DEF Init
<1>6. Wf(node)
  BY <1>4, <1>5 DEF Wf, BlockPhases, LedgerPhases
<1>7. Good(node)
  BY <1>5, <1>6, IdleMatched DEF NoChain
<1>8. Quiet(node)
  BY <1>5, NothingToApply DEF Quiet
<1>9. ledgers \in Service
  <2>1. /\ [l \in Ledgers |-> IF l = GenesisLedger THEN "Full" ELSE "Absent"] \in [Ledgers -> Contents]
        /\ [l \in Ledgers |-> "Absent"] \in [Ledgers -> Contents]
        /\ "none" \in Panics
    BY DEF Contents, Panics
  <2> QED
    BY <1>2, <2>1 DEF Init, Service
<1>10. rpc \in [Peers -> Blocks \cup {NoBlock}]
  BY DEF Init
<1> QED
  BY <1>5, <1>7, <1>8, <1>9, <1>10 DEF IInv

(* A better tip: the writer is offered to the new chain only if it is free. *)
LEMMA BestTipUpdateIInv ==
    ASSUME IInv, NEW t \in Tips, BestTipUpdate(t)
    PROVE  IInv'
<1> DEFINE n == Retarget(node, t)
<1>1. t \in Blocks /\ node.sync \notin {"BlocksSuccess", "CommitPending"}
  BY LedgerAssumption DEF IInv, BestTipUpdate, BestTipUpdateEnabled
<1>2. Retargeted(node, n)
  BY <1>1, RetargetGood DEF IInv
<1>3. PICK q \in Queries(n, rpc) : /\ node' = BlocksNextApplyInit(QueryPending(n, q))
                                   /\ rpc' = SendRequests(rpc, q)
  BY DEF BestTipUpdate
<1>4. ledgers' = Prepare(ledgers, n, <<Snarked[best_root(node)]>>)
  BY DEF BestTipUpdate
<1> HIDE DEF n
<1>5. DOMAIN q \in SUBSET Blocks /\ \A b \in DOMAIN q : q[b] \in Peers
  BY QueriesType
<1> DEFINE m == QueryPending(n, q)
<1>6. Good(m) /\ m.sync = n.sync /\ m.chain = n.chain /\ m.ledger = n.ledger
      /\ m.writer = n.writer /\ m.producer = n.producer
  BY <1>2, <1>5, QueryPendingGood DEF Retargeted
<1> HIDE DEF m
<1>7. /\ Good(node') /\ node'.sync = m.sync
      /\ WriterFree(node') => node' = m /\ blocks_apply_next(m) = {}
  BY <1>3, <1>6, NextApplyInitGood DEF m
<1>8. Quiet(node')
  BY <1>2, <1>6, <1>7 DEF IInv, Quiet, WriterFree, Retargeted
<1>9. ledgers' \in Service
  <2>1. best_root(node) \in Blocks
    BY LowestIn DEF best_root, IInv, Good, Wf, Store
  <2>2. <<Snarked[best_root(node)]>> \in Seq(Ledgers)
    BY <2>1, LedgerAssumption
  <2> QED
    BY <1>2, <1>4, <2>2, PrepareType DEF IInv, Retargeted, Good
<1>10. rpc' \in [Peers -> Blocks \cup {NoBlock}]
  BY <1>3, <1>5, SendRequestsType DEF IInv
<1> QED
  BY <1>2, <1>6, <1>7, <1>8, <1>9, <1>10 DEF IInv, Quiet, Retargeted

(* A step from one ledger to the next, or within the synchronization of one. *)
PhaseStep(n, p, ru, l) == [n EXCEPT !.sync = p, !.root_updates = ru, !.ledger = l]

(* Such a step keeps the store good if nobody waits for the writer after it. *)
LEMMA PhaseStepGood ==
    ASSUME NEW n, Good(n), n.sync \in LedgerPhases,
           NEW p \in LedgerPhases, NEW ru \in SUBSET Blocks, NEW l \in LedgerRecord,
           l.state \notin {"None", "ReconstructPending"},
           p # "RootLedgerPending" => l.state = "SnarkedPending",
           p = "RootLedgerPending" => l.staged \in Blocks
    PROVE  LET m == PhaseStep(n, p, ru, l)
           IN  /\ Good(m) /\ m.sync = p /\ m.ledger = l /\ m.chain = NoChain
               /\ m.writer = n.writer /\ m.producer = n.producer
<1> DEFINE m == PhaseStep(n, p, ru, l)
<1>1. n \in Store /\ n.chain = NoChain /\ n.tip \in Blocks /\ n.root \in Blocks
      /\ p \in SyncStates
  BY DEF Good, Wf, BlockPhases, LedgerPhases, SyncStates
<1>2. /\ m \in Store /\ m.sync = p /\ m.ledger = l /\ m.chain = NoChain
      /\ m.writer = n.writer /\ m.producer = n.producer /\ m.best_chain = n.best_chain
      /\ m.tip = n.tip /\ m.root = n.root
  <2>1. m \in Store
    BY <1>1 DEF PhaseStep, Store, LedgerRecord
  <2> QED
    BY <1>1, <2>1 DEF PhaseStep, Store
<1> HIDE DEF m
<1>3. Wf(m)
  BY <1>1, <1>2 DEF Good, Wf, BlockPhases, LedgerPhases
<1>4. Matched(m)
  BY <1>2 DEF Good, Matched, LedgerPhases, NoChain
<1>5. Good(m)
  BY <1>3, <1>4 DEF Good
<1> QED
  BY <1>2, <1>5 DEF m

(* Starting the reconstruction of the root's staged ledger. *)
LEMMA PartsFetchedGood ==
    ASSUME NEW n, Good(n), Quiet(n), n.sync = "RootLedgerPending",
           n.ledger.state \in {"SnarkedPending", "PartsFetchPending"},
           NEW s \in {"PartsFetchPending", "PartsFetchSuccess"}
    PROVE  LET m == [n EXCEPT !.ledger.state = s]
           IN  /\ Good(m) /\ m.sync = n.sync
               /\ s = "PartsFetchPending" => Quiet(m)
               /\ Good(ReconstructInit(m)) /\ Quiet(ReconstructInit(m))
               /\ ReconstructInit(m).sync = n.sync
<1> DEFINE l == [n.ledger EXCEPT !.state = s]
           m == [n EXCEPT !.ledger.state = s]
           o == PhaseStep(n, "RootLedgerPending", n.root_updates, l)
<1>1. n \in Store /\ n.ledger.staged \in Blocks /\ n.root_updates \in SUBSET Blocks
      /\ n.ledger \in LedgerRecord
  BY DEF Good, Wf, Store, LedgerRecord
<1>2. l \in LedgerRecord /\ l.state = s /\ l.staged \in Blocks
  BY <1>1 DEF LedgerRecord, LedgerSyncStates
<1>3. m = o
  BY <1>1 DEF PhaseStep, Store
<1>4. "RootLedgerPending" \in LedgerPhases
  BY DEF LedgerPhases
<1> HIDE DEF l
<1>5. Good(o) /\ o.sync = n.sync /\ o.ledger = l /\ o.chain = NoChain
      /\ o.writer = n.writer /\ o.producer = n.producer
  BY <1>1, <1>2, <1>4, PhaseStepGood
<1> HIDE DEF m, o
<1>6. blocks_apply_next(o) = {}
  BY <1>5, NothingToApply
<1>7. s = "PartsFetchPending" => Quiet(o)
  BY <1>2, <1>5, <1>6 DEF Quiet, WriterFree
<1>8. LET r == ReconstructInit(o)
      IN  /\ Good(r) /\ r.sync = n.sync
          /\ WriterFree(r) => r = o /\ o.ledger.state # "PartsFetchSuccess"
  BY <1>5, ReconstructInitGood
<1>9. Quiet(ReconstructInit(o))
  BY <1>5, <1>6, <1>8 DEF Quiet, WriterFree
<1> QED
  BY <1>3, <1>5, <1>7, <1>8, <1>9 DEF m

(* The parts of the staged ledger have arrived. *)
LEMMA StagedLedgerPartsFetchedIInv ==
    ASSUME IInv, StagedLedgerPartsFetched
    PROVE  IInv'
<1>1. node.sync = "RootLedgerPending"
  BY DEF IInv, Good, Wf, StagedLedgerPartsFetched, LedgerPhases
<1>2. Good(node') /\ Quiet(node') /\ node'.sync = node.sync
  BY <1>1, PartsFetchedGood DEF IInv, StagedLedgerPartsFetched
<1> QED
  BY <1>2 DEF IInv, StagedLedgerPartsFetched

(* A snarked ledger is complete: the next one, or the staged ledger, follows. *)
LEMMA SnarkedLedgerSyncedIInv ==
    ASSUME IInv, SnarkedLedgerSynced
    PROVE  IInv'
<1> DEFINE l == [ledgers EXCEPT !.sync_snarked[node.ledger.snarked] = "Full"]
           needed == next_epoch_needed(node.tip, node.root)
           Step(phase, target) == PhaseStep(node, phase, {}, target)
<1>1. /\ node \in Store /\ node.sync \in LedgerPhases /\ node.ledger.state = "SnarkedPending"
      /\ node.tip \in Blocks /\ node.root \in Blocks /\ rpc' = rpc
  BY DEF IInv, Good, Wf, SnarkedLedgerSynced
<1>2. l \in Service
  <2>1. node.ledger.snarked \in Ledgers
    BY <1>1 DEF Store
  <2>2. "Full" \in Contents /\ "none" \in Panics /\ {} \in SUBSET Blocks
    BY DEF Contents, Panics
  <2> QED
    BY <2>1, <2>2, ServiceUpdates DEF IInv
<1>3. ASSUME NEW p \in {"NextEpochLedgerPending", "RootLedgerPending"}, NEW target \in LedgerRecord,
             target.state = "SnarkedPending",
             p = "RootLedgerPending" => target.staged \in Blocks
      PROVE  Good(Step(p, target)) /\ Quiet(Step(p, target)) /\ Step(p, target).sync = p
  <2> DEFINE m == Step(p, target)
  <2>1. p \in LedgerPhases /\ {} \in SUBSET Blocks /\ Good(node)
    BY <1>3 DEF LedgerPhases, IInv
  <2>2. Good(m) /\ m.sync = p /\ m.ledger = target /\ m.chain = NoChain
        /\ m.writer = node.writer /\ m.producer = node.producer
    BY <1>1, <1>3, <2>1, PhaseStepGood
  <2> HIDE DEF m
  <2>3. Quiet(m)
    BY <1>3, <2>2, NothingToApply DEF Quiet, IInv, WriterFree
  <2> QED
    BY <2>2, <2>3 DEF m
<1> DEFINE nextEpoch == SnarkedTarget(NextEpoch[node.tip])
           root == RootTarget(node.root)
<1>4. /\ nextEpoch \in LedgerRecord /\ nextEpoch.state = "SnarkedPending"
      /\ root \in LedgerRecord /\ root.state = "SnarkedPending" /\ root.staged \in Blocks
  BY <1>1, TargetTypes, LedgerAssumption
<1>5. <<>> \in Seq(Ledgers)
  OBVIOUS
<1>6. ASSUME NEW p \in {"NextEpochLedgerPending", "RootLedgerPending"}, NEW target \in LedgerRecord,
             target.state = "SnarkedPending", node.sync # p,
             p = "RootLedgerPending" => target.staged \in Blocks,
             node' = Step(p, target),
             ledgers' = IF node'.sync = node.sync THEN l ELSE Prepare(l, node', <<>>)
      PROVE  IInv'
  <2>1. Good(node') /\ Quiet(node') /\ node'.sync = p
    BY <1>3, <1>6
  <2>2. ledgers' = Prepare(l, node', <<>>)
    BY <1>6, <2>1
  <2> HIDE DEF l, Step
  <2>3. ledgers' \in Service
    BY <1>2, <1>5, <2>1, <2>2, PrepareType DEF Good
  <2> QED
    BY <1>1, <2>1, <2>3 DEF IInv
<1> HIDE DEF nextEpoch, root
<1>7. CASE node.sync = "StakingLedgerPending" /\ needed
  <2>1. /\ node' = Step("NextEpochLedgerPending", nextEpoch)
        /\ ledgers' = IF node'.sync = node.sync THEN l ELSE Prepare(l, node', <<>>)
    BY <1>7 DEF SnarkedLedgerSynced, PhaseStep, nextEpoch
  <2> HIDE DEF Step, l
  <2> QED
    BY <1>4, <1>6, <1>7, <2>1
<1>8. CASE \/ node.sync = "NextEpochLedgerPending"
           \/ node.sync = "StakingLedgerPending" /\ ~needed
  <2>1. /\ node' = Step("RootLedgerPending", root)
        /\ ledgers' = IF node'.sync = node.sync THEN l ELSE Prepare(l, node', <<>>)
    BY <1>8 DEF SnarkedLedgerSynced, PhaseStep, root
  <2> HIDE DEF Step, l
  <2> QED
    BY <1>4, <1>6, <1>8, <2>1
<1>9. CASE node.sync = "RootLedgerPending"
  <2>1. /\ node' = IF node.ledger.staged = Genesis
                   THEN ReconstructInit([node EXCEPT !.ledger.state = "PartsFetchSuccess"])
                   ELSE [node EXCEPT !.ledger.state = "PartsFetchPending"]
        /\ ledgers' = IF node'.sync = node.sync THEN l ELSE Prepare(l, node', <<>>)
    BY <1>9 DEF SnarkedLedgerSynced
  <2>2. Good(node') /\ Quiet(node') /\ node'.sync = node.sync
    BY <1>1, <1>9, <2>1, PartsFetchedGood DEF IInv
  <2> QED
    BY <1>1, <1>2, <1>9, <2>1, <2>2 DEF IInv
<1> QED
  BY <1>1, <1>7, <1>8, <1>9 DEF LedgerPhases

(* A block has arrived. *)
LEMMA FetchSuccessGood ==
    ASSUME NEW n, Good(n), NEW p \in Peers, NEW b \in Blocks
    PROVE  LET m == BlocksFetchSuccess(n, p, b)
           IN  /\ Good(m)
               /\ m.sync = n.sync /\ m.ledger = n.ledger
               /\ m.writer = n.writer /\ m.producer = n.producer
<1>1. CASE n.chain[b] = "FetchPending" /\ n.attempts[b][p] = "Pending"
  <2> DEFINE ch == [n.chain EXCEPT ![b] = "FetchSuccess"]
             at == [n.attempts EXCEPT ![b] = NoQueries[b]]
             m == [n EXCEPT !.chain = ch, !.attempts = at]
  <2>1. n \in Store
    BY DEF Good, Wf
  <2>2. BlocksFetchSuccess(n, p, b) = m
    BY <1>1, <2>1 DEF BlocksFetchSuccess, Store
  <2>3. /\ ch \in [Blocks -> BlockStates]
        /\ ch[b] = "FetchSuccess" /\ \A c \in Blocks \ {b} : ch[c] = n.chain[c]
    BY <2>1 DEF Store, BlockStates
  <2>4. at \in [Blocks -> [Peers -> RpcStates]]
    BY <2>1 DEF Store, NoQueries, RpcStates
  <2> HIDE DEF ch, at
  <2>5. /\ m \in Store /\ m.chain = ch /\ m.sync = n.sync /\ m.ledger = n.ledger
        /\ m.writer = n.writer /\ m.producer = n.producer /\ m.best_chain = n.best_chain
        /\ m.tip = n.tip /\ m.root = n.root
    BY <2>1, <2>3, <2>4 DEF Store
  <2> HIDE DEF m
  <2>6. InChain(m) = InChain(n) /\ n.chain # NoChain
    BY <1>1, <2>3, <2>5 DEF InChain, NoChain
  <2>7. Wf(m)
    BY <2>5, <2>6 DEF Good, Wf
  <2>8. Matched(m)
    BY <2>3, <2>5, <2>6 DEF Good, Matched
  <2> QED
    BY <2>2, <2>5, <2>7, <2>8 DEF Good
<1>2. CASE ~(n.chain[b] = "FetchPending" /\ n.attempts[b][p] = "Pending")
  BY <1>2 DEF BlocksFetchSuccess
<1> QED
  BY <1>1, <1>2

(* A peer answers with a block, asked for or no longer wanted. *)
LEMMA BlockRpcSuccessIInv ==
    ASSUME IInv, NEW p \in Peers, BlockRpcSuccess(p)
    PROVE  IInv'
<1> DEFINE b == rpc[p]
           n == BlocksFetchSuccess(node, p, b)
           r == [rpc EXCEPT ![p] = NoBlock]
<1>1. b \in Blocks /\ r \in [Peers -> Blocks \cup {NoBlock}] /\ ledgers' = ledgers
  BY DEF IInv, BlockRpcSuccess
<1>2. PICK q \in Queries(n, r) :
         /\ node' = IF n # node THEN BlocksNextApplyInit(QueryPending(n, q))
                    ELSE QueryPending(n, q)
         /\ rpc' = SendRequests(r, q)
  BY DEF BlockRpcSuccess
<1>3. Good(n) /\ n.sync = node.sync /\ n.ledger = node.ledger /\ n.writer = node.writer
      /\ n.producer = node.producer
  BY <1>1, FetchSuccessGood DEF IInv
<1> HIDE DEF n, r, b
<1>4. DOMAIN q \in SUBSET Blocks /\ \A c \in DOMAIN q : q[c] \in Peers
  BY QueriesType
<1> DEFINE m == QueryPending(n, q)
<1>5. Good(m) /\ m.sync = n.sync /\ m.chain = n.chain /\ m.ledger = n.ledger
      /\ m.writer = n.writer /\ m.producer = n.producer
  BY <1>3, <1>4, QueryPendingGood
<1> HIDE DEF m
<1>6. CASE n = node
  <2>1. node' = m
    BY <1>2, <1>6 DEF m
  <2>2. Quiet(m)
    BY <1>5, <1>6, SameQuiet DEF IInv
  <2> QED
    BY <1>1, <1>2, <1>4, <1>5, <1>6, <2>1, <2>2, SendRequestsType DEF IInv
<1>7. CASE n # node
  <2>1. /\ Good(node') /\ node'.sync = m.sync
        /\ WriterFree(node') => node' = m /\ blocks_apply_next(m) = {}
    BY <1>2, <1>5, <1>7, NextApplyInitGood DEF m
  <2>2. Quiet(node')
    BY <1>3, <1>5, <2>1 DEF IInv, Quiet, WriterFree
  <2> QED
    BY <1>1, <1>2, <1>3, <1>4, <1>5, <2>1, <2>2, SendRequestsType DEF IInv
<1> QED
  BY <1>6, <1>7

(* A peer has not answered, or with an error. *)
LEMMA QueryErrorGood ==
    ASSUME NEW n, Good(n), NEW p \in Peers, NEW b \in Blocks
    PROVE  LET m == BlocksPeerQueryError(n, p, b)
           IN  /\ Good(m)
               /\ m.sync = n.sync /\ m.chain = n.chain /\ m.ledger = n.ledger
               /\ m.writer = n.writer /\ m.producer = n.producer
<1>1. CASE n.attempts[b][p] = "Pending"
  <2> DEFINE pending == {c \in Blocks : n.attempts[c][p] = "Pending"}
             low == Lowest(pending)
             at == [n.attempts EXCEPT ![low] = [n.attempts[low] EXCEPT ![p] = "Error"]]
             m == [n EXCEPT !.attempts = at]
  <2>1. n \in Store /\ n.attempts \in [Blocks -> [Peers -> RpcStates]]
    BY DEF Good, Wf, Store
  <2>2. low \in Blocks
    BY <1>1, LowestIn
  <2>3. BlocksPeerQueryError(n, p, b) = [n EXCEPT !.attempts[low][p] = "Error"]
    BY <1>1 DEF BlocksPeerQueryError
  <2> HIDE DEF low
  <2>4. at \in [Blocks -> [Peers -> RpcStates]]
    BY <2>1, <2>2 DEF RpcStates
  <2>5. [n EXCEPT !.attempts[low][p] = "Error"] = m
    BY <2>1, <2>2 DEF Store
  <2> HIDE DEF at
  <2> QED
    BY <2>3, <2>4, <2>5, AttemptsGood
<1>2. CASE n.attempts[b][p] # "Pending"
  BY <1>2 DEF BlocksPeerQueryError
<1> QED
  BY <1>1, <1>2

(* A peer fails to answer. *)
LEMMA BlockRpcErrorIInv ==
    ASSUME IInv, NEW p \in Peers, BlockRpcError(p)
    PROVE  IInv'
<1> DEFINE b == rpc[p]
           n == BlocksPeerQueryError(node, p, b)
           r == [rpc EXCEPT ![p] = NoBlock]
<1>1. b \in Blocks /\ r \in [Peers -> Blocks \cup {NoBlock}] /\ ledgers' = ledgers
  BY DEF IInv, BlockRpcError
<1>2. PICK q \in Queries(n, r) : node' = QueryPending(n, q) /\ rpc' = SendRequests(r, q)
  BY DEF BlockRpcError
<1>3. Good(n) /\ n.sync = node.sync /\ n.chain = node.chain /\ n.ledger = node.ledger
      /\ n.writer = node.writer /\ n.producer = node.producer
  BY <1>1, QueryErrorGood DEF IInv
<1> HIDE DEF n, r, b
<1>4. DOMAIN q \in SUBSET Blocks /\ \A c \in DOMAIN q : q[c] \in Peers
  BY QueriesType
<1>5. Good(node') /\ node'.sync = n.sync /\ node'.chain = n.chain /\ node'.ledger = n.ledger
      /\ node'.writer = n.writer /\ node'.producer = n.producer
  BY <1>2, <1>3, <1>4, QueryPendingGood
<1>6. Quiet(node')
  BY <1>3, <1>5, SameQuiet DEF IInv
<1> QED
  BY <1>1, <1>2, <1>3, <1>4, <1>5, <1>6, SendRequestsType DEF IInv

(* A peer answers with something else than the block. *)
LEMMA BlockRpcUnusableIInv ==
    ASSUME IInv, NEW p \in Peers, BlockRpcUnusable(p)
    PROVE  IInv'
<1> DEFINE r == [rpc EXCEPT ![p] = NoBlock]
<1>1. r \in [Peers -> Blocks \cup {NoBlock}] /\ ledgers' = ledgers
  BY DEF IInv, BlockRpcUnusable
<1>2. PICK q \in Queries(node, r) : node' = QueryPending(node, q) /\ rpc' = SendRequests(r, q)
  BY DEF BlockRpcUnusable
<1> HIDE DEF r
<1>3. DOMAIN q \in SUBSET Blocks /\ \A c \in DOMAIN q : q[c] \in Peers
  BY QueriesType
<1>4. Good(node') /\ node'.sync = node.sync /\ node'.chain = node.chain
      /\ node'.ledger = node.ledger /\ node'.writer = node.writer
      /\ node'.producer = node.producer
  BY <1>2, <1>3, QueryPendingGood DEF IInv
<1>5. Quiet(node')
  BY <1>4, SameQuiet DEF IInv
<1> QED
  BY <1>1, <1>2, <1>3, <1>4, <1>5, SendRequestsType DEF IInv

(* A disconnection touches the attempts only. *)
LEMMA DisconnectedGood ==
    ASSUME NEW n, Good(n), NEW p \in Peers
    PROVE  LET m == QueriesDisconnected(n, p)
           IN  /\ Good(m)
               /\ m.sync = n.sync /\ m.chain = n.chain /\ m.ledger = n.ledger
               /\ m.writer = n.writer /\ m.producer = n.producer
<1> DEFINE at == [b \in Blocks |-> IF n.attempts[b][p] = "Pending"
                                   THEN [n.attempts[b] EXCEPT ![p] = "Error"]
                                   ELSE n.attempts[b]]
<1>1. n \in Store /\ n.attempts \in [Blocks -> [Peers -> RpcStates]]
  BY DEF Good, Wf, Store
<1>2. QueriesDisconnected(n, p) = [n EXCEPT !.attempts = at]
  BY <1>1 DEF QueriesDisconnected, Store
<1>3. at \in [Blocks -> [Peers -> RpcStates]]
  BY <1>1 DEF RpcStates
<1> HIDE DEF at
<1> QED
  BY <1>2, <1>3, AttemptsGood

(* A peer is disconnected. *)
LEMMA PeerDisconnectedIInv ==
    ASSUME IInv, NEW p \in Peers, PeerDisconnected(p)
    PROVE  IInv'
<1> DEFINE n == QueriesDisconnected(node, p)
           r == [rpc EXCEPT ![p] = NoBlock]
<1>1. r \in [Peers -> Blocks \cup {NoBlock}] /\ ledgers' = ledgers
  BY DEF IInv, PeerDisconnected
<1>2. PICK q \in UNION {RequestsFor(B, r) : B \in SUBSET Missing(n)} :
         node' = QueryPending(n, q) /\ rpc' = SendRequests(r, q)
  BY DEF PeerDisconnected
<1>3. Good(n) /\ n.sync = node.sync /\ n.chain = node.chain /\ n.ledger = node.ledger
      /\ n.writer = node.writer /\ n.producer = node.producer
  BY DisconnectedGood DEF IInv
<1> HIDE DEF n, r
<1>4. DOMAIN q \in SUBSET Blocks /\ \A c \in DOMAIN q : q[c] \in Peers
  BY DEF RequestsFor, Missing
<1>5. Good(node') /\ node'.sync = n.sync /\ node'.chain = n.chain /\ node'.ledger = n.ledger
      /\ node'.writer = n.writer /\ node'.producer = n.producer
  BY <1>2, <1>3, <1>4, QueryPendingGood
<1>6. Quiet(node')
  BY <1>3, <1>5, SameQuiet DEF IInv
<1> QED
  BY <1>1, <1>2, <1>3, <1>4, <1>5, <1>6, SendRequestsType DEF IInv

(* A peer can be asked for blocks. *)
LEMMA PeerReadyIInv ==
    ASSUME IInv, PeerReady
    PROVE  IInv'
<1>1. PICK q \in Queries(node, rpc) : /\ node' = QueryPending(node, q)
                                      /\ rpc' = SendRequests(rpc, q)
  BY DEF PeerReady
<1>2. DOMAIN q \in SUBSET Blocks /\ \A c \in DOMAIN q : q[c] \in Peers
  BY QueriesType
<1>3. Good(node') /\ node'.sync = node.sync /\ node'.chain = node.chain
      /\ node'.ledger = node.ledger /\ node'.writer = node.writer
      /\ node'.producer = node.producer
  BY <1>1, <1>2, QueryPendingGood DEF IInv
<1>4. Quiet(node')
  BY <1>3, SameQuiet DEF IInv
<1> QED
  BY <1>1, <1>2, <1>3, <1>4, SendRequestsType DEF IInv, PeerReady

(* The producer takes the writer, or waits for it. *)
LEMMA WonSlotProduceInitIInv ==
    ASSUME IInv, WonSlotProduceInit
    PROVE  IInv'
<1>1. PICK b \in Blocks :
         node' = StagedLedgerDiffCreateInit(
                   [node EXCEPT !.producer = [state |-> "WonSlotTransactionsSuccess", pred |-> b]])
  <2>1. best_tip(node) \in Blocks
    BY HighestIn DEF best_tip, IInv, Good, Wf, Store
  <2>2. node.best_chain \in SUBSET Blocks
    BY DEF IInv, Good, Wf, Store
  <2> QED
    BY <2>1, <2>2 DEF WonSlotProduceInit
<1> DEFINE pr == [state |-> "WonSlotTransactionsSuccess", pred |-> b]
           m == [node EXCEPT !.producer = pr]
<1>2. node \in Store /\ Wf(node) /\ Matched(node)
  BY DEF IInv, Good, Wf
<1>3. pr \in [state : ProducerStates, pred : Blocks \cup {NoBlock}] /\ pr.pred \in Blocks
      /\ pr.state = "WonSlotTransactionsSuccess"
  BY DEF ProducerStates
<1> HIDE DEF pr
<1>4. /\ m \in Store /\ m.producer = pr /\ m.sync = node.sync /\ m.chain = node.chain
      /\ m.ledger = node.ledger /\ m.writer = node.writer /\ m.best_chain = node.best_chain
      /\ m.tip = node.tip /\ m.root = node.root
  BY <1>2, <1>3 DEF Store
<1>5. node' = StagedLedgerDiffCreateInit(m)
  BY <1>1 DEF pr
<1> HIDE DEF m
<1>6. InChain(m) = InChain(node)
  BY <1>4 DEF InChain
<1>7. Good(m)
  BY <1>2, <1>3, <1>4, <1>6 DEF Good, Wf, Matched
<1>8. /\ Good(node') /\ node'.sync = m.sync
      /\ WriterFree(node') => node' = m /\ m.producer.state # "WonSlotTransactionsSuccess"
  BY <1>5, <1>7, DiffCreateInitGood
<1>9. Quiet(node')
  BY <1>3, <1>4, <1>8 DEF Quiet
<1> QED
  BY <1>4, <1>8, <1>9 DEF IInv, WonSlotProduceInit

(* An answer nobody waits for leaves a good store behind. *)
LEMMA AnsweredGood ==
    ASSUME NEW n, Good(n), n.ledger.state # "ReconstructPending",
           n.writer.kind \notin {"BlockApply", "Commit"}
    PROVE  Good(Answered(n)) /\ Answered(n).sync = n.sync /\ Answered(n) \in Store
           /\ Answered(n).writer = Idle /\ Answered(n).chain = n.chain
           /\ Answered(n).ledger = n.ledger
<1> DEFINE a == Answered(n)
<1>1. n \in Store /\ Wf(n) /\ Matched(n)
  BY DEF Good, Wf
<1>2. a.sync = n.sync /\ a.chain = n.chain /\ a.ledger = n.ledger
  BY <1>1, AnsweredWf DEF Store
<1>3. Wf(a) /\ a.writer = Idle
  BY <1>1, AnsweredWf
<1> HIDE DEF a
<1>4. (\A b \in Blocks : a.chain[b] # "ApplyPending") /\ a.sync # "CommitPending"
  <2>1. \A b \in Blocks : n.writer # BlockApply(b)
    BY DEF BlockApply
  <2> QED
    BY <1>1, <1>2, <2>1 DEF Matched
<1>5. Good(a)
  BY <1>2, <1>3, <1>4, IdleMatched
<1> QED
  BY <1>2, <1>3, <1>5 DEF a, Wf

(* A block was applied or refused, for the chain that asked or after a retarget. *)
LEMMA BlockApplyDoneIInv ==
    ASSUME IInv, BlockApplyDone
    PROVE  IInv'
<1> DEFINE b == node.writer.block
<1>1. b \in Blocks /\ node.writer = BlockApply(b)
  BY RequestKinds DEF IInv, Good, Wf, Store, BlockApplyDone
<1>2. Good(node) /\ node.sync # "BlocksSuccess" /\ ledgers \in Service
  BY DEF IInv
<1> HIDE DEF b
<1>3. Good(node') /\ Quiet(node') /\ node'.sync # "BlocksSuccess"
  BY <1>1, <1>2, BlockAppliedGood, AfterWriteGood DEF BlockApplyDone, b
<1>4. ledgers' \in Service
  <2>1. ledgers.sync_staged \cup {b} \in SUBSET Blocks
    BY <1>1, <1>2 DEF Service
  <2>2. [ledgers EXCEPT !.sync_staged = ledgers.sync_staged \cup {b}] \in Service
    BY <1>2, <2>1 DEF Service
  <2> QED
    BY <1>2, <2>2 DEF BlockApplyDone, b
<1> QED
  BY <1>3, <1>4 DEF IInv, BlockApplyDone

(* A commit is answered: no retarget happened since, so it is the frontier now. *)
LEMMA CommitDoneIInv ==
    ASSUME IInv, CommitDone
    PROVE  IInv'
<1>1. Good(node) /\ node.sync = "CommitPending" /\ node.writer.blocks = InChain(node)
      /\ ledgers \in Service
  BY DEF IInv, Good, Matched, CommitDone
<1>2. PICK discard \in BOOLEAN : node' = AfterWrite(Synced(Answered(node), discard))
  BY <1>1 DEF CommitDone
<1>3. Good(node') /\ Quiet(node') /\ node'.sync # "BlocksSuccess"
  BY <1>1, <1>2, SyncedGood, AfterWriteGood
<1>4. ledgers' \in Service
  <2>1. node.writer.blocks \in SUBSET Blocks
    BY <1>1 DEF InChain
  <2> QED
    BY <1>1, <2>1, CommitLedgersType DEF CommitDone
<1> QED
  BY <1>3, <1>4 DEF IInv, CommitDone

(* A root was reconstructed, the one that is waited for or an older one. *)
LEMMA ReconstructDoneIInv ==
    ASSUME IInv, ReconstructDone
    PROVE  IInv'
<1> DEFINE b == node.writer.block
           ok == ledgers.sync_snarked[Snarked[b]] = "Full"
           current == node.ledger.state = "ReconstructPending" /\ node.ledger.staged = b
           a == Answered(node)
           n == IF current THEN BlocksPending(a) ELSE a
<1>1. Good(node) /\ node.sync # "BlocksSuccess" /\ ledgers \in Service /\ node \in Store
  BY DEF IInv, Good, Wf
<1>2. b \in Blocks /\ node.writer = Reconstruct(b)
  BY <1>1, RequestKinds DEF Store, ReconstructDone
<1>3. CASE current /\ ~ok
  <2>1. node' = node /\ rpc' = rpc /\ ledgers' = [ledgers EXCEPT !.panic = "reconstruct"]
    BY <1>3 DEF ReconstructDone
  <2>2. ledgers' \in Service
    BY <1>1, <2>1 DEF Service, Panics
  <2> QED
    BY <2>1, <2>2 DEF IInv, Quiet
<1>4. CASE ~(current /\ ~ok)
  <2>1. PICK q \in IF current THEN Queries(n, rpc) ELSE {<<>>} :
           node' = AfterWrite(QueryPending(n, q)) /\ rpc' = SendRequests(rpc, q)
    BY <1>4 DEF ReconstructDone
  <2>2. ledgers' = [ledgers EXCEPT !.staged = IF ok THEN ledgers.staged \cup {b}
                                             ELSE ledgers.staged]
    BY <1>4, <1>1 DEF ReconstructDone, Service
  <2>3. ledgers' \in Service
    BY <1>1, <1>2, <2>2 DEF Service
  <2>4. DOMAIN q \in SUBSET Blocks /\ \A c \in DOMAIN q : q[c] \in Peers
    <3>1. CASE current
      BY <2>1, <3>1, QueriesType
    <3>2. CASE ~current
      BY <2>1, <3>2
    <3> QED
      BY <3>1, <3>2
  <2>5. Good(n) /\ n.sync # "BlocksSuccess"
    <3>1. CASE current
      BY <1>1, <3>1, BlocksPendingGood
    <3>2. CASE ~current
      <4>1. node.ledger.state # "ReconstructPending"
        BY <1>1, <1>2, <3>2 DEF Good, Matched, Reconstruct
      <4>2. node.writer.kind \notin {"BlockApply", "Commit"}
        BY <1>2 DEF Reconstruct
      <4> QED
        BY <1>1, <3>2, <4>1, <4>2, AnsweredGood
    <3> QED
      BY <3>1, <3>2
  <2> HIDE DEF n
  <2>6. Good(QueryPending(n, q)) /\ QueryPending(n, q).sync = n.sync
    BY <2>4, <2>5, QueryPendingGood
  <2>7. Good(node') /\ Quiet(node') /\ node'.sync # "BlocksSuccess"
    BY <2>1, <2>5, <2>6, AfterWriteGood
  <2> QED
    BY <2>1, <2>3, <2>4, <2>7, SendRequestsType DEF IInv
<1> QED
  BY <1>3, <1>4

(* The producer has its staged ledger diff, or an error. *)
LEMMA DiffCreateDoneIInv ==
    ASSUME IInv, DiffCreateDone
    PROVE  IInv'
<1> DEFINE b == node.writer.block
           a == Answered(node)
           pr == [state |-> "Idle", pred |-> NoBlock]
           m == [a EXCEPT !.producer = pr]
<1>1. Good(node) /\ node.sync # "BlocksSuccess" /\ node \in Store
  BY DEF IInv, Good, Wf
<1>2. node.writer = DiffCreate(b)
  BY <1>1, RequestKinds DEF Store, DiffCreateDone
<1>3. node.ledger.state # "ReconstructPending"
      /\ node.writer.kind \notin {"BlockApply", "Commit"}
  BY <1>1, <1>2 DEF Good, Matched, Reconstruct, DiffCreate
<1>4. Good(a) /\ a.sync = node.sync /\ a \in Store
  BY <1>1, <1>3, AnsweredGood
<1>5. node' = AfterWrite(m) \/ node' = AfterWrite(a)
  BY DEF DiffCreateDone
<1> HIDE DEF a
<1>6. pr \in [state : ProducerStates, pred : Blocks \cup {NoBlock}] /\ pr.state = "Idle"
  BY DEF ProducerStates
<1> HIDE DEF pr
<1>7. /\ m \in Store /\ m.producer = pr /\ m.sync = a.sync /\ m.chain = a.chain
      /\ m.ledger = a.ledger /\ m.writer = a.writer /\ m.best_chain = a.best_chain
      /\ m.tip = a.tip /\ m.root = a.root
  BY <1>4, <1>6 DEF Store
<1> HIDE DEF m
<1>8. InChain(m) = InChain(a)
  BY <1>7 DEF InChain
<1>9. Good(m)
  BY <1>4, <1>6, <1>7, <1>8 DEF Good, Wf, Matched
<1>10. Good(node') /\ Quiet(node') /\ node'.sync # "BlocksSuccess"
  BY <1>1, <1>4, <1>5, <1>7, <1>9, AfterWriteGood
<1> QED
  BY <1>10 DEF IInv, DiffCreateDone

(* The invariant is inductive. *)
LEMMA StepIInv == IInv /\ [Next]_vars => IInv'
<1> SUFFICES ASSUME IInv, [Next]_vars PROVE IInv'
  OBVIOUS
<1>1. CASE \E t \in Tips : BestTipUpdate(t)
  BY <1>1, BestTipUpdateIInv
<1>2. CASE SnarkedLedgerSynced
  BY <1>2, SnarkedLedgerSyncedIInv
<1>3. CASE StagedLedgerPartsFetched
  BY <1>3, StagedLedgerPartsFetchedIInv
<1>4. CASE \E p \in Peers : BlockRpcSuccess(p) \/ BlockRpcError(p) \/ PeerDisconnected(p)
  BY <1>4, BlockRpcSuccessIInv, BlockRpcErrorIInv, PeerDisconnectedIInv
<1>9. CASE \E p \in Faulty : BlockRpcUnusable(p)
  BY <1>9, BlockRpcUnusableIInv, LedgerAssumption
<1>5. CASE PeerReady
  BY <1>5, PeerReadyIInv
<1>6. CASE WonSlotProduceInit
  BY <1>6, WonSlotProduceInitIInv
<1>7. CASE LedgerWriteSuccess
  BY <1>7, BlockApplyDoneIInv, CommitDoneIInv, ReconstructDoneIInv, DiffCreateDoneIInv
  DEF LedgerWriteSuccess
<1>8. CASE UNCHANGED vars
  BY <1>8 DEF vars, IInv
<1> QED
  BY <1>1, <1>2, <1>3, <1>4, <1>9, <1>5, <1>6, <1>7, <1>8 DEF Next

(* Hence it holds in every reachable state. *)
LEMMA SpecIInv == Spec => []IInv
  BY InitIInv, StepIInv, PTL DEF Spec

-----------------------------------------------------------------------------
(* The store and the services hold values of their types, and BlocksSuccess  *)
(* is never left behind by an event: the reducer of BestTipUpdate would      *)
(* ignore a better tip there.                                                *)
THEOREM TypeCorrect == Spec => []TypeOK
<1>1. IInv => TypeOK
  BY DEF IInv, TypeOK, Good, Wf
<1> QED
  BY <1>1, SpecIInv, PTL

(* Whoever waits for the ledger service waits for the request it is          *)
(* executing, whatever tips and answers come in between.                     *)
THEOREM RequestsMatched == Spec => []PendingHasRequest
<1>1. IInv => PendingHasRequest
  BY DEF IInv, PendingHasRequest, Good, Matched
<1> QED
  BY <1>1, SpecIInv, PTL

(* The ledger service is never idle while a component has work for it.       *)
THEOREM WakeupTheorem == Spec => []NoLostWakeup
<1>1. IInv => NoLostWakeup
  BY DEF IInv, NoLostWakeup, Quiet
<1> QED
  BY <1>1, SpecIInv, PTL
-----------------------------------------------------------------------------
(***************************************************************************)
(* What the synchronization does with chains, proved for every block tree: *)
(* which attempts are pending at which peers, what the chain of a target   *)
(* looks like, and that a commit moves the frontier to a better branch     *)
(* whose blocks have been applied.                                         *)
(***************************************************************************)
-----------------------------------------------------------------------------
(* The inductive invariant, as predicates on stores. *)

Roots == {RootOf(t) : t \in Blocks}

(* The chain of a target has its whole chain proof, and nothing that is not  *)
(* an ancestor of the target.                                                *)
Linear(n) ==
    n.sync \in BlockPhases =>
        LET t == Highest(InChain(n))
        IN  ChainOf(t) \subseteq InChain(n) /\ InChain(n) \subseteq Ancestors[t]

(* What is committed is a chain proof whose blocks are all applied.          *)
Complete(n) ==
    n.sync \in {"BlocksSuccess", "CommitPending"} =>
        /\ InChain(n) = ChainOf(Highest(InChain(n)))
        /\ \A b \in InChain(n) : n.chain[b] = "ApplySuccess"

(* While the root ledger is synchronized, the block whose staged ledger is   *)
(* wanted is the lowest of the roots the targets have had since.             *)
Rooted(n) ==
    /\ n.sync \in LedgerPhases => n.root = RootOf(n.tip)
    /\ n.sync = "RootLedgerPending" =>
          /\ n.root_updates \subseteq Ancestors[n.root]
          /\ n.ledger.staged \in n.root_updates \cup {n.root}
          /\ \A b \in n.root_updates \cup {n.root} : Height[n.ledger.staged] =< Height[b]
          /\ n.ledger.staged \in Roots

(* The target is better than the best tip, and nothing on the way to it has  *)
(* failed to apply.                                                          *)
Wanted(n) ==
    is_pending(n) =>
        /\ consensus_take(best_tip(n), sync_best_tip(n))
        /\ (ChainOf(sync_best_tip(n)) \cup InChain(n)) \cap n.blacklist = {}
        /\ n.sync \in LedgerPhases => n.root_updates \cap n.blacklist = {}

(* Applied blocks come from the frontier, from the ledger service or from    *)
(* a reconstruction.                                                         *)
AppliedFrom(n) ==
    \A b \in Blocks : n.chain[b] = "ApplySuccess" => b \in n.best_chain \cup Applies \cup Roots

Chained(n) == Linear(n) /\ Complete(n) /\ Rooted(n) /\ Wanted(n) /\ AppliedFrom(n)

(* AppliedHaveLedgers of a store and a service. *)
Backed(n, l) ==
    \A b \in Blocks : b \in n.best_chain \/ n.chain[b] = "ApplySuccess" => HasStaged(l, b)

(* PendingQueries of a store and the peers. *)
Attempted(n, r) ==
    \A b \in Blocks, p \in Peers :
        n.attempts[b][p] = "Pending" =>
            n.chain[b] = "FetchPending" /\ (r[p] = b \/ p \in Faulty)

Linked(n, l, r) == Chained(n) /\ Backed(n, l) /\ Attempted(n, r)

ChainInv == IInv /\ Linked(node, ledgers, rpc)

-----------------------------------------------------------------------------
(* Branches of the tree. *)

(* A set of ancestors of a block that holds the block ends with it. *)
LEMMA TipOfBranch ==
    ASSUME NEW t \in Blocks, NEW S \in SUBSET Ancestors[t], t \in S
    PROVE  Highest(S) = t
<1>1. S \in SUBSET Blocks /\ S # {}
  BY TreeAssumption
<1>2. Highest(S) \in S /\ \A b \in S : Height[b] =< Height[Highest(S)]
  BY <1>1, HighestIn
<1>3. Height[Highest(S)] = Height[t]
  BY <1>1, <1>2, TreeAssumption
<1> QED
  BY <1>2, <1>3, TreeAssumption

(* Two lowest blocks of a branch are the same. *)
LEMMA RootOfBranch ==
    ASSUME NEW t \in Blocks, NEW S \in SUBSET Ancestors[t], NEW r \in S,
           \A b \in S : Height[r] =< Height[b]
    PROVE  Lowest(S) = r
<1>1. S \in SUBSET Blocks /\ S # {}
  BY TreeAssumption
<1>2. Lowest(S) \in S /\ \A b \in S : Height[Lowest(S)] =< Height[b]
  BY <1>1, LowestIn
<1>3. Height[Lowest(S)] = Height[r]
  BY <1>1, <1>2, TreeAssumption
<1> QED
  BY <1>2, <1>3, TreeAssumption

(* A chain proof ends with its tip and starts with its root. *)
LEMMA ChainOfEnds ==
    ASSUME NEW t \in Blocks
    PROVE  /\ ChainOf(t) \in SUBSET Blocks /\ ChainOf(t) \subseteq Ancestors[t]
           /\ t \in ChainOf(t) /\ Highest(ChainOf(t)) = t
           /\ RootOf(t) \in ChainOf(t) /\ RootOf(t) \in Roots
           /\ \A b \in ChainOf(t) : Height[RootOf(t)] =< Height[b]
<1>1. ChainOf(t) \in SUBSET Blocks /\ t \in ChainOf(t)
  BY ChainOfType
<1>2. ChainOf(t) \subseteq Ancestors[t]
  BY DEF ChainOf
<1>3. Highest(ChainOf(t)) = t
  BY <1>1, <1>2, TipOfBranch
<1>4. RootOf(t) \in ChainOf(t) /\ \A b \in ChainOf(t) : Height[RootOf(t)] =< Height[b]
  BY <1>1, LowestIn DEF RootOf
<1> QED
  BY <1>1, <1>2, <1>3, <1>4 DEF Roots

-----------------------------------------------------------------------------
(* Operators that leave the chain as it is, but for blocks handed to the     *)
(* ledger service.                                                           *)

Kept(n, m) ==
    /\ m.best_chain = n.best_chain /\ m.blacklist = n.blacklist
    /\ m.sync = n.sync \/ (n.sync = "BlocksSuccess" /\ m.sync = "CommitPending")
    /\ m.tip = n.tip /\ m.root = n.root /\ m.root_updates = n.root_updates
    /\ m.ledger.staged = n.ledger.staged
    /\ \A b \in Blocks : \/ m.chain[b] = n.chain[b]
                         \/ n.chain[b] = "FetchSuccess" /\ m.chain[b] = "ApplyPending"

(* They keep what is known of chains, ledgers and requests. *)
LEMMA KeptChained ==
    ASSUME NEW n, NEW m, Kept(n, m)
    PROVE  /\ InChain(m) = InChain(n)
           /\ Chained(n) => Chained(m)
           /\ \A l : Backed(n, l) => Backed(m, l)
           /\ m.attempts = n.attempts => \A r : Attempted(n, r) => Attempted(m, r)
<1>1. InChain(m) = InChain(n)
  BY DEF Kept, InChain
<1>2. Linear(n) => Linear(m)
  BY <1>1 DEF Kept, Linear, BlockPhases
<1>3. Complete(n) => Complete(m)
  <2> SUFFICES ASSUME Complete(n), m.sync \in {"BlocksSuccess", "CommitPending"}
               PROVE  /\ InChain(m) = ChainOf(Highest(InChain(m)))
                      /\ \A b \in InChain(m) : m.chain[b] = "ApplySuccess"
    BY DEF Complete
  <2>1. n.sync \in {"BlocksSuccess", "CommitPending"}
    BY DEF Kept
  <2> QED
    BY <1>1, <2>1 DEF Kept, Complete, InChain
<1>4. Rooted(n) => Rooted(m)
  BY DEF Kept, Rooted, LedgerPhases
<1>5. Wanted(n) => Wanted(m)
  <2> SUFFICES ASSUME Wanted(n), is_pending(m) PROVE Wanted(m)
    BY DEF Wanted
  <2>1. is_pending(n) /\ (m.sync \in LedgerPhases <=> n.sync \in LedgerPhases)
    BY DEF Kept, is_pending, LedgerPhases
  <2>2. sync_best_tip(m) = sync_best_tip(n) /\ best_tip(m) = best_tip(n)
    BY <1>1, <2>1 DEF Kept, sync_best_tip, best_tip
  <2> QED
    BY <1>1, <2>1, <2>2 DEF Kept, Wanted
<1>6. AppliedFrom(n) => AppliedFrom(m)
  BY DEF Kept, AppliedFrom
<1>7. \A l : Backed(n, l) => Backed(m, l)
  BY DEF Kept, Backed
<1>8. m.attempts = n.attempts => \A r : Attempted(n, r) => Attempted(m, r)
  BY DEF Kept, Attempted
<1> QED
  BY <1>1, <1>2, <1>3, <1>4, <1>5, <1>6, <1>7, <1>8 DEF Chained

(* The writer, the producer and the progress of the ledger that is being     *)
(* synchronized do not belong to the chain.                                  *)
LEMMA FieldsKept ==
    ASSUME NEW n \in Store, NEW m, m.ledger.staged = n.ledger.staged,
           \A f \in DOMAIN n \ {"writer", "producer", "ledger"} : m[f] = n[f]
    PROVE  Kept(n, m) /\ m.attempts = n.attempts
BY DEF Kept, Store

(* Offering the writer to a client keeps the chain. *)
LEMMA InitsKeep ==
    ASSUME NEW n \in Store
    PROVE  /\ Kept(n, StagedLedgerDiffCreateInit(n))
           /\ StagedLedgerDiffCreateInit(n).attempts = n.attempts
           /\ Kept(n, BlocksNextApplyInit(n))
           /\ BlocksNextApplyInit(n).attempts = n.attempts
           /\ Kept(n, CommitInit(n))
           /\ CommitInit(n).attempts = n.attempts
           /\ Kept(n, ReconstructInit(n))
           /\ ReconstructInit(n).attempts = n.attempts
           /\ Kept(n, Answered(n)) /\ Answered(n).attempts = n.attempts
<1>1. Kept(n, StagedLedgerDiffCreateInit(n)) /\ StagedLedgerDiffCreateInit(n).attempts = n.attempts
  <2> DEFINE pr == [n.producer EXCEPT !.state = "StagedLedgerDiffCreatePending"]
             w == DiffCreate(n.producer.pred)
             m == StagedLedgerDiffCreateInit(n)
  <2>1. m \in {n, [n EXCEPT !.writer = w, !.producer = pr]}
    BY DEF StagedLedgerDiffCreateInit, Store
  <2> HIDE DEF pr, w, m
  <2>2. \A f \in DOMAIN n \ {"writer", "producer"} : m[f] = n[f]
    BY <2>1 DEF Store
  <2>3. Kept(n, m) /\ m.attempts = n.attempts
    BY <2>2, FieldsKept DEF Store
  <2> QED
    BY <2>3 DEF m
<1>2. Kept(n, BlocksNextApplyInit(n)) /\ BlocksNextApplyInit(n).attempts = n.attempts
  <2>1. CASE WriterFree(n) /\ blocks_apply_next(n) # {}
    <3>1. PICK b \in blocks_apply_next(n) :
             BlocksNextApplyInit(n) = [n EXCEPT !.writer = BlockApply(b), !.chain[b] = "ApplyPending"]
      BY <2>1 DEF BlocksNextApplyInit
    <3>2. b \in Blocks /\ n.chain[b] = "FetchSuccess"
      BY DEF blocks_apply_next, InChain
    <3> DEFINE ch == [n.chain EXCEPT ![b] = "ApplyPending"]
    <3>3. BlocksNextApplyInit(n) = [n EXCEPT !.writer = BlockApply(b), !.chain = ch]
      BY <3>1 DEF Store
    <3>4. \A c \in Blocks : \/ ch[c] = n.chain[c]
                            \/ n.chain[c] = "FetchSuccess" /\ ch[c] = "ApplyPending"
      BY <3>2 DEF Store
    <3> HIDE DEF ch
    <3>5. /\ BlocksNextApplyInit(n).chain = ch
          /\ \A f \in DOMAIN n \ {"writer", "chain"} : BlocksNextApplyInit(n)[f] = n[f]
      BY <3>3 DEF Store
    <3> QED
      BY <3>4, <3>5 DEF Kept, Store
  <2>2. CASE ~(WriterFree(n) /\ blocks_apply_next(n) # {})
    BY <2>2 DEF BlocksNextApplyInit, Kept
  <2> QED
    BY <2>1, <2>2
<1>3. Kept(n, CommitInit(n)) /\ CommitInit(n).attempts = n.attempts
  <2>1. CASE WriterFree(n) /\ n.sync = "BlocksSuccess"
    <3>1. PICK w : CommitInit(n) = [n EXCEPT !.writer = w, !.sync = "CommitPending"]
      BY <2>1 DEF CommitInit
    <3>2. /\ CommitInit(n).sync = "CommitPending"
          /\ \A f \in DOMAIN n \ {"writer", "sync"} : CommitInit(n)[f] = n[f]
      BY <3>1 DEF Store
    <3> QED
      BY <2>1, <3>2 DEF Kept, Store
  <2>2. CASE ~(WriterFree(n) /\ n.sync = "BlocksSuccess")
    BY <2>2 DEF CommitInit, Kept
  <2> QED
    BY <2>1, <2>2
<1>4. Kept(n, ReconstructInit(n)) /\ ReconstructInit(n).attempts = n.attempts
  <2> DEFINE l == [n.ledger EXCEPT !.state = "ReconstructPending"]
             w == Reconstruct(n.ledger.staged)
             m == ReconstructInit(n)
  <2>1. m \in {n, [n EXCEPT !.writer = w, !.ledger = l]}
    BY DEF ReconstructInit, Store
  <2>2. l.staged = n.ledger.staged
    BY DEF Store
  <2> HIDE DEF l, w, m
  <2>3. m.ledger.staged = n.ledger.staged /\ \A f \in DOMAIN n \ {"writer", "ledger"} : m[f] = n[f]
    BY <2>1, <2>2 DEF Store
  <2>4. Kept(n, m) /\ m.attempts = n.attempts
    BY <2>3, FieldsKept
  <2> QED
    BY <2>4 DEF m
<1>5. Kept(n, Answered(n)) /\ Answered(n).attempts = n.attempts
  <2>1. \A f \in DOMAIN n \ {"writer"} : Answered(n)[f] = n[f]
    BY DEF Answered, Store
  <2> QED
    BY <2>1, FieldsKept DEF Store
<1> QED
  BY <1>1, <1>2, <1>3, <1>4, <1>5

(* So does what follows an answer of the ledger service. *)
LEMMA AfterWriteChained ==
    ASSUME NEW n, Good(n)
    PROVE  /\ Chained(n) => Chained(AfterWrite(n))
           /\ \A l : Backed(n, l) => Backed(AfterWrite(n), l)
           /\ \A r : Attempted(n, r) => Attempted(AfterWrite(n), r)
           /\ AfterWrite(n).best_chain = n.best_chain
<1> DEFINE a == StagedLedgerDiffCreateInit(n)
           b == BlocksNextApplyInit(a)
           c == CommitInit(b)
           d == ReconstructInit(c)
<1>1. Good(a) /\ Kept(n, a) /\ a.attempts = n.attempts
  BY DiffCreateInitGood, InitsKeep DEF Good, Wf
<1>2. Good(b) /\ Kept(a, b) /\ b.attempts = a.attempts
  BY <1>1, NextApplyInitGood, InitsKeep DEF Good, Wf
<1>3. Good(c) /\ Kept(b, c) /\ c.attempts = b.attempts
  BY <1>2, CommitInitGood, InitsKeep DEF Good, Wf
<1>4. Kept(c, d) /\ d.attempts = c.attempts
  BY <1>3, InitsKeep DEF Good, Wf
<1>5. AfterWrite(n) = d
  BY DEF AfterWrite
<1> HIDE DEF a, b, c, d
<1>6. Chained(n) => Chained(d)
  BY <1>1, <1>2, <1>3, <1>4, KeptChained
<1>7. \A l : Backed(n, l) => Backed(d, l)
  BY <1>1, <1>2, <1>3, <1>4, KeptChained
<1>8. \A r : Attempted(n, r) => Attempted(d, r)
  BY <1>1, <1>2, <1>3, <1>4, KeptChained
<1>9. d.best_chain = n.best_chain
  BY <1>1, <1>2, <1>3, <1>4 DEF Kept
<1> QED
  BY <1>5, <1>6, <1>7, <1>8, <1>9

-----------------------------------------------------------------------------
(* Asking peers for blocks. *)

(* What a query of BlocksPeersQuery looks like: it asks for blocks that are  *)
(* missing, each from a peer of its own that is not working on another.      *)
Asks(n, r, q) ==
    /\ DOMAIN q \in SUBSET Blocks
    /\ \A b \in DOMAIN q : /\ n.chain[b] = "FetchPending"
                           /\ q[b] \in Peers /\ r[q[b]] = NoBlock
    /\ \A a, b \in DOMAIN q : q[a] = q[b] => a = b

(* All possible queries are of this kind, and so is the empty one. *)
LEMMA QueriesAsk ==
    ASSUME NEW n, NEW r
    PROVE  (\A q \in Queries(n, r) : Asks(n, r, q)) /\ Asks(n, r, <<>>)
BY DEF Queries, RequestsFor, Missing, Asks, is_retry, is_next, can_send_request

(* A query adds attempts that its peers are working on, and no peer is       *)
(* taken away from an attempt that is pending.                               *)
LEMMA QueryAttempted ==
    ASSUME NEW n \in Store, NEW r \in [Peers -> Blocks \cup {NoBlock}], NEW q, Asks(n, r, q)
    PROVE  /\ Kept(n, QueryPending(n, q))
           /\ Attempted(n, r) => Attempted(QueryPending(n, q), SendRequests(r, q))
<1> DEFINE m == QueryPending(n, q)
           at == [b \in Blocks |-> IF b \in DOMAIN q
                                   THEN [n.attempts[b] EXCEPT ![q[b]] = "Pending"]
                                   ELSE n.attempts[b]]
<1>1. m = [n EXCEPT !.attempts = at]
  BY DEF QueryPending, Store
<1>2. n.attempts \in [Blocks -> [Peers -> RpcStates]] /\ \A b \in DOMAIN q : q[b] \in Peers
  BY DEF Store, Asks
<1>3. ASSUME NEW b \in Blocks, NEW p \in Peers, at[b][p] = "Pending"
      PROVE  (b \in DOMAIN q /\ q[b] = p) \/ n.attempts[b][p] = "Pending"
  BY <1>2, <1>3
<1> HIDE DEF at, m
<1>4. m.attempts = at /\ \A f \in DOMAIN n \ {"attempts"} : m[f] = n[f]
  BY <1>1 DEF Store
<1>5. m.chain = n.chain
  BY <1>4 DEF Store
<1>6. Kept(n, m)
  BY <1>4 DEF Kept, Store
<1>7. ASSUME Attempted(n, r), NEW b \in Blocks, NEW p \in Peers, m.attempts[b][p] = "Pending"
      PROVE  m.chain[b] = "FetchPending" /\ (SendRequests(r, q)[p] = b \/ p \in Faulty)
  <2>1. CASE b \in DOMAIN q /\ q[b] = p
    <3>1. SendRequests(r, q)[p] = CHOOSE c \in DOMAIN q : q[c] = p
      BY <2>1 DEF SendRequests
    <3>2. \A c \in DOMAIN q : q[c] = p => c = b
      BY <2>1 DEF Asks
    <3>3. (CHOOSE c \in DOMAIN q : q[c] = p) = b
      BY <2>1, <3>2
    <3> QED
      BY <1>5, <2>1, <3>1, <3>3 DEF Asks
  <2>2. CASE n.attempts[b][p] = "Pending"
    <3>1. n.chain[b] = "FetchPending" /\ (r[p] = b \/ p \in Faulty)
      BY <1>7, <2>2 DEF Attempted
    <3>2. r[p] = b => \A c \in DOMAIN q : q[c] # p
      BY LedgerAssumption DEF Asks
    <3> QED
      BY <1>5, <3>1, <3>2 DEF SendRequests
  <2> QED
    BY <1>3, <1>4, <1>7, <2>1, <2>2
<1>8. Attempted(n, r) => Attempted(m, SendRequests(r, q))
  BY <1>7 DEF Attempted
<1> QED
  BY <1>6, <1>8 DEF m

(* What a query keeps of chains and ledgers. *)
LEMMA QueryChained ==
    ASSUME NEW n, Good(n), NEW r \in [Peers -> Blocks \cup {NoBlock}], NEW q, Asks(n, r, q)
    PROVE  LET m == QueryPending(n, q)
           IN  /\ Good(m)
               /\ Chained(n) => Chained(m)
               /\ \A l : Backed(n, l) => Backed(m, l)
               /\ Attempted(n, r) => Attempted(m, SendRequests(r, q))
               /\ m.best_chain = n.best_chain
<1> DEFINE m == QueryPending(n, q)
<1>1. Good(m)
  BY QueryPendingGood DEF Asks
<1>2. n \in Store
  BY DEF Good, Wf
<1>3. Kept(n, m) /\ (Attempted(n, r) => Attempted(m, SendRequests(r, q)))
  BY <1>2, QueryAttempted
<1>4. m.best_chain = n.best_chain
  BY <1>3 DEF Kept
<1> HIDE DEF m
<1>5. (Chained(n) => Chained(m)) /\ \A l : Backed(n, l) => Backed(m, l)
  BY <1>3, KeptChained
<1> QED
  BY <1>1, <1>3, <1>4, <1>5 DEF m

(* A block has arrived from the peer that was asked for it, or too late. *)
LEMMA FetchSuccessChained ==
    ASSUME NEW n, Good(n), NEW r \in [Peers -> Blocks \cup {NoBlock}], NEW p \in Peers,
           r[p] \in Blocks, Attempted(n, r), Chained(n)
    PROVE  LET m == BlocksFetchSuccess(n, p, r[p])
           IN  /\ Attempted(m, [r EXCEPT ![p] = NoBlock])
               /\ Chained(m)
               /\ \A l : Backed(n, l) => Backed(m, l)
               /\ m.best_chain = n.best_chain
<1> DEFINE b == r[p]
           s == [r EXCEPT ![p] = NoBlock]
           m == BlocksFetchSuccess(n, p, b)
<1>1. n \in Store
  BY DEF Good, Wf
<1>2. CASE n.chain[b] = "FetchPending" /\ n.attempts[b][p] = "Pending"
  <2> DEFINE ch == [n.chain EXCEPT ![b] = "FetchSuccess"]
             at == [n.attempts EXCEPT ![b] = NoQueries[b]]
  <2>1. m = [n EXCEPT !.chain = ch, !.attempts = at]
    BY <1>1, <1>2 DEF BlocksFetchSuccess, Store
  <2>2. ch[b] = "FetchSuccess" /\ \A c \in Blocks \ {b} : ch[c] = n.chain[c]
    BY <1>1 DEF Store
  <2>3. /\ \A x \in Peers : at[b][x] = "None"
        /\ \A c \in Blocks \ {b} : at[c] = n.attempts[c]
    BY <1>1 DEF Store, NoQueries
  <2> HIDE DEF ch, at, m
  <2>4. m.chain = ch /\ m.attempts = at
        /\ \A f \in DOMAIN n \ {"chain", "attempts"} : m[f] = n[f]
    BY <1>1, <2>1 DEF Store
  <2>5. /\ m.best_chain = n.best_chain /\ m.blacklist = n.blacklist /\ m.sync = n.sync
        /\ m.tip = n.tip /\ m.root = n.root /\ m.root_updates = n.root_updates
        /\ m.ledger = n.ledger
    BY <1>1, <2>4 DEF Store
  <2>6. InChain(m) = InChain(n)
    BY <1>2, <2>2, <2>4 DEF InChain
  <2>7. Chained(m)
    <3>1. Linear(m) /\ Rooted(m)
      BY <2>5, <2>6 DEF Chained, Linear, Rooted
    <3>2. Complete(m)
      <4>1. b \in InChain(n) /\ n.chain[b] # "ApplySuccess"
        BY <1>2 DEF InChain
      <4> QED
        BY <2>5, <4>1 DEF Chained, Complete
    <3>3. Wanted(m)
      BY <2>5, <2>6 DEF Chained, Wanted, is_pending, best_tip, sync_best_tip
    <3>4. AppliedFrom(m)
      BY <2>2, <2>4, <2>5 DEF Chained, AppliedFrom
    <3> QED
      BY <3>1, <3>2, <3>3, <3>4 DEF Chained
  <2>8. Attempted(m, s)
    <3> SUFFICES ASSUME NEW c \in Blocks, NEW x \in Peers, m.attempts[c][x] = "Pending"
                 PROVE  m.chain[c] = "FetchPending" /\ (s[x] = c \/ x \in Faulty)
      BY DEF Attempted
    <3>1. c # b
      BY <2>3, <2>4
    <3>2. n.attempts[c][x] = "Pending"
      BY <2>3, <2>4, <3>1
    <3>3. n.chain[c] = "FetchPending" /\ (r[x] = c \/ x \in Faulty)
      BY <3>2 DEF Attempted
    <3>4. r[x] = c => x # p
      BY <3>1
    <3> QED
      BY <2>2, <2>4, <3>1, <3>3, <3>4
  <2>9. \A l : Backed(n, l) => Backed(m, l)
    BY <2>2, <2>4, <2>5 DEF Backed
  <2> QED
    BY <2>5, <2>7, <2>8, <2>9 DEF m
<1>3. CASE ~(n.chain[b] = "FetchPending" /\ n.attempts[b][p] = "Pending")
  <2>1. m = n
    BY <1>3 DEF BlocksFetchSuccess
  <2>2. n.attempts[b][p] # "Pending"
    BY <1>3 DEF Attempted
  <2>3. Attempted(n, s)
    <3> SUFFICES ASSUME NEW c \in Blocks, NEW x \in Peers, n.attempts[c][x] = "Pending"
                 PROVE  n.chain[c] = "FetchPending" /\ (s[x] = c \/ x \in Faulty)
      BY DEF Attempted
    <3>1. n.chain[c] = "FetchPending" /\ (r[x] = c \/ x \in Faulty)
      BY DEF Attempted
    <3>2. r[x] = c => x # p
      BY <2>2
    <3> QED
      BY <3>1, <3>2
  <2> HIDE DEF m
  <2> QED
    BY <2>1, <2>3 DEF m
<1> QED
  BY <1>2, <1>3

(* An attempt has failed.  Of a peer that is not faulty it is the only one,  *)
(* the one it was working on.                                                *)
LEMMA QueryErrorChained ==
    ASSUME NEW n, Good(n), NEW r \in [Peers -> Blocks \cup {NoBlock}], NEW p \in Peers,
           r[p] \in Blocks, Attempted(n, r)
    PROVE  LET m == BlocksPeerQueryError(n, p, r[p])
           IN  /\ Attempted(m, [r EXCEPT ![p] = NoBlock])
               /\ Kept(n, m)
<1> DEFINE b == r[p]
           s == [r EXCEPT ![p] = NoBlock]
           m == BlocksPeerQueryError(n, p, b)
           pending == {c \in Blocks : n.attempts[c][p] = "Pending"}
<1>1. n \in Store
  BY DEF Good, Wf
<1>2. p \notin Faulty => \A c \in pending : c = b
  BY DEF Attempted
<1>3. ASSUME NEW c \in Blocks, NEW x \in Peers, n.attempts[c][x] = "Pending",
             x # p \/ p \in Faulty
      PROVE  n.chain[c] = "FetchPending" /\ (s[x] = c \/ x \in Faulty)
  BY <1>3 DEF Attempted
<1>4. CASE n.attempts[b][p] = "Pending"
  <2> DEFINE low == Lowest(pending)
             at == [n.attempts EXCEPT ![low] = [n.attempts[low] EXCEPT ![p] = "Error"]]
  <2>1. low \in pending /\ low \in Blocks
    <3>1. pending \in SUBSET Blocks /\ pending # {}
      BY <1>4
    <3> HIDE DEF pending
    <3> QED
      BY <3>1, LowestIn
  <2>2. m = [n EXCEPT !.attempts[low][p] = "Error"]
    BY <1>4 DEF BlocksPeerQueryError
  <2>3. p \notin Faulty => low = b
    BY <1>2, <2>1
  <2> HIDE DEF low
  <2>4. m = [n EXCEPT !.attempts = at]
    BY <1>1, <2>1, <2>2 DEF Store
  <2>5. \A c \in Blocks, x \in Peers :
           at[c][x] = "Pending" => n.attempts[c][x] = "Pending" /\ ~(c = low /\ x = p)
    BY <1>1, <2>1 DEF Store
  <2> HIDE DEF at, m
  <2>6. m.attempts = at /\ \A f \in DOMAIN n \ {"attempts"} : m[f] = n[f]
    BY <1>1, <2>4 DEF Store
  <2>7. Kept(n, m) /\ m.chain = n.chain
    BY <1>1, <2>6 DEF Kept, Store
  <2>8. Attempted(m, s)
    <3> SUFFICES ASSUME NEW c \in Blocks, NEW x \in Peers, m.attempts[c][x] = "Pending"
                 PROVE  m.chain[c] = "FetchPending" /\ (s[x] = c \/ x \in Faulty)
      BY DEF Attempted
    <3>1. n.attempts[c][x] = "Pending" /\ ~(c = low /\ x = p)
      BY <2>5, <2>6
    <3>2. x # p \/ p \in Faulty
      BY <1>2, <2>3, <3>1
    <3> QED
      BY <1>3, <2>7, <3>1, <3>2
  <2> QED
    BY <2>7, <2>8 DEF m
<1>5. CASE n.attempts[b][p] # "Pending"
  <2>1. m = n
    BY <1>5 DEF BlocksPeerQueryError
  <2>2. Attempted(n, s)
    <3> SUFFICES ASSUME NEW c \in Blocks, NEW x \in Peers, n.attempts[c][x] = "Pending"
                 PROVE  n.chain[c] = "FetchPending" /\ (s[x] = c \/ x \in Faulty)
      BY DEF Attempted
    <3>1. x # p \/ p \in Faulty
      BY <1>2, <1>5
    <3> QED
      BY <1>3, <3>1
  <2>3. Kept(n, n)
    BY DEF Kept
  <2> HIDE DEF m
  <2> QED
    BY <2>1, <2>2, <2>3 DEF m
<1> QED
  BY <1>4, <1>5

(* A disconnection ends all the attempts pending at a peer. *)
LEMMA DisconnectedChained ==
    ASSUME NEW n, Good(n), NEW r \in [Peers -> Blocks \cup {NoBlock}], NEW p \in Peers,
           Attempted(n, r)
    PROVE  LET m == QueriesDisconnected(n, p)
           IN  /\ Good(m)
               /\ m.sync = n.sync /\ m.chain = n.chain /\ m.ledger = n.ledger
               /\ m.writer = n.writer /\ m.producer = n.producer
               /\ Attempted(m, [r EXCEPT ![p] = NoBlock])
               /\ Kept(n, m)
<1> DEFINE s == [r EXCEPT ![p] = NoBlock]
           m == QueriesDisconnected(n, p)
           at == [b \in Blocks |-> IF n.attempts[b][p] = "Pending"
                                   THEN [n.attempts[b] EXCEPT ![p] = "Error"]
                                   ELSE n.attempts[b]]
<1>1. n \in Store
  BY DEF Good, Wf
<1>2. m = [n EXCEPT !.attempts = at]
  BY <1>1 DEF QueriesDisconnected, Store
<1>3. \A c \in Blocks, x \in Peers :
         at[c][x] = "Pending" => n.attempts[c][x] = "Pending" /\ x # p
  BY <1>1 DEF Store
<1>4. Kept(n, m) /\ Attempted(m, s)
  <2> HIDE DEF at, m
  <2>1. m.attempts = at /\ \A f \in DOMAIN n \ {"attempts"} : m[f] = n[f]
    BY <1>1, <1>2 DEF Store
  <2>2. Kept(n, m) /\ m.chain = n.chain
    BY <1>1, <2>1 DEF Kept, Store
  <2> QED
    BY <1>3, <2>1, <2>2 DEF Attempted
<1> QED
  BY <1>4, DisconnectedGood

-----------------------------------------------------------------------------
(* BestTipUpdate. *)

(* A tip that is taken is better than the frontier, since the target before  *)
(* it was, and has no rejected block in its chain proof.                     *)
LEMMA EnabledBetter ==
    ASSUME NEW n, Good(n), Wanted(n), NEW t \in Blocks, BestTipUpdateEnabled(n, t)
    PROVE  consensus_take(best_tip(n), t) /\ ChainOf(t) \cap n.blacklist = {}
<1>1. n \in Store /\ best_tip(n) \in Blocks
  BY HighestIn DEF Good, Wf, Store, best_tip
<1>2. ChainOf(t) \cap n.blacklist = {}
  BY DEF BestTipUpdateEnabled
<1>3. CASE is_pending(n)
  <2>1. sync_best_tip(n) \in Blocks
    <3>1. CASE n.sync \in LedgerPhases
      BY <3>1 DEF sync_best_tip, Good, Wf
    <3>2. CASE n.sync \notin LedgerPhases
      <4>1. InChain(n) \in SUBSET Blocks /\ InChain(n) # {}
        BY <1>1, <1>3, <3>2 DEF Good, Wf, Store, is_pending, InChain, SyncStates, BlockPhases
      <4> QED
        BY <3>2, <4>1, HighestIn DEF sync_best_tip
    <3> QED
      BY <3>1, <3>2
  <2>2. consensus_take(best_tip(n), sync_best_tip(n)) /\ consensus_take(sync_best_tip(n), t)
    BY <1>3 DEF Wanted, BestTipUpdateEnabled
  <2> QED
    BY <1>1, <1>2, <2>1, <2>2, OrderAssumption DEF consensus_take
<1>4. CASE ~is_pending(n)
  BY <1>2, <1>4 DEF BestTipUpdateEnabled
<1> QED
  BY <1>3, <1>4

(* What every retarget keeps of chains, ledgers and requests. *)
RetargetChained(n, m) ==
    /\ Chained(m)
    /\ \A l : Backed(n, l) => Backed(m, l)
    /\ \A r : Attempted(n, r) => Attempted(m, r)
    /\ m.best_chain = n.best_chain

(* How the roots of a target follow each other while ledgers are             *)
(* synchronized: they are remembered only if one is the parent of the next.  *)
RootsFollow(n, m, t) ==
    /\ m.root_updates \subseteq n.root_updates \cup {n.root}
    /\ m.sync = "RootLedgerPending" =>
          \/ m.root_updates = {} /\ m.ledger.staged = RootOf(t)
          \/ /\ n.sync = "RootLedgerPending" /\ m.ledger = n.ledger
             /\ m.root_updates = n.root_updates \cup {n.root}
             /\ RootOf(t) # Genesis /\ Pred[RootOf(t)] = n.root

(* A retarget that leaves the store in a ledger phase. *)
LEMMA LedgerTargetChained ==
    ASSUME NEW n, Good(n), Chained(n), NEW t \in Blocks, BestTipUpdateEnabled(n, t), NEW m,
           LedgerTarget(n, m, t), m.blacklist = n.blacklist,
           \/ m.attempts = NoQueries
           \/ m.attempts = n.attempts /\ n.chain = NoChain,
           \/ m.root_updates = {} /\ (m.sync = "RootLedgerPending" => m.ledger.staged = RootOf(t))
           \/ n.sync \in LedgerPhases /\ RootsFollow(n, m, t)
    PROVE  RetargetChained(n, m)
<1>1. /\ m.sync \in LedgerPhases /\ m.tip = t /\ m.root = RootOf(t)
      /\ m.chain = NoChain /\ m.best_chain = n.best_chain
  BY DEF LedgerTarget
<1>2. InChain(m) = {} /\ sync_best_tip(m) = t /\ best_tip(m) = best_tip(n)
  BY <1>1 DEF InChain, NoChain, sync_best_tip, best_tip
<1>3. Linear(m) /\ Complete(m) /\ AppliedFrom(m)
  BY <1>1 DEF Linear, Complete, AppliedFrom, NoChain, LedgerPhases, BlockPhases
<1>4. n.sync \in LedgerPhases =>
         /\ n.tip \in Blocks /\ n.root \in Blocks /\ n.root = RootOf(n.tip)
         /\ n.root \in ChainOf(n.tip) /\ sync_best_tip(n) = n.tip
  BY ChainOfEnds DEF Good, Wf, Chained, Rooted, sync_best_tip
<1>5. Wanted(m)
  <2>1. consensus_take(best_tip(n), t) /\ ChainOf(t) \cap n.blacklist = {}
    BY EnabledBetter DEF Chained
  <2>2. m.root_updates \cap n.blacklist = {}
    <3>1. CASE m.root_updates = {}
      BY <3>1
    <3>2. CASE n.sync \in LedgerPhases /\ m.root_updates \subseteq n.root_updates \cup {n.root}
      <4>1. is_pending(n)
        BY <3>2 DEF is_pending, LedgerPhases
      <4>2. n.root_updates \cap n.blacklist = {} /\ n.root \notin n.blacklist
        BY <1>4, <3>2, <4>1 DEF Chained, Wanted
      <4> QED
        BY <3>2, <4>2
    <3> QED
      BY <3>1, <3>2 DEF RootsFollow
  <2> QED
    BY <1>2, <2>1, <2>2 DEF Wanted
<1>6. Rooted(m)
  <2> SUFFICES ASSUME m.sync = "RootLedgerPending"
               PROVE  /\ m.root_updates \subseteq Ancestors[m.root]
                      /\ m.ledger.staged \in m.root_updates \cup {m.root}
                      /\ \A b \in m.root_updates \cup {m.root} :
                            Height[m.ledger.staged] =< Height[b]
                      /\ m.ledger.staged \in Roots
    BY <1>1 DEF Rooted
  <2> DEFINE root == RootOf(t)
  <2>1. root \in Blocks /\ root \in Roots
    BY ChainOfEnds
  <2>2. CASE m.root_updates = {} /\ m.ledger.staged = root
    BY <1>1, <2>1, <2>2, TreeAssumption
  <2>3. CASE /\ n.sync = "RootLedgerPending" /\ m.ledger = n.ledger
             /\ m.root_updates = n.root_updates \cup {n.root}
             /\ root # Genesis /\ Pred[root] = n.root
    <3>1. /\ n.root_updates \subseteq Ancestors[n.root]
          /\ n.ledger.staged \in n.root_updates \cup {n.root}
          /\ \A b \in n.root_updates \cup {n.root} : Height[n.ledger.staged] =< Height[b]
          /\ n.ledger.staged \in Roots
      BY <2>3 DEF Chained, Rooted
    <3>2. n.root \in Blocks
      BY <1>4, <2>3 DEF LedgerPhases
    <3>3. n.root \in Ancestors[root] /\ Height[root] = Height[n.root] + 1
      BY <2>1, <2>3, TreeAssumption
    <3>4. Ancestors[n.root] \subseteq Ancestors[root]
      BY <2>1, <3>3, TreeAssumption
    <3>5. n.ledger.staged \in Blocks
      BY <3>1, <3>2, TreeAssumption
    <3>6. Height[n.ledger.staged] =< Height[root]
      BY <2>1, <3>1, <3>2, <3>3, <3>5, TreeAssumption
    <3> HIDE DEF root
    <3> QED
      BY <1>1, <2>3, <3>1, <3>3, <3>4, <3>6 DEF root
  <2> QED
    BY <2>2, <2>3 DEF RootsFollow
<1>7. \A l : Backed(n, l) => Backed(m, l)
  BY <1>1 DEF Backed, NoChain
<1>8. \A r : Attempted(n, r) => Attempted(m, r)
  BY <1>1 DEF Attempted, NoChain, NoQueries
<1> QED
  BY <1>1, <1>3, <1>5, <1>6, <1>7, <1>8 DEF RetargetChained, Chained

(* A better tip while ledgers are synchronized. *)
LEMMA RetargetLedgerChained ==
    ASSUME NEW n, Good(n), Chained(n), n.sync \in LedgerPhases, NEW t \in Blocks,
           BestTipUpdateEnabled(n, t)
    PROVE  RetargetChained(n, RetargetLedger(n, t))
<1> DEFINE root == RootOf(t)
           r == RetargetLedger(n, t)
           next == next_epoch_needed(t, root)
           Set(p, ru, l) == [n EXCEPT !.tip = t, !.root = root, !.sync = p,
                                      !.root_updates = ru, !.ledger = l]
<1>1. n \in Store /\ n.chain = NoChain /\ n.ledger \in LedgerRecord
  BY DEF Good, Wf, Store, LedgerRecord, LedgerPhases, BlockPhases
<1>2. LedgerTarget(n, r, t)
  BY RetargetLedgerGood
<1>3. ASSUME NEW p, NEW ru, NEW l, r = Set(p, ru, l),
             ru \subseteq n.root_updates \cup {n.root},
             p = "RootLedgerPending" =>
               \/ ru = {} /\ l.staged = root
               \/ /\ n.sync = "RootLedgerPending" /\ l = n.ledger
                  /\ ru = n.root_updates \cup {n.root}
                  /\ root # Genesis /\ Pred[root] = n.root
      PROVE  RetargetChained(n, r)
  <2> HIDE DEF r, root
  <2>1. /\ r.sync = p /\ r.root_updates = ru /\ r.ledger = l
        /\ r.blacklist = n.blacklist /\ r.attempts = n.attempts
    BY <1>1, <1>3 DEF Store
  <2>2. RootsFollow(n, r, t)
    BY <1>3, <2>1 DEF RootsFollow, root
  <2> QED
    BY <1>1, <1>2, <2>1, <2>2, LedgerTargetChained
<1> HIDE DEF root, next
<1>4. CASE n.sync = "StakingLedgerPending"
  <2> DEFINE l == update_target(n.ledger, SnarkedTarget(Staking[t]))
  <2>1. r = Set(n.sync, n.root_updates, l)
    BY <1>1, <1>4 DEF RetargetLedger, root, Store
  <2> HIDE DEF r, l, Set
  <2>2. RetargetChained(n, r)
    BY <1>3, <1>4, <2>1
  <2> QED
    BY <2>2 DEF r
<1>5. CASE n.sync # "StakingLedgerPending" /\ Staking[n.tip] # Staking[t]
  <2>1. r = Set("StakingLedgerPending", n.root_updates, SnarkedTarget(Staking[t]))
    BY <1>1, <1>5 DEF RetargetLedger, root, Store
  <2> HIDE DEF r, Set
  <2>2. RetargetChained(n, r)
    BY <1>3, <2>1
  <2> QED
    BY <2>2 DEF r
<1>6. CASE n.sync = "NextEpochLedgerPending" /\ Staking[n.tip] = Staking[t]
  <2> DEFINE l == IF next THEN update_target(n.ledger, SnarkedTarget(NextEpoch[t])) ELSE n.ledger
  <2>1. r = Set(n.sync, n.root_updates, l)
    BY <1>1, <1>6 DEF RetargetLedger, root, next, Store
  <2> HIDE DEF r, l, Set
  <2>2. RetargetChained(n, r)
    BY <1>3, <1>6, <2>1
  <2> QED
    BY <2>2 DEF r
<1>7. CASE n.sync = "RootLedgerPending" /\ Staking[n.tip] = Staking[t]
  <2> DEFINE keep == /\ n.ledger.state \in {"PartsFetchSuccess", "ReconstructPending"}
                     /\ root # Genesis /\ Pred[root] = n.root
             new == next /\ NextEpoch[n.tip] # NextEpoch[t]
  <2>1. CASE new
    <3>1. r = Set("NextEpochLedgerPending", n.root_updates, SnarkedTarget(NextEpoch[t]))
      BY <1>1, <1>7, <2>1 DEF RetargetLedger, root, next, Store
    <3> HIDE DEF r, Set
    <3>2. RetargetChained(n, r)
      BY <1>3, <3>1
    <3> QED
      BY <3>2 DEF r
  <2>2. CASE ~new /\ keep
    <3>1. r = Set(n.sync, n.root_updates \cup {n.root}, n.ledger)
      BY <1>1, <1>7, <2>2 DEF RetargetLedger, root, next, Store
    <3> HIDE DEF r, Set
    <3>2. RetargetChained(n, r)
      BY <1>3, <1>7, <2>2, <3>1
    <3> QED
      BY <3>2 DEF r
  <2>3. CASE ~new /\ ~keep
    <3> DEFINE l == update_target(n.ledger, RootTarget(root))
    <3>1. r = Set(n.sync, {}, l)
      BY <1>1, <1>7, <2>3 DEF RetargetLedger, root, next, Store
    <3>2. l.staged = root
      BY DEF update_target, RootTarget
    <3> HIDE DEF r, Set, l
    <3>3. RetargetChained(n, r)
      BY <1>3, <1>7, <3>1, <3>2
    <3> QED
      BY <3>3 DEF r
  <2> QED
    BY <2>1, <2>2, <2>3
<1> QED
  BY <1>4, <1>5, <1>6, <1>7 DEF LedgerPhases

(* A better tip whose root has yet to be reconstructed. *)
LEMMA NextRequiredChained ==
    ASSUME NEW n, Good(n), Chained(n), NEW t \in Blocks, BestTipUpdateEnabled(n, t),
           NEW old_tip, NEW old_root, NEW cur
    PROVE  RetargetChained(n, next_required_ledger_to_sync(n, old_tip, old_root, cur, t))
<1> DEFINE root == RootOf(t)
           r == next_required_ledger_to_sync(n, old_tip, old_root, cur, t)
           parts == [RootTarget(root) EXCEPT !.state = "PartsFetchPending"]
           Set(p, l) == [n EXCEPT !.tip = t, !.root = root, !.root_updates = {},
                                  !.chain = NoChain, !.attempts = NoQueries,
                                  !.updates = NoUpdates, !.sync = p, !.ledger = l]
<1>1. n \in Store
  BY DEF Good, Wf
<1>2. LedgerTarget(n, r, t)
  BY NextRequiredGood
<1>3. \/ r = Set("StakingLedgerPending", SnarkedTarget(Staking[t]))
      \/ r = Set("NextEpochLedgerPending", SnarkedTarget(NextEpoch[t]))
      \/ r = Set("RootLedgerPending", parts)
      \/ r = Set("RootLedgerPending", RootTarget(root))
  BY <1>1 DEF next_required_ledger_to_sync, Store
<1>4. parts.staged = root /\ RootTarget(root).staged = root
  BY DEF RootTarget
<1> HIDE DEF r, parts, root
<1>5. /\ r.blacklist = n.blacklist /\ r.attempts = NoQueries /\ r.root_updates = {}
      /\ r.sync = "RootLedgerPending" => r.ledger.staged = root
  <2>1. ASSUME NEW p, NEW l, r = Set(p, l)
        PROVE  /\ r.blacklist = n.blacklist /\ r.attempts = NoQueries /\ r.root_updates = {}
               /\ r.sync = p /\ r.ledger = l
    BY <1>1, <2>1 DEF Store
  <2> HIDE DEF Set
  <2> QED
    BY <1>3, <1>4, <2>1
<1>6. RetargetChained(n, r)
  BY <1>2, <1>5, LedgerTargetChained DEF root
<1> QED
  BY <1>6 DEF r

(* A retarget to a chain whose blocks are next. *)
LEMMA BlocksTargetChained ==
    ASSUME NEW n, Good(n), Chained(n), NEW t \in Blocks, BestTipUpdateEnabled(n, t), NEW m,
           m.sync = "BlocksPending", m.best_chain = n.best_chain, m.blacklist = n.blacklist,
           InChain(m) = ChainOf(t),
           \A b \in Blocks : m.chain[b] = "ApplySuccess" =>
              b \in n.best_chain \/ n.chain[b] = "ApplySuccess",
           \A b \in Blocks, p \in Peers :
              m.attempts[b][p] = "Pending" /\ n.chain[b] = "FetchPending" =>
                 m.chain[b] = "FetchPending",
           \A b \in Blocks, p \in Peers :
              m.attempts[b][p] = "Pending" => n.attempts[b][p] = "Pending"
    PROVE  RetargetChained(n, m)
<1>1. Highest(InChain(m)) = t /\ ChainOf(t) \subseteq Ancestors[t]
  BY ChainOfEnds
<1>2. Linear(m) /\ Complete(m) /\ Rooted(m)
  BY <1>1 DEF Linear, Complete, Rooted, LedgerPhases
<1>3. sync_best_tip(m) = t /\ best_tip(m) = best_tip(n) /\ m.sync \notin LedgerPhases
  BY <1>1 DEF sync_best_tip, best_tip, LedgerPhases
<1>4. Wanted(m)
  BY <1>3, EnabledBetter DEF Wanted, Chained
<1>5. AppliedFrom(m)
  BY DEF AppliedFrom, Chained
<1>6. \A l : Backed(n, l) => Backed(m, l)
  BY DEF Backed
<1>7. \A r : Attempted(n, r) => Attempted(m, r)
  BY DEF Attempted
<1> QED
  BY <1>2, <1>4, <1>5, <1>6, <1>7 DEF RetargetChained, Chained

(* A better tip while blocks are fetched and applied. *)
LEMMA RetargetBlocksChained ==
    ASSUME NEW n, Good(n), Chained(n), n.sync = "BlocksPending", NEW t \in Blocks,
           BestTipUpdateEnabled(n, t)
    PROVE  RetargetChained(n, RetargetBlocks(n, t))
<1> DEFINE root == RootOf(t)
           applied == n.chain[root] = "ApplySuccess"
           below == {b \in InChain(n) : Height[b] =< Height[root] /\ n.chain[b] # "FetchPending"}
           ch == [b \in Blocks |-> IF b \notin ChainOf(t) THEN "None"
                                   ELSE push_block(n, b, b \in {root, t})]
           at == [b \in Blocks |-> IF ch[b] = "FetchPending" THEN n.attempts[b] ELSE NoQueries[b]]
           up == IF applied THEN extend_with_needed(n.updates, below) ELSE n.updates
           m == [n EXCEPT !.chain = ch, !.attempts = at, !.updates = up]
<1>1. n \in Store
  BY DEF Good, Wf
<1>2. CASE root \in n.best_chain \/ applied
  <2>1. m = RetargetBlocks(n, t)
    BY <1>1, <1>2 DEF RetargetBlocks, Store
  <2>2. ASSUME NEW b \in Blocks
        PROVE  /\ push_block(n, b, b \in {root, t}) # "None"
               /\ push_block(n, b, b \in {root, t}) = "ApplySuccess" =>
                     b \in n.best_chain \/ n.chain[b] = "ApplySuccess"
    BY <1>1 DEF push_block, BlockStates, Store
  <2>3. \A b \in Blocks : /\ ch[b] # "None" <=> b \in ChainOf(t)
                          /\ ch[b] = "ApplySuccess" => b \in n.best_chain \/ n.chain[b] = "ApplySuccess"
    BY <2>2
  <2> HIDE DEF ch, up
  <2>4. \A b \in Blocks, p \in Peers :
           at[b][p] = "Pending" => n.attempts[b][p] = "Pending" /\ ch[b] = "FetchPending"
    BY DEF NoQueries
  <2> HIDE DEF at
  <2>5. /\ m.sync = n.sync /\ m.chain = ch /\ m.best_chain = n.best_chain
        /\ m.blacklist = n.blacklist /\ m.attempts = at
    BY <1>1 DEF Store
  <2> HIDE DEF m
  <2>6. InChain(m) = ChainOf(t)
    BY <2>3, <2>5, ChainOfType DEF InChain
  <2>7. RetargetChained(n, m)
    BY <2>3, <2>4, <2>5, <2>6, BlocksTargetChained
  <2> QED
    BY <2>1, <2>7
<1>3. CASE ~(root \in n.best_chain \/ applied)
  BY <1>3, NextRequiredChained DEF RetargetBlocks
<1> QED
  BY <1>2, <1>3

(* A better tip when in sync. *)
LEMMA RetargetSyncedChained ==
    ASSUME NEW n, Good(n), Chained(n), n.sync = "Synced", NEW t \in Blocks,
           BestTipUpdateEnabled(n, t)
    PROVE  RetargetChained(n, RetargetSynced(n, t))
<1> DEFINE ch == [b \in Blocks |->
                    CASE b \notin ChainOf(t) -> "None"
                      [] b \in ChainOf(t) \cap n.best_chain -> "ApplySuccess"
                      [] b \in ChainOf(t) \ n.best_chain ->
                            IF b = t THEN "FetchSuccess" ELSE "FetchPending"]
           m == [n EXCEPT !.sync = "BlocksPending", !.chain = ch]
<1>1. n \in Store /\ n.chain = NoChain
  BY DEF Good, Wf, BlockPhases
<1>2. CASE RootOf(t) \in n.best_chain
  <2>1. m = RetargetSynced(n, t)
    BY <1>2 DEF RetargetSynced
  <2>2. \A b \in Blocks : /\ ch[b] # "None" <=> b \in ChainOf(t)
                          /\ ch[b] = "ApplySuccess" => b \in n.best_chain
    OBVIOUS
  <2> HIDE DEF ch
  <2>3. /\ m.sync = "BlocksPending" /\ m.chain = ch /\ m.best_chain = n.best_chain
        /\ m.blacklist = n.blacklist /\ m.attempts = n.attempts
    BY <1>1 DEF Store
  <2> HIDE DEF m
  <2>4. InChain(m) = ChainOf(t)
    BY <2>2, <2>3, ChainOfType DEF InChain
  <2>5. \A b \in Blocks : n.chain[b] # "FetchPending"
    BY <1>1 DEF NoChain
  <2>6. RetargetChained(n, m)
    BY <2>2, <2>3, <2>4, <2>5, BlocksTargetChained
  <2> QED
    BY <2>1, <2>6
<1>3. CASE RootOf(t) \notin n.best_chain
  BY <1>3, NextRequiredChained DEF RetargetSynced
<1> QED
  BY <1>2, <1>3

(* Whatever the phase. *)
LEMMA RetargetChain ==
    ASSUME NEW n, Good(n), Chained(n), n.sync # "BlocksSuccess", NEW t \in Blocks,
           BestTipUpdateEnabled(n, t)
    PROVE  RetargetChained(n, Retarget(n, t))
<1>1. CASE n.sync \in LedgerPhases
  <2>1. Retarget(n, t) = RetargetLedger(n, t)
    BY <1>1 DEF Retarget, LedgerPhases
  <2> QED
    BY <1>1, <2>1, RetargetLedgerChained
<1>2. CASE n.sync = "BlocksPending"
  <2>1. Retarget(n, t) = RetargetBlocks(n, t)
    BY <1>2 DEF Retarget, LedgerPhases
  <2> QED
    BY <1>2, <2>1, RetargetBlocksChained
<1>3. CASE n.sync = "Synced"
  <2>1. Retarget(n, t) = RetargetSynced(n, t)
    BY <1>3 DEF Retarget, LedgerPhases
  <2> QED
    BY <1>3, <2>1, RetargetSyncedChained
<1>4. n.sync \in SyncStates \ {"BlocksSuccess", "CommitPending"}
  BY DEF Good, Wf, Store, BestTipUpdateEnabled
<1> QED
  BY <1>1, <1>2, <1>3, <1>4 DEF SyncStates

-----------------------------------------------------------------------------
(* The ledger service. *)

(* More staged ledgers do no harm. *)
LEMMA StagedGrow ==
    ASSUME NEW n, NEW l, NEW k, \A b \in Blocks : HasStaged(l, b) => HasStaged(k, b)
    PROVE  Backed(n, l) => Backed(n, k)
BY DEF Backed

(* Preparing a snarked ledger leaves the staged ledgers alone. *)
LEMMA PrepareStaged ==
    ASSUME NEW l \in Service, NEW n, NEW previous_root
    PROVE  /\ Prepare(l, n, previous_root).staged = l.staged
           /\ Prepare(l, n, previous_root).sync_staged = l.sync_staged
<1>1. ASSUME NEW origins, NEW h
      PROVE  /\ CopyForSync(l, origins, h).staged = l.staged
             /\ CopyForSync(l, origins, h).sync_staged = l.sync_staged
  <2>1. \E c : CopyForSync(l, origins, h) \in
           {l, [l EXCEPT !.panic = "copy"], [l EXCEPT !.sync_snarked[h] = c]}
    BY DEF CopyForSync
  <2> QED
    BY <2>1 DEF Service
<1> QED
  BY <1>1 DEF Prepare

(* What a commit keeps of them: those of the committed blocks. *)
LEMMA CommitStaged ==
    ASSUME NEW l, NEW blocks, NEW updates, NEW b \in blocks, HasStaged(l, b)
    PROVE  HasStaged(CommitLedgers(l, blocks, updates), b)
BY DEF HasStaged, CommitLedgers, StagedToKeep

-----------------------------------------------------------------------------
(* The steps. *)

(* Initially the frontier is genesis, whose staged ledger is there. *)
LEMMA InitLinked == Init => Linked(node, ledgers, rpc)
<1> SUFFICES ASSUME Init PROVE Linked(node, ledgers, rpc)
  OBVIOUS
<1>1. /\ node.best_chain = {Genesis} /\ node.sync = "Synced" /\ node.chain = NoChain
      /\ node.attempts = NoQueries /\ ledgers.staged = {Genesis}
  BY DEF Init
<1>2. Chained(node)
  BY <1>1 DEF Chained, Linear, Complete, Rooted, Wanted, AppliedFrom, is_pending, NoChain,
     BlockPhases, LedgerPhases
<1>3. Backed(node, ledgers)
  BY <1>1 DEF Backed, HasStaged, NoChain
<1>4. Attempted(node, rpc)
  BY <1>1 DEF Attempted, NoQueries
<1> QED
  BY <1>2, <1>3, <1>4 DEF Linked

(* A better tip: the chain of the new target, the same frontier. *)
LEMMA BestTipUpdateLinked ==
    ASSUME ChainInv, NEW t \in Tips, BestTipUpdate(t)
    PROVE  Linked(node', ledgers', rpc') /\ node'.best_chain = node.best_chain
<1> DEFINE n == Retarget(node, t)
<1>1. /\ t \in Blocks /\ node.sync \notin {"BlocksSuccess", "CommitPending"}
      /\ BestTipUpdateEnabled(node, t) /\ Good(node) /\ ledgers \in Service
      /\ rpc \in [Peers -> Blocks \cup {NoBlock}]
      /\ Chained(node) /\ Backed(node, ledgers) /\ Attempted(node, rpc)
  BY LedgerAssumption DEF ChainInv, IInv, BestTipUpdate, BestTipUpdateEnabled, Linked
<1>2. Good(n) /\ RetargetChained(node, n)
  BY <1>1, RetargetGood, RetargetChain DEF Retargeted
<1>3. PICK q \in Queries(n, rpc) : /\ node' = BlocksNextApplyInit(QueryPending(n, q))
                                   /\ rpc' = SendRequests(rpc, q)
  BY DEF BestTipUpdate
<1>4. ledgers' = Prepare(ledgers, n, <<Snarked[best_root(node)]>>)
  BY DEF BestTipUpdate
<1> HIDE DEF n
<1>5. Asks(n, rpc, q)
  BY QueriesAsk
<1> DEFINE m == QueryPending(n, q)
<1>6. /\ Good(m) /\ Chained(m) /\ Backed(m, ledgers) /\ Attempted(m, rpc')
      /\ m.best_chain = n.best_chain
  BY <1>1, <1>2, <1>3, <1>5, QueryChained DEF RetargetChained
<1> HIDE DEF m
<1>7. Kept(m, node') /\ node'.attempts = m.attempts
  BY <1>3, <1>6, InitsKeep DEF m, Good, Wf
<1>8. Chained(node') /\ Backed(node', ledgers) /\ Attempted(node', rpc')
  BY <1>6, <1>7, KeptChained
<1>9. Backed(node', ledgers')
  <2>1. ledgers'.staged = ledgers.staged /\ ledgers'.sync_staged = ledgers.sync_staged
    BY <1>1, <1>4, PrepareStaged
  <2> QED
    BY <1>8, <2>1 DEF Backed, HasStaged
<1> QED
  BY <1>2, <1>6, <1>7, <1>8, <1>9 DEF Linked, Kept, RetargetChained

(* The next ledger to be synchronized is one of the same target. *)
LEMMA PhaseStepChained ==
    ASSUME NEW n, Good(n), Chained(n), n.sync \in LedgerPhases, NEW l,
           NEW p \in {"NextEpochLedgerPending", "RootLedgerPending"},
           p = "RootLedgerPending" => l.staged = n.root
    PROVE  LET m == PhaseStep(n, p, {}, l)
           IN  /\ Chained(m) /\ m.best_chain = n.best_chain
               /\ m.chain = n.chain /\ m.attempts = n.attempts
<1> DEFINE m == PhaseStep(n, p, {}, l)
<1>1. n \in Store /\ n.chain = NoChain /\ n.tip \in Blocks /\ n.root = RootOf(n.tip)
  BY DEF Good, Wf, Chained, Rooted, BlockPhases, LedgerPhases
<1>2. /\ m.sync = p /\ m.root_updates = {} /\ m.ledger = l
      /\ m.best_chain = n.best_chain /\ m.blacklist = n.blacklist /\ m.tip = n.tip
      /\ m.root = n.root /\ m.chain = n.chain /\ m.attempts = n.attempts
  BY <1>1 DEF PhaseStep, Store
<1> HIDE DEF m
<1>3. m.sync \in LedgerPhases /\ m.sync \notin BlockPhases /\ is_pending(m) /\ is_pending(n)
  BY <1>2 DEF LedgerPhases, BlockPhases, is_pending
<1>4. Linear(m) /\ Complete(m) /\ AppliedFrom(m)
  BY <1>1, <1>2, <1>3 DEF Linear, Complete, AppliedFrom, NoChain, BlockPhases
<1>5. Rooted(m)
  <2>1. n.root \in Blocks /\ n.root \in Roots
    BY <1>1, ChainOfEnds
  <2> QED
    BY <1>1, <1>2, <2>1, TreeAssumption DEF Rooted
<1>6. Wanted(m)
  BY <1>2, <1>3 DEF Chained, Wanted, best_tip, sync_best_tip, InChain
<1> QED
  BY <1>2, <1>4, <1>5, <1>6 DEF Chained, m

(* The parts of the root's staged ledger are wanted, or there. *)
LEMMA PartsKept ==
    ASSUME NEW n, Good(n), NEW s, [n EXCEPT !.ledger.state = s] \in Store
    PROVE  LET m == [n EXCEPT !.ledger.state = s]
           IN  /\ Kept(n, m) /\ m.attempts = n.attempts
               /\ Kept(m, ReconstructInit(m)) /\ ReconstructInit(m).attempts = m.attempts
<1> DEFINE l == [n.ledger EXCEPT !.state = s]
           m == [n EXCEPT !.ledger.state = s]
<1>1. n \in Store
  BY DEF Good, Wf
<1>2. m = [n EXCEPT !.ledger = l] /\ l.staged = n.ledger.staged
  BY <1>1 DEF Store
<1> HIDE DEF l, m
<1>3. m.ledger.staged = n.ledger.staged /\ \A f \in DOMAIN n \ {"ledger"} : m[f] = n[f]
  BY <1>1, <1>2 DEF Store
<1>4. Kept(n, m) /\ m.attempts = n.attempts
  BY <1>1, <1>3, FieldsKept
<1>5. Kept(m, ReconstructInit(m)) /\ ReconstructInit(m).attempts = m.attempts
  BY InitsKeep DEF m
<1> QED
  BY <1>4, <1>5 DEF m

(* A snarked ledger is complete. *)
LEMMA SnarkedLedgerSyncedLinked ==
    ASSUME ChainInv, SnarkedLedgerSynced
    PROVE  Linked(node', ledgers', rpc') /\ node'.best_chain = node.best_chain
<1> DEFINE l == [ledgers EXCEPT !.sync_snarked[node.ledger.snarked] = "Full"]
           needed == next_epoch_needed(node.tip, node.root)
           Step(phase, target) == PhaseStep(node, phase, {}, target)
<1>1. /\ Good(node) /\ Quiet(node) /\ node \in Store /\ node.sync \in LedgerPhases
      /\ node.ledger.state = "SnarkedPending" /\ rpc' = rpc /\ ledgers \in Service
      /\ Chained(node) /\ Backed(node, ledgers) /\ Attempted(node, rpc)
  BY DEF ChainInv, Linked, IInv, Good, Wf, SnarkedLedgerSynced
<1>2. l \in Service /\ l.staged = ledgers.staged /\ l.sync_staged = ledgers.sync_staged
  <2>1. node.ledger.snarked \in Ledgers
    BY <1>1 DEF Store
  <2>2. "Full" \in Contents /\ "none" \in Panics /\ {} \in SUBSET Blocks
    BY DEF Contents, Panics
  <2>3. l \in Service
    BY <1>1, <2>1, <2>2, ServiceUpdates
  <2> QED
    BY <1>1, <2>3 DEF Service
<1>3. ledgers' = IF node'.sync = node.sync THEN l ELSE Prepare(l, node', <<>>)
  BY DEF SnarkedLedgerSynced
<1> HIDE DEF l
<1>4. ledgers'.staged = ledgers.staged /\ ledgers'.sync_staged = ledgers.sync_staged
  BY <1>2, <1>3, PrepareStaged
<1>5. ASSUME NEW p \in {"NextEpochLedgerPending", "RootLedgerPending"}, NEW target,
             p = "RootLedgerPending" => target.staged = node.root,
             node' = Step(p, target)
      PROVE  Linked(node', ledgers', rpc') /\ node'.best_chain = node.best_chain
  <2>1. /\ Chained(node') /\ node'.best_chain = node.best_chain
        /\ node'.chain = node.chain /\ node'.attempts = node.attempts
    BY <1>1, <1>5, PhaseStepChained
  <2>2. Backed(node', ledgers')
    BY <1>1, <1>4, <2>1 DEF Backed, HasStaged
  <2>3. Attempted(node', rpc')
    BY <1>1, <2>1 DEF Attempted
  <2> QED
    BY <2>1, <2>2, <2>3 DEF Linked
<1>6. CASE node.sync = "StakingLedgerPending" /\ needed
  <2>1. node' = Step("NextEpochLedgerPending", SnarkedTarget(NextEpoch[node.tip]))
    BY <1>6 DEF SnarkedLedgerSynced, PhaseStep
  <2> HIDE DEF Step
  <2> QED
    BY <1>5, <2>1
<1>7. CASE \/ node.sync = "NextEpochLedgerPending"
           \/ node.sync = "StakingLedgerPending" /\ ~needed
  <2>1. node' = Step("RootLedgerPending", RootTarget(node.root))
    BY <1>7 DEF SnarkedLedgerSynced, PhaseStep
  <2>2. RootTarget(node.root).staged = node.root
    BY DEF RootTarget
  <2> HIDE DEF Step
  <2> QED
    BY <1>5, <2>1, <2>2
<1>8. CASE node.sync = "RootLedgerPending"
  <2> DEFINE Parts(s) == [node EXCEPT !.ledger.state = s]
  <2>1. node' = IF node.ledger.staged = Genesis
                THEN ReconstructInit(Parts("PartsFetchSuccess"))
                ELSE Parts("PartsFetchPending")
    BY <1>8 DEF SnarkedLedgerSynced
  <2>2. Parts("PartsFetchSuccess") \in Store /\ Parts("PartsFetchPending") \in Store
    BY <1>1, <1>8, PartsFetchedGood DEF Good, Wf
  <2>3. /\ Kept(node, Parts("PartsFetchPending"))
        /\ Parts("PartsFetchPending").attempts = node.attempts
        /\ Kept(node, Parts("PartsFetchSuccess"))
        /\ Parts("PartsFetchSuccess").attempts = node.attempts
        /\ Kept(Parts("PartsFetchSuccess"), ReconstructInit(Parts("PartsFetchSuccess")))
        /\ ReconstructInit(Parts("PartsFetchSuccess")).attempts = node.attempts
    BY <1>1, <2>2, PartsKept
  <2> HIDE DEF Parts
  <2>4. \E m : Kept(node, m) /\ m.attempts = node.attempts
               /\ Kept(m, node') /\ node'.attempts = node.attempts
    <3>1. Kept(node', node')
      BY DEF Kept
    <3> QED
      BY <2>1, <2>3, <3>1
  <2>5. Linked(node', ledgers, rpc') /\ node'.best_chain = node.best_chain
    <3>1. PICK m : Kept(node, m) /\ m.attempts = node.attempts
                   /\ Kept(m, node') /\ node'.attempts = node.attempts
      BY <2>4
    <3>2. Linked(m, ledgers, rpc) /\ m.best_chain = node.best_chain
      BY <1>1, <3>1, KeptChained DEF Linked, Kept
    <3> QED
      BY <1>1, <3>1, <3>2, KeptChained DEF Linked, Kept
  <2> QED
    BY <1>4, <2>5 DEF Linked, Backed, HasStaged
<1> QED
  BY <1>1, <1>6, <1>7, <1>8 DEF LedgerPhases

(* The parts of the staged ledger have arrived. *)
LEMMA StagedLedgerPartsFetchedLinked ==
    ASSUME ChainInv, StagedLedgerPartsFetched
    PROVE  Linked(node', ledgers', rpc') /\ node'.best_chain = node.best_chain
<1> DEFINE m == [node EXCEPT !.ledger.state = "PartsFetchSuccess"]
<1>1. Good(node) /\ Quiet(node) /\ node.sync = "RootLedgerPending"
  BY DEF ChainInv, IInv, Good, Wf, StagedLedgerPartsFetched, LedgerPhases
<1>2. m \in Store
  BY <1>1, PartsFetchedGood DEF Good, Wf, StagedLedgerPartsFetched
<1>3. /\ node' = ReconstructInit(m) /\ ledgers' = ledgers /\ rpc' = rpc
      /\ Kept(node, m) /\ m.attempts = node.attempts
      /\ Kept(m, node') /\ node'.attempts = m.attempts
  BY <1>1, <1>2, PartsKept DEF StagedLedgerPartsFetched
<1> HIDE DEF m
<1>4. Linked(m, ledgers, rpc) /\ m.best_chain = node.best_chain
  BY <1>3, KeptChained DEF ChainInv, Linked, Kept
<1> QED
  BY <1>3, <1>4, KeptChained DEF Linked, Kept

(* A block has arrived, and other blocks are asked for. *)
LEMMA BlockRpcSuccessLinked ==
    ASSUME ChainInv, NEW p \in Peers, BlockRpcSuccess(p)
    PROVE  Linked(node', ledgers', rpc') /\ node'.best_chain = node.best_chain
<1> DEFINE n == BlocksFetchSuccess(node, p, rpc[p])
           r == [rpc EXCEPT ![p] = NoBlock]
<1>1. /\ rpc[p] \in Blocks /\ rpc \in [Peers -> Blocks \cup {NoBlock}] /\ Good(node)
      /\ Chained(node) /\ Backed(node, ledgers) /\ Attempted(node, rpc) /\ ledgers' = ledgers
  BY DEF ChainInv, IInv, Linked, BlockRpcSuccess
<1>2. PICK q \in Queries(n, r) : /\ node' \in {QueryPending(n, q), BlocksNextApplyInit(QueryPending(n, q))}
                                 /\ rpc' = SendRequests(r, q)
  BY DEF BlockRpcSuccess
<1>3. /\ Good(n) /\ Chained(n) /\ Backed(n, ledgers) /\ Attempted(n, r)
      /\ n.best_chain = node.best_chain
  BY <1>1, FetchSuccessGood, FetchSuccessChained
<1>4. r \in [Peers -> Blocks \cup {NoBlock}]
  BY <1>1
<1> HIDE DEF n, r
<1> DEFINE m == QueryPending(n, q)
<1>5. /\ Good(m) /\ Chained(m) /\ Backed(m, ledgers) /\ Attempted(m, rpc')
      /\ m.best_chain = n.best_chain
  BY <1>2, <1>3, <1>4, QueriesAsk, QueryChained
<1> HIDE DEF m
<1>6. Kept(m, node') /\ node'.attempts = m.attempts
  <2>1. node' \in {m, BlocksNextApplyInit(m)}
    BY <1>2 DEF m
  <2>2. Kept(m, m)
    BY DEF Kept
  <2> QED
    BY <1>5, <2>1, <2>2, InitsKeep DEF Good, Wf
<1> QED
  BY <1>1, <1>3, <1>5, <1>6, KeptChained DEF Linked, Kept

(* An attempt has failed, and blocks are asked for again. *)
LEMMA BlockRpcErrorLinked ==
    ASSUME ChainInv, NEW p \in Peers, BlockRpcError(p)
    PROVE  Linked(node', ledgers', rpc') /\ node'.best_chain = node.best_chain
<1> DEFINE n == BlocksPeerQueryError(node, p, rpc[p])
           r == [rpc EXCEPT ![p] = NoBlock]
<1>1. /\ rpc[p] \in Blocks /\ rpc \in [Peers -> Blocks \cup {NoBlock}] /\ Good(node)
      /\ Chained(node) /\ Backed(node, ledgers) /\ Attempted(node, rpc) /\ ledgers' = ledgers
  BY DEF ChainInv, IInv, Linked, BlockRpcError
<1>2. PICK q \in Queries(n, r) : node' = QueryPending(n, q) /\ rpc' = SendRequests(r, q)
  BY DEF BlockRpcError
<1>3. Good(n) /\ Kept(node, n) /\ Attempted(n, r)
  BY <1>1, QueryErrorGood, QueryErrorChained
<1>4. r \in [Peers -> Blocks \cup {NoBlock}]
  BY <1>1
<1> HIDE DEF n, r
<1>5. Chained(n) /\ Backed(n, ledgers) /\ n.best_chain = node.best_chain
  BY <1>1, <1>3, KeptChained DEF Kept
<1> QED
  BY <1>1, <1>2, <1>3, <1>4, <1>5, QueriesAsk, QueryChained DEF Linked

(* A faulty peer is free again although its attempt is pending. *)
LEMMA BlockRpcUnusableLinked ==
    ASSUME ChainInv, NEW p \in Faulty, BlockRpcUnusable(p)
    PROVE  Linked(node', ledgers', rpc') /\ node'.best_chain = node.best_chain
<1> DEFINE r == [rpc EXCEPT ![p] = NoBlock]
<1>1. /\ rpc \in [Peers -> Blocks \cup {NoBlock}] /\ Good(node)
      /\ Chained(node) /\ Backed(node, ledgers) /\ Attempted(node, rpc) /\ ledgers' = ledgers
  BY DEF ChainInv, IInv, Linked, BlockRpcUnusable
<1>2. PICK q \in Queries(node, r) : node' = QueryPending(node, q) /\ rpc' = SendRequests(r, q)
  BY DEF BlockRpcUnusable
<1>3. r \in [Peers -> Blocks \cup {NoBlock}] /\ Attempted(node, r)
  BY <1>1 DEF Attempted
<1> HIDE DEF r
<1> QED
  BY <1>1, <1>2, <1>3, QueriesAsk, QueryChained DEF Linked

(* The attempts at a disconnected peer have failed, and blocks are asked for *)
(* elsewhere.                                                                *)
LEMMA PeerDisconnectedLinked ==
    ASSUME ChainInv, NEW p \in Peers, PeerDisconnected(p)
    PROVE  Linked(node', ledgers', rpc') /\ node'.best_chain = node.best_chain
<1> DEFINE n == QueriesDisconnected(node, p)
           r == [rpc EXCEPT ![p] = NoBlock]
<1>1. /\ rpc \in [Peers -> Blocks \cup {NoBlock}] /\ Good(node)
      /\ Chained(node) /\ Backed(node, ledgers) /\ Attempted(node, rpc) /\ ledgers' = ledgers
  BY DEF ChainInv, IInv, Linked, PeerDisconnected
<1>2. PICK q \in UNION {RequestsFor(B, r) : B \in SUBSET Missing(n)} :
         node' = QueryPending(n, q) /\ rpc' = SendRequests(r, q)
  BY DEF PeerDisconnected
<1>3. Good(n) /\ Kept(node, n) /\ Attempted(n, r)
  BY <1>1, DisconnectedChained
<1>4. r \in [Peers -> Blocks \cup {NoBlock}]
  BY <1>1
<1> HIDE DEF n, r
<1>5. Asks(n, r, q)
  BY DEF RequestsFor, Missing, Asks, is_retry, is_next, can_send_request
<1>6. Chained(n) /\ Backed(n, ledgers) /\ n.best_chain = node.best_chain
  BY <1>1, <1>3, KeptChained DEF Kept
<1> QED
  BY <1>1, <1>2, <1>3, <1>4, <1>5, <1>6, QueryChained DEF Linked

(* A peer can be asked for blocks. *)
LEMMA PeerReadyLinked ==
    ASSUME ChainInv, PeerReady
    PROVE  Linked(node', ledgers', rpc') /\ node'.best_chain = node.best_chain
<1>1. PICK q \in Queries(node, rpc) : node' = QueryPending(node, q) /\ rpc' = SendRequests(rpc, q)
  BY DEF PeerReady
<1>2. Asks(node, rpc, q)
  BY QueriesAsk
<1> QED
  BY <1>1, <1>2, QueryChained DEF ChainInv, IInv, Linked, PeerReady

(* The block producer's slot has come. *)
LEMMA WonSlotProduceInitLinked ==
    ASSUME ChainInv, WonSlotProduceInit
    PROVE  Linked(node', ledgers', rpc') /\ node'.best_chain = node.best_chain
<1>1. node \in Store /\ node.best_chain \in SUBSET Blocks /\ node.best_chain # {}
  BY DEF ChainInv, IInv, Good, Wf, Store
<1>2. PICK b \in Blocks :
         node' = StagedLedgerDiffCreateInit(
                   [node EXCEPT !.producer = [state |-> "WonSlotTransactionsSuccess", pred |-> b]])
  BY <1>1, HighestIn DEF WonSlotProduceInit, best_tip
<1> DEFINE pr == [state |-> "WonSlotTransactionsSuccess", pred |-> b]
           m == [node EXCEPT !.producer = pr]
<1>3. pr \in [state : ProducerStates, pred : Blocks \cup {NoBlock}]
  BY DEF ProducerStates
<1> HIDE DEF pr
<1>4. m \in Store /\ \A f \in DOMAIN node \ {"producer"} : m[f] = node[f]
  BY <1>1, <1>3 DEF Store
<1>5. node' = StagedLedgerDiffCreateInit(m)
  BY <1>2 DEF pr
<1> HIDE DEF m
<1>6. Kept(node, m) /\ m.attempts = node.attempts
  BY <1>1, <1>4, FieldsKept DEF Store
<1>7. Kept(m, node') /\ node'.attempts = m.attempts
  BY <1>4, <1>5, InitsKeep
<1>8. Linked(m, ledgers, rpc) /\ m.best_chain = node.best_chain
  BY <1>6, KeptChained DEF ChainInv, Linked, Kept
<1> QED
  BY <1>7, <1>8, KeptChained DEF Linked, Kept, WonSlotProduceInit

-----------------------------------------------------------------------------
(* The answers of the ledger service. *)

(* The last block is applied: what is left of the chain is a chain proof.    *)
LEMMA BlocksSuccessChained ==
    ASSUME NEW n, Good(n), n.writer = Idle, n.sync = "BlocksPending", Chained(n)
    PROVE  LET m == BlocksSuccess(n)
           IN  /\ Chained(m) /\ m.best_chain = n.best_chain
               /\ \A l : Backed(n, l) => Backed(m, l)
               /\ \A r : Attempted(n, r) => Attempted(m, r)
<1>1. CASE \A b \in InChain(n) : n.chain[b] = "ApplySuccess"
  <2> DEFINE top == Highest(InChain(n))
             low == Height[top] - K
             cut == [b \in Blocks |-> IF Height[b] < low THEN "None" ELSE n.chain[b]]
             m   == [n EXCEPT !.sync = "BlocksSuccess", !.chain = cut]
  <2>1. n \in Store /\ InChain(n) \in SUBSET Blocks /\ InChain(n) # {}
    BY DEF Good, Wf, InChain, BlockPhases
  <2>2. top \in InChain(n) /\ top \in Blocks
    BY <2>1, HighestIn
  <2>3. BlocksSuccess(n) = CommitInit(m)
    <3>1. m = [n EXCEPT !.sync = "BlocksSuccess",
                        !.chain = [b \in Blocks |-> IF Height[b] < low THEN "None" ELSE @[b]]]
      BY <2>1 DEF Store
    <3> QED
      BY <1>1, <3>1 DEF BlocksSuccess
  <2>4. ChainOf(top) \subseteq InChain(n) /\ InChain(n) \subseteq Ancestors[top]
    BY DEF Chained, Linear, BlockPhases
  <2> HIDE DEF top
  <2>5. \A b \in Blocks : cut[b] = IF b \in ChainOf(top) THEN "ApplySuccess" ELSE "None"
    <3> TAKE b \in Blocks
    <3>1. Height[b] \in Int /\ low \in Int
      BY <2>2, TreeAssumption, ConstantsAssumption
    <3>2. CASE b \in ChainOf(top)
      BY <1>1, <2>4, <3>1, <3>2 DEF ChainOf
    <3>3. CASE b \notin ChainOf(top)
      BY <2>4, <3>1, <3>3 DEF ChainOf, InChain
    <3> QED
      BY <3>2, <3>3
  <2>6. cut \in [Blocks -> BlockStates]
    BY <2>1 DEF Store, BlockStates
  <2> HIDE DEF cut
  <2>7. /\ m \in Store /\ m.sync = "BlocksSuccess" /\ m.chain = cut /\ m.best_chain = n.best_chain
        /\ m.blacklist = n.blacklist /\ m.attempts = n.attempts
    BY <2>1, <2>6 DEF Store, SyncStates
  <2> HIDE DEF m
  <2>8. InChain(m) = ChainOf(top) /\ Highest(ChainOf(top)) = top /\ ChainOf(top) \subseteq Ancestors[top]
    BY <2>2, <2>5, <2>7, ChainOfEnds DEF InChain
  <2>9. Chained(m)
    <3>1. Linear(m) /\ Complete(m) /\ Rooted(m)
      BY <2>5, <2>7, <2>8 DEF Linear, Complete, Rooted, LedgerPhases, InChain
    <3>2. Wanted(m)
      <4>1. sync_best_tip(m) = top /\ sync_best_tip(n) = top /\ best_tip(m) = best_tip(n)
        BY <2>7, <2>8 DEF sync_best_tip, best_tip, LedgerPhases, top
      <4>2. is_pending(n) /\ m.sync \notin LedgerPhases
        BY <2>7 DEF is_pending, LedgerPhases
      <4> QED
        BY <2>4, <2>7, <2>8, <4>1, <4>2 DEF Chained, Wanted
    <3>3. AppliedFrom(m)
      BY <1>1, <2>4, <2>5, <2>7 DEF Chained, AppliedFrom
    <3> QED
      BY <3>1, <3>2, <3>3 DEF Chained
  <2>10. \A l : Backed(n, l) => Backed(m, l)
    BY <1>1, <2>4, <2>5, <2>7 DEF Backed
  <2>11. \A r : Attempted(n, r) => Attempted(m, r)
    <3>1. \A b \in Blocks : n.chain[b] # "FetchPending"
      BY <1>1 DEF InChain
    <3> QED
      BY <2>7, <3>1 DEF Attempted
  <2>12. Kept(m, CommitInit(m)) /\ CommitInit(m).attempts = m.attempts
    BY <2>7, InitsKeep
  <2> QED
    BY <2>3, <2>7, <2>9, <2>10, <2>11, <2>12, KeptChained DEF Kept
<1>2. CASE ~ \A b \in InChain(n) : n.chain[b] = "ApplySuccess"
  <2>1. BlocksSuccess(n) = n
    BY <1>2 DEF BlocksSuccess
  <2> QED
    BY <2>1
<1> QED
  BY <1>1, <1>2

(* The ledger service has applied a block. *)
LEMMA AppliedChained ==
    ASSUME NEW n, Good(n), n.sync # "BlocksSuccess", Chained(n),
           NEW b \in Blocks, n.writer = BlockApply(b), b \in Applies
    PROVE  LET m == BlocksNextApplySuccess(Answered(n), b)
           IN  /\ Chained(m) /\ m.best_chain = n.best_chain
               /\ \A l : HasStaged(l, b) /\ Backed(n, l) => Backed(m, l)
               /\ \A r : Attempted(n, r) => Attempted(m, r)
<1> DEFINE a == Answered(n)
<1>1. n \in Store /\ Wf(n)
  BY DEF Good, Wf
<1>2. Kept(n, a) /\ a.attempts = n.attempts /\ Wf(a) /\ a.writer = Idle /\ a.chain = n.chain
      /\ a.sync = n.sync /\ a.ledger = n.ledger
  BY <1>1, InitsKeep, AnsweredWf DEF Store
<1>3. /\ \A c \in Blocks \ {b} : a.chain[c] # "ApplyPending"
      /\ a.ledger.state # "ReconstructPending"
      /\ a.sync # "CommitPending"
  <2>1. \A c \in Blocks : BlockApply(c) = BlockApply(b) => c = b
    BY DEF BlockApply
  <2>2. BlockApply(b).kind = "BlockApply" /\ BlockApply(b) # Reconstruct(n.ledger.staged)
    BY DEF BlockApply, Reconstruct
  <2> QED
    BY <1>2, <2>1, <2>2 DEF Good, Matched
<1> HIDE DEF a
<1>4. /\ Chained(a) /\ a.best_chain = n.best_chain /\ \A l : Backed(n, l) => Backed(a, l)
      /\ \A r : Attempted(n, r) => Attempted(a, r)
  BY <1>2, KeptChained DEF Kept
<1>5. CASE a.chain[b] # "ApplyPending"
  <2>1. BlocksNextApplySuccess(a, b) = a
    BY <1>5 DEF BlocksNextApplySuccess, blocks_apply_pending
  <2> QED
    BY <1>4, <2>1 DEF a
<1>6. CASE a.chain[b] = "ApplyPending"
  <2> DEFINE ch == [a.chain EXCEPT ![b] = "ApplySuccess"]
             m  == [a EXCEPT !.chain = ch]
  <2>1. a \in Store /\ a.sync = "BlocksPending" /\ a.ledger.state = "None"
    BY <1>2, <1>3, <1>6 DEF Wf, NoChain, BlockPhases, LedgerPhases
  <2>2. BlocksNextApplySuccess(a, b) =
           IF blocks_apply_next(m) # {} THEN BlocksNextApplyInit(m) ELSE BlocksSuccess(m)
    <3>1. m = [a EXCEPT !.chain[b] = "ApplySuccess"] /\ b \in blocks_apply_pending(a)
      BY <1>6, <2>1 DEF Store, blocks_apply_pending
    <3> QED
      BY <3>1 DEF BlocksNextApplySuccess
  <2>3. /\ ch \in [Blocks -> BlockStates] /\ ch[b] = "ApplySuccess"
        /\ \A c \in Blocks \ {b} : ch[c] = a.chain[c]
        /\ \A c \in Blocks : ch[c] # "ApplyPending"
    BY <1>3, <2>1 DEF Store, BlockStates
  <2> HIDE DEF ch
  <2>4. /\ m \in Store /\ m.chain = ch /\ m.writer = Idle /\ m.attempts = a.attempts
        /\ m.sync = "BlocksPending" /\ m.best_chain = a.best_chain /\ m.blacklist = a.blacklist
        /\ m.ledger = a.ledger /\ m.producer = a.producer
    BY <1>2, <2>1, <2>3 DEF Store
  <2> HIDE DEF m
  <2>5. InChain(m) = InChain(a)
    BY <1>6, <2>3, <2>4 DEF InChain
  <2>6. Good(m)
    <3>1. Wf(m)
      BY <1>2, <2>1, <2>4, <2>5 DEF Wf, BlockPhases, LedgerPhases
    <3> QED
      BY <2>1, <2>3, <2>4, <3>1, IdleMatched
  <2>7. Chained(m)
    <3>1. Linear(m) /\ Complete(m) /\ Rooted(m)
      BY <1>4, <2>1, <2>4, <2>5 DEF Chained, Linear, Complete, Rooted, LedgerPhases
    <3>2. Wanted(m)
      BY <1>4, <2>1, <2>4, <2>5 DEF Chained, Wanted, is_pending, best_tip, sync_best_tip,
         LedgerPhases
    <3>3. AppliedFrom(m)
      BY <1>4, <2>3, <2>4 DEF Chained, AppliedFrom
    <3> QED
      BY <3>1, <3>2, <3>3 DEF Chained
  <2>8. \A l : HasStaged(l, b) /\ Backed(a, l) => Backed(m, l)
    BY <2>3, <2>4 DEF Backed
  <2>9. \A r : Attempted(a, r) => Attempted(m, r)
    BY <1>6, <2>3, <2>4 DEF Attempted
  <2>10. Kept(m, BlocksNextApplyInit(m)) /\ BlocksNextApplyInit(m).attempts = m.attempts
    BY <2>4, InitsKeep
  <2> DEFINE o == BlocksNextApplySuccess(a, b)
  <2>11. CASE blocks_apply_next(m) # {}
    <3>1. Kept(m, o) /\ o.attempts = m.attempts
      BY <2>2, <2>10, <2>11
    <3> HIDE DEF o
    <3>2. /\ Chained(o) /\ o.best_chain = m.best_chain /\ \A l : Backed(m, l) => Backed(o, l)
          /\ \A r : Attempted(m, r) => Attempted(o, r)
      BY <2>7, <3>1, KeptChained DEF Kept
    <3> QED
      BY <1>4, <2>4, <2>8, <2>9, <3>2 DEF o, a
  <2>12. CASE blocks_apply_next(m) = {}
    <3>1. o = BlocksSuccess(m)
      BY <2>2, <2>12
    <3> HIDE DEF o
    <3>2. /\ Chained(o) /\ o.best_chain = m.best_chain /\ \A l : Backed(m, l) => Backed(o, l)
          /\ \A r : Attempted(m, r) => Attempted(o, r)
      BY <2>4, <2>6, <2>7, <3>1, BlocksSuccessChained
    <3> QED
      BY <1>4, <2>4, <2>8, <2>9, <3>2 DEF o, a
  <2> QED
    BY <2>11, <2>12
<1> QED
  BY <1>5, <1>6

(* The ledger service has refused a block. *)
LEMMA RefusedChained ==
    ASSUME NEW n, Good(n), Chained(n), NEW b \in Blocks
    PROVE  LET m == BlocksNextApplyError(Answered(n), b)
           IN  /\ Chained(m) /\ m.best_chain = n.best_chain
               /\ \A l : Backed(n, l) => Backed(m, l)
               /\ \A r : Attempted(n, r) => Attempted(m, r)
<1> DEFINE a == Answered(n)
<1>1. n \in Store /\ Wf(n)
  BY DEF Good, Wf
<1>2. Kept(n, a) /\ a.attempts = n.attempts /\ a \in Store
  BY <1>1, InitsKeep, AnsweredWf DEF Wf
<1> HIDE DEF a
<1>3. /\ Chained(a) /\ a.best_chain = n.best_chain /\ \A l : Backed(n, l) => Backed(a, l)
      /\ \A r : Attempted(n, r) => Attempted(a, r)
  BY <1>2, KeptChained DEF Kept
<1> DEFINE m == BlocksNextApplyError(a, b)
<1>4. CASE b \notin blocks_apply_pending(a)
  <2>1. m = a
    BY <1>4 DEF BlocksNextApplyError
  <2> QED
    BY <1>3, <2>1 DEF a
<1>5. CASE b \in blocks_apply_pending(a)
  <2>1. /\ m.sync = "Synced" /\ m.chain = NoChain /\ m.attempts = NoQueries
        /\ m.best_chain = a.best_chain
    BY <1>2, <1>5 DEF BlocksNextApplyError, Store
  <2> HIDE DEF m
  <2>2. Chained(m)
    BY <2>1 DEF Chained, Linear, Complete, Rooted, Wanted, AppliedFrom, is_pending, NoChain,
       BlockPhases, LedgerPhases
  <2>3. \A l : Backed(a, l) => Backed(m, l)
    BY <2>1 DEF Backed, NoChain
  <2>4. \A r : Attempted(m, r)
    BY <2>1 DEF Attempted, NoQueries
  <2> QED
    BY <1>3, <2>1, <2>2, <2>3, <2>4 DEF m, a
<1> QED
  BY <1>4, <1>5

(* An answer to BlockApply. *)
LEMMA BlockApplyDoneLinked ==
    ASSUME ChainInv, BlockApplyDone
    PROVE  Linked(node', ledgers', rpc') /\ node'.best_chain = node.best_chain
<1> DEFINE b == node.writer.block
           good == BlocksNextApplySuccess(Answered(node), b)
           bad == BlocksNextApplyError(Answered(node), b)
<1>1. /\ Good(node) /\ node.sync # "BlocksSuccess" /\ ledgers \in Service /\ rpc' = rpc
      /\ Chained(node) /\ Backed(node, ledgers) /\ Attempted(node, rpc)
  BY DEF ChainInv, IInv, Linked, BlockApplyDone
<1>2. b \in Blocks /\ node.writer = BlockApply(b)
  BY <1>1, RequestKinds DEF Good, Wf, Store, BlockApplyDone
<1>3. Good(good) /\ Good(bad)
  BY <1>1, <1>2, BlockAppliedGood
<1>4. CASE BlockApplyOk(ledgers, b)
  <2>1. ledgers' = [ledgers EXCEPT !.sync_staged = ledgers.sync_staged \cup {b}]
        /\ node' = AfterWrite(good)
    BY <1>1, <1>4 DEF BlockApplyDone, Service
  <2>2. ledgers'.staged = ledgers.staged /\ ledgers'.sync_staged = ledgers.sync_staged \cup {b}
    BY <1>1, <2>1 DEF Service
  <2>3. HasStaged(ledgers', b) /\ Backed(node, ledgers')
    BY <1>1, <2>2 DEF HasStaged, Backed
  <2>4. b \in Applies
    BY <1>4 DEF BlockApplyOk
  <2> HIDE DEF b
  <2>5. Linked(good, ledgers', rpc) /\ good.best_chain = node.best_chain
    BY <1>1, <1>2, <2>3, <2>4, AppliedChained DEF Linked
  <2> HIDE DEF good
  <2> QED
    BY <1>1, <1>3, <2>1, <2>5, AfterWriteChained DEF Linked
<1>5. CASE ~BlockApplyOk(ledgers, b)
  <2>1. ledgers' = ledgers /\ node' = AfterWrite(bad)
    BY <1>5 DEF BlockApplyDone
  <2> HIDE DEF b
  <2>2. Linked(bad, ledgers, rpc) /\ bad.best_chain = node.best_chain
    BY <1>1, <1>2, RefusedChained DEF Linked
  <2> HIDE DEF bad
  <2> QED
    BY <1>1, <1>3, <2>1, <2>2, AfterWriteChained DEF Linked
<1> QED
  BY <1>4, <1>5

(* The frontier has been committed: its blocks were all applied, and nothing *)
(* is asked for any more.                                                    *)
LEMMA CommitDoneLinked ==
    ASSUME ChainInv, CommitDone
    PROVE  /\ Linked(node', ledgers', rpc')
           /\ node.sync = "CommitPending" /\ node'.best_chain = InChain(node)
<1> DEFINE a == Answered(node)
<1>1. /\ Good(node) /\ node \in Store /\ Wf(node) /\ node.sync = "CommitPending"
      /\ node.writer.blocks = InChain(node) /\ rpc' = rpc
      /\ Chained(node) /\ Backed(node, ledgers) /\ Attempted(node, rpc)
  BY DEF ChainInv, IInv, Linked, Good, Wf, Matched, CommitDone
<1>2. PICK discard \in BOOLEAN : node' = AfterWrite(Synced(a, discard))
  BY <1>1 DEF CommitDone
<1> DEFINE m == Synced(a, discard)
<1>3. Good(m)
  BY <1>1, SyncedGood
<1>4. a \in Store /\ InChain(a) = InChain(node) /\ a.attempts = node.attempts
  BY <1>1, AnsweredWf, InitsKeep DEF Wf
<1> HIDE DEF a
<1>5. /\ m.best_chain = InChain(node) /\ m.sync = "Synced" /\ m.chain = NoChain
      /\ m.attempts = node.attempts
  BY <1>4 DEF Synced, Store
<1> HIDE DEF m
<1>6. \A b \in InChain(node) : node.chain[b] = "ApplySuccess"
  BY <1>1 DEF Chained, Complete
<1>7. Chained(m)
  BY <1>5 DEF Chained, Linear, Complete, Rooted, Wanted, AppliedFrom, is_pending, NoChain,
     BlockPhases, LedgerPhases
<1>8. Backed(m, ledgers')
  <2>1. ledgers' = CommitLedgers(ledgers, InChain(node), node.writer.updates)
    BY <1>1 DEF CommitDone
  <2>2. ASSUME NEW b \in Blocks, b \in InChain(node) PROVE HasStaged(ledgers', b)
    BY <1>1, <1>6, <2>1, <2>2, CommitStaged DEF Backed
  <2> QED
    BY <1>5, <2>2 DEF Backed, NoChain
<1>9. Attempted(m, rpc)
  <2>1. \A b \in Blocks : node.chain[b] # "FetchPending"
    BY <1>6 DEF InChain
  <2> QED
    BY <1>1, <1>5, <2>1 DEF Attempted
<1> QED
  BY <1>1, <1>2, <1>3, <1>5, <1>7, <1>8, <1>9, AfterWriteChained DEF Linked, m

(* The root has been reconstructed: its chain, and the roots before it, are  *)
(* a branch whose lowest block is the one that was reconstructed.            *)
LEMMA BlocksPendingChained ==
    ASSUME NEW n, Good(n), Chained(n), n.ledger.state = "ReconstructPending"
    PROVE  LET m == BlocksPending(Answered(n))
           IN  /\ Chained(m) /\ m.best_chain = n.best_chain
               /\ \A l : HasStaged(l, n.ledger.staged) /\ Backed(n, l) => Backed(m, l)
               /\ \A r : Attempted(n, r) => Attempted(m, r)
<1> DEFINE a == Answered(n)
           m == BlocksPending(a)
           roots == a.root_updates \cup {a.root}
           applied == Lowest(roots)
           between == ChainOf(a.tip) \ {a.root, a.tip}
           ch == [b \in Blocks |->
                    CASE b = applied -> "ApplySuccess"
                      [] b \in (roots \cup {a.tip}) \ {applied} -> "FetchSuccess"
                      [] b \in between \ roots -> IF b \in a.best_chain THEN "ApplySuccess"
                                          ELSE "FetchPending"
                      [] OTHER -> "None"]
           up == extend_with_needed(NoUpdates, roots)
<1>1. n \in Store /\ Wf(n)
  BY DEF Good, Wf
<1>2. n.sync = "RootLedgerPending" /\ n.tip \in Blocks /\ n.root \in Blocks /\ n.chain = NoChain
  BY <1>1 DEF Wf, LedgerPhases, BlockPhases
<1>3. /\ a \in Store /\ a.tip = n.tip /\ a.root = n.root /\ a.root_updates = n.root_updates
      /\ a.best_chain = n.best_chain /\ a.blacklist = n.blacklist /\ a.attempts = n.attempts
  <2>1. a \in Store /\ \A f \in DOMAIN n \ {"writer"} : a[f] = n[f]
    BY <1>1, AnsweredWf DEF Wf
  <2> QED
    BY <1>1, <2>1 DEF Store
<1> HIDE DEF a
<1>4. m = [a EXCEPT !.sync = "BlocksPending", !.tip = NoBlock, !.root = NoBlock,
                    !.root_updates = {}, !.ledger = NoLedgerSync, !.chain = ch, !.updates = up]
  BY DEF BlocksPending
<1> HIDE DEF ch, up
<1>5. /\ m.sync = "BlocksPending" /\ m.chain = ch /\ m.best_chain = n.best_chain
      /\ m.blacklist = n.blacklist /\ m.attempts = n.attempts
  BY <1>3, <1>4 DEF Store
<1> HIDE DEF m
<1>6. /\ n.root = RootOf(n.tip) /\ n.root_updates \subseteq Ancestors[n.root]
      /\ n.ledger.staged \in n.root_updates \cup {n.root} /\ n.ledger.staged \in Roots
      /\ \A b \in n.root_updates \cup {n.root} : Height[n.ledger.staged] =< Height[b]
  BY <1>2 DEF Chained, Rooted, LedgerPhases
<1>7. n.root \in ChainOf(n.tip) /\ n.tip \in ChainOf(n.tip) /\ ChainOf(n.tip) \subseteq Ancestors[n.tip]
      /\ ChainOf(n.tip) \in SUBSET Blocks
  BY <1>2, <1>6, ChainOfEnds
<1>8. applied = n.ledger.staged /\ applied \in roots
  <2>1. roots \in SUBSET Ancestors[n.root]
    BY <1>2, <1>3, <1>6, TreeAssumption
  <2> QED
    BY <1>2, <1>3, <1>6, <2>1, RootOfBranch
<1>9. roots \in SUBSET Ancestors[n.tip] /\ roots \in SUBSET Blocks
  BY <1>2, <1>3, <1>6, <1>7, TreeAssumption
<1> HIDE DEF roots, applied
<1>10. roots \cap n.blacklist = {} /\ ChainOf(n.tip) \cap n.blacklist = {}
       /\ consensus_take(best_tip(n), n.tip)
  <2>1. is_pending(n) /\ sync_best_tip(n) = n.tip /\ n.sync \in LedgerPhases
    BY <1>2 DEF is_pending, sync_best_tip, LedgerPhases
  <2> QED
    BY <1>3, <1>7, <2>1 DEF Chained, Wanted, roots
<1>11. ASSUME NEW b \in Blocks
       PROVE  /\ ch[b] # "None" <=> b \in roots \cup ChainOf(n.tip)
              /\ ch[b] = "ApplySuccess" => b = applied \/ b \in n.best_chain
  <2>1. a.root \in roots
    BY DEF roots
  <2> QED
    BY <1>3, <1>7, <1>8, <2>1 DEF ch
<1>12. InChain(m) = roots \cup ChainOf(n.tip)
  BY <1>5, <1>7, <1>9, <1>11 DEF InChain
<1>13. Highest(InChain(m)) = n.tip /\ InChain(m) \subseteq Ancestors[n.tip]
  BY <1>2, <1>7, <1>9, <1>12, TipOfBranch
<1>14. Chained(m)
  <2>1. Linear(m) /\ Complete(m) /\ Rooted(m)
    BY <1>5, <1>12, <1>13 DEF Linear, Complete, Rooted, LedgerPhases
  <2>2. Wanted(m)
    <3>1. m.sync \notin LedgerPhases /\ sync_best_tip(m) = n.tip /\ best_tip(m) = best_tip(n)
      BY <1>5, <1>13 DEF LedgerPhases, sync_best_tip, best_tip
    <3> QED
      BY <1>5, <1>10, <1>12, <3>1 DEF Wanted
  <2>3. AppliedFrom(m)
    BY <1>5, <1>6, <1>8, <1>11 DEF AppliedFrom
  <2> QED
    BY <2>1, <2>2, <2>3 DEF Chained
<1>15. \A l : HasStaged(l, n.ledger.staged) /\ Backed(n, l) => Backed(m, l)
  BY <1>5, <1>8, <1>11 DEF Backed
<1>16. \A r : Attempted(n, r) => Attempted(m, r)
  BY <1>2, <1>5 DEF Attempted, NoChain
<1> QED
  BY <1>5, <1>14, <1>15, <1>16 DEF m, a

(* An answer to StagedLedgerReconstruct, awaited or not. *)
LEMMA ReconstructDoneLinked ==
    ASSUME ChainInv, ReconstructDone
    PROVE  Linked(node', ledgers', rpc') /\ node'.best_chain = node.best_chain
<1> DEFINE b == node.writer.block
           ok == ledgers.sync_snarked[Snarked[b]] = "Full"
           current == node.ledger.state = "ReconstructPending" /\ node.ledger.staged = b
           a == Answered(node)
           n == IF current THEN BlocksPending(a) ELSE a
<1>1. /\ Good(node) /\ node \in Store /\ Wf(node) /\ ledgers \in Service
      /\ rpc \in [Peers -> Blocks \cup {NoBlock}]
      /\ Chained(node) /\ Backed(node, ledgers) /\ Attempted(node, rpc)
  BY DEF ChainInv, IInv, Linked, Good, Wf
<1>2. b \in Blocks /\ node.writer = Reconstruct(b)
  BY <1>1, RequestKinds DEF Store, ReconstructDone
<1>3. CASE current /\ ~ok
  <2>1. node' = node /\ rpc' = rpc /\ ledgers' = [ledgers EXCEPT !.panic = "reconstruct"]
    BY <1>3 DEF ReconstructDone
  <2>2. ledgers'.staged = ledgers.staged /\ ledgers'.sync_staged = ledgers.sync_staged
    BY <1>1, <2>1 DEF Service
  <2> QED
    BY <1>1, <2>1, <2>2 DEF Linked, Backed, HasStaged
<1>4. CASE ~(current /\ ~ok)
  <2>1. PICK q \in IF current THEN Queries(n, rpc) ELSE {<<>>} :
           node' = AfterWrite(QueryPending(n, q)) /\ rpc' = SendRequests(rpc, q)
    BY <1>4 DEF ReconstructDone
  <2>2. ledgers' = [ledgers EXCEPT !.staged = IF ok THEN ledgers.staged \cup {b}
                                             ELSE ledgers.staged]
    BY <1>4, <1>1 DEF ReconstructDone, Service
  <2>3. /\ ledgers'.sync_staged = ledgers.sync_staged
        /\ ledgers'.staged = IF ok THEN ledgers.staged \cup {b} ELSE ledgers.staged
    BY <1>1, <2>2 DEF Service
  <2>4. Backed(node, ledgers') /\ (current => HasStaged(ledgers', b))
    BY <1>1, <1>4, <2>3 DEF Backed, HasStaged
  <2>5. Asks(n, rpc, q)
    BY <2>1, QueriesAsk
  <2>6. Good(n) /\ Linked(n, ledgers', rpc) /\ n.best_chain = node.best_chain
    <3>1. CASE current
      BY <1>1, <2>4, <3>1, BlocksPendingGood, BlocksPendingChained DEF Linked
    <3>2. CASE ~current
      <4>1. node.ledger.state # "ReconstructPending"
        BY <1>1, <1>2, <3>2 DEF Good, Matched, Reconstruct
      <4>2. node.writer.kind \notin {"BlockApply", "Commit"}
        BY <1>2 DEF Reconstruct
      <4>3. n = a /\ Good(a)
        BY <1>1, <3>2, <4>1, <4>2, AnsweredGood
      <4>4. Kept(node, a) /\ a.attempts = node.attempts
        BY <1>1, InitsKeep
      <4> HIDE DEF a
      <4> QED
        BY <1>1, <2>4, <4>3, <4>4, KeptChained DEF Linked, Kept
    <3> QED
      BY <3>1, <3>2
  <2> HIDE DEF n
  <2> DEFINE m == QueryPending(n, q)
  <2>7. Good(m) /\ Linked(m, ledgers', rpc') /\ m.best_chain = n.best_chain
    BY <1>1, <2>1, <2>5, <2>6, QueryChained DEF Linked
  <2> HIDE DEF m
  <2> QED
    BY <2>1, <2>6, <2>7, AfterWriteChained DEF Linked, m
<1> QED
  BY <1>3, <1>4

(* An answer to StagedLedgerDiffCreate. *)
LEMMA DiffCreateDoneLinked ==
    ASSUME ChainInv, DiffCreateDone
    PROVE  Linked(node', ledgers', rpc') /\ node'.best_chain = node.best_chain
<1> DEFINE b == node.writer.block
           a == Answered(node)
           pr == [state |-> "Idle", pred |-> NoBlock]
           m == [a EXCEPT !.producer = pr]
<1>1. /\ Good(node) /\ node \in Store /\ Wf(node) /\ ledgers' = ledgers /\ rpc' = rpc
      /\ Linked(node, ledgers, rpc)
  BY DEF ChainInv, IInv, Good, Wf, DiffCreateDone
<1>2. node.writer = DiffCreate(b)
  BY <1>1, RequestKinds DEF Store, DiffCreateDone
<1>3. node.ledger.state # "ReconstructPending"
      /\ node.writer.kind \notin {"BlockApply", "Commit"}
  BY <1>1, <1>2 DEF Good, Matched, Reconstruct, DiffCreate
<1>4. Good(a) /\ a \in Store /\ Kept(node, a) /\ a.attempts = node.attempts
  BY <1>1, <1>3, AnsweredGood, InitsKeep
<1>5. node' = AfterWrite(m) \/ node' = AfterWrite(a)
  BY DEF DiffCreateDone
<1> HIDE DEF a
<1>6. pr \in [state : ProducerStates, pred : Blocks \cup {NoBlock}] /\ pr.state = "Idle"
  BY DEF ProducerStates
<1> HIDE DEF pr
<1>7. m \in Store /\ m.producer = pr /\ \A f \in DOMAIN a \ {"producer"} : m[f] = a[f]
  BY <1>4, <1>6 DEF Store
<1> HIDE DEF m
<1>8. Kept(a, m) /\ m.attempts = a.attempts
  BY <1>4, <1>7, FieldsKept DEF Store
<1>9. Good(m)
  <2>1. /\ m.sync = a.sync /\ m.chain = a.chain /\ m.ledger = a.ledger /\ m.writer = a.writer
        /\ m.best_chain = a.best_chain /\ m.tip = a.tip /\ m.root = a.root
        /\ InChain(m) = InChain(a)
    BY <1>4, <1>7 DEF Store, InChain
  <2> QED
    BY <1>4, <1>6, <1>7, <2>1 DEF Good, Wf, Matched
<1>10. Linked(a, ledgers, rpc) /\ a.best_chain = node.best_chain
  BY <1>1, <1>4, KeptChained DEF Linked, Kept
<1>11. Linked(m, ledgers, rpc) /\ m.best_chain = node.best_chain
  BY <1>8, <1>10, KeptChained DEF Linked, Kept
<1> QED
  BY <1>1, <1>4, <1>5, <1>9, <1>10, <1>11, AfterWriteChained DEF Linked

-----------------------------------------------------------------------------
(* The theorems. *)

(* A step keeps the invariant, and only a commit changes the best chain. *)
LEMMA StepChainInv ==
    ASSUME ChainInv, [Next]_vars
    PROVE  ChainInv' /\ (node'.best_chain = node.best_chain \/ CommitDone)
<1>1. IInv'
  BY StepIInv DEF ChainInv
<1>2. Linked(node', ledgers', rpc') /\ (node'.best_chain = node.best_chain \/ CommitDone)
  <2>1. CASE \E t \in Tips : BestTipUpdate(t)
    BY <2>1, BestTipUpdateLinked
  <2>2. CASE SnarkedLedgerSynced
    BY <2>2, SnarkedLedgerSyncedLinked
  <2>3. CASE StagedLedgerPartsFetched
    BY <2>3, StagedLedgerPartsFetchedLinked
  <2>4. CASE \E p \in Peers : BlockRpcSuccess(p) \/ BlockRpcError(p) \/ PeerDisconnected(p)
    BY <2>4, BlockRpcSuccessLinked, BlockRpcErrorLinked, PeerDisconnectedLinked
  <2>9. CASE \E p \in Faulty : BlockRpcUnusable(p)
    BY <2>9, BlockRpcUnusableLinked
  <2>5. CASE PeerReady
    BY <2>5, PeerReadyLinked
  <2>6. CASE WonSlotProduceInit
    BY <2>6, WonSlotProduceInitLinked
  <2>7. CASE LedgerWriteSuccess
    BY <2>7, BlockApplyDoneLinked, CommitDoneLinked, ReconstructDoneLinked, DiffCreateDoneLinked
    DEF LedgerWriteSuccess
  <2>8. CASE UNCHANGED vars
    BY <2>8 DEF vars, ChainInv
  <2> QED
    BY <2>1, <2>2, <2>3, <2>4, <2>9, <2>5, <2>6, <2>7, <2>8 DEF Next
<1> QED
  BY <1>1, <1>2 DEF ChainInv

(* Hence it holds in every reachable state. *)
LEMMA SpecChainInv == Spec => []ChainInv
<1>1. Init => ChainInv
  BY InitIInv, InitLinked DEF ChainInv
<1>2. ChainInv /\ [Next]_vars => ChainInv'
  BY StepChainInv
<1> QED
  BY <1>1, <1>2, PTL DEF Spec

(* Every block of the frontier, and every block the synchronization counts   *)
(* as applied, has its staged ledger in the service, whatever commits and    *)
(* retargets came in between.                                                *)
THEOREM LedgersTheorem == Spec => []AppliedHaveLedgers
<1>1. ChainInv => AppliedHaveLedgers
  BY DEF ChainInv, Linked, Backed, AppliedHaveLedgers
<1> QED
  BY <1>1, SpecChainInv, PTL

(* A pending attempt to fetch a block is one for a block that is still       *)
(* missing and, unless its peer may answer with something that is not the    *)
(* block, a request that the peer is working on.                             *)
THEOREM QueriesTheorem == Spec => []PendingQueries
<1>1. ChainInv => PendingQueries
  BY DEF ChainInv, Linked, Attempted, PendingQueries
<1> QED
  BY <1>1, SpecChainInv, PTL

(* Whatever tips came in and whatever was rejected, the chain that is being  *)
(* synchronized is better than the frontier and has no rejected block.       *)
THEOREM TargetTheorem == Spec => []SyncTargetSound
<1>1. ChainInv => SyncTargetSound
  BY DEF ChainInv, Linked, Chained, Wanted, SyncTargetSound
<1> QED
  BY <1>1, SpecChainInv, PTL

(* A commit is a step of the abstract frontier: the best chain becomes the   *)
(* chain proof of a better tip, whose new blocks the ledger has accepted.    *)
LEMMA CommitAdvances ==
    ASSUME ChainInv, CommitDone
    PROVE  F!Advance
<1> DEFINE t == Highest(InChain(node))
<1>1. /\ node.sync = "CommitPending" /\ node'.best_chain = InChain(node)
      /\ Chained(node) /\ Wf(node)
  BY CommitDoneLinked DEF ChainInv, Linked, IInv, Good
<1>2. t \in Blocks /\ InChain(node) = ChainOf(t) /\ \A b \in InChain(node) : node.chain[b] = "ApplySuccess"
  <2>1. InChain(node) \in SUBSET Blocks /\ InChain(node) # {}
    BY <1>1 DEF Wf, InChain, BlockPhases
  <2> QED
    BY <1>1, <2>1, HighestIn DEF Chained, Complete
<1>3. consensus_take(Highest(node.best_chain), t)
  BY <1>1 DEF Chained, Wanted, is_pending, best_tip, sync_best_tip, LedgerPhases
<1> HIDE DEF t
<1>4. ChainOf(t) \ node.best_chain \subseteq Applies \cup Roots
  BY <1>1, <1>2 DEF Chained, AppliedFrom, InChain
<1>5. /\ F!ChainOf(t) = ChainOf(t) /\ F!Bootstrapped = Roots
      /\ F!consensus_take(F!Highest(node.best_chain), t) = consensus_take(Highest(node.best_chain), t)
  BY DEF F!ChainOf, ChainOf, F!Bootstrapped, Roots, F!RootOf, RootOf, F!Lowest, Lowest,
     F!consensus_take, consensus_take, F!Highest, Highest
<1> QED
  BY <1>1, <1>2, <1>3, <1>4, <1>5 DEF F!Advance

(* The frontier of the node implements the abstract one: its best chain is   *)
(* always the chain proof of some tip, and it changes in one step, when the  *)
(* ledger service has answered a commit.                                     *)
THEOREM RefinementTheorem == Spec => FrontierRefinement
<1>1. Init => F!Init
  BY DEF Init, F!Init
<1>2. ChainInv /\ [Next]_vars => [F!Advance]_(node.best_chain)
  BY StepChainInv, CommitAdvances
<1> QED
  BY <1>1, <1>2, SpecChainInv, PTL DEF Spec, FrontierRefinement, F!Spec
=============================================================================
