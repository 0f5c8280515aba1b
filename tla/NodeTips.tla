------------------------------- MODULE NodeTips -------------------------------
(***************************************************************************)
(* NodesOverviewService: what the pages Overview, Bootstrap and Live make  *)
(* of the answer of a node about its synchronization attempts.  Times that *)
(* are missing are 0.                                                      *)
(***************************************************************************)
EXTENDS RustService

CONSTANTS SyncTips,   \* what a node may answer: sequences of attempts
          OneBillion  \* nanoseconds in a second

\* NodesOverviewNodeKindType, numbered in the order of their names.
BOOTSTRAP == 1
CATCHUP == 2
OFFLINE == 3
PENDING == 4
SYNCED == 5

\* A ledger the node has not reported on.
NoStep == [none |-> TRUE]

\* Attempts have a phase, and a reconstruction that has ended has begun (ApplyParts
\* of the node's statistics sets its start first).
ASSUME SyncTipsAssumption ==
    /\ OneBillion \in Nat \ {0}
    /\ \A tips \in SyncTips :
         /\ tips \in Seq(ToSet(tips))
         /\ \A i \in DOMAIN tips :
              /\ tips[i].received \in Nat /\ tips[i].phase \in {BOOTSTRAP, CATCHUP, SYNCED}
              /\ LET root == tips[i].ledgers.root
                 IN  root # NoStep /\ root.staged.reconstructEnd # 0 => root.staged.reconstructStart # 0

\* null counts as 0 in a sum.
getDuration(start, end) ==
    IF end = 0 \/ start = 0 THEN 0 ELSE -((start - end) \div OneBillion)

getSnarkedLedgerStep(step) ==
    [state |-> IF step = NoStep \/ (step.snarked.hashesStart = 0 /\ step.snarked.accountsStart = 0)
               THEN "pending" ELSE "loading",
     duration |-> IF step = NoStep THEN 0
                  ELSE getDuration(step.snarked.hashesStart, step.snarked.hashesEnd)
                       + getDuration(step.snarked.accountsStart, step.snarked.accountsEnd),
     totalTime |-> 0]

StagedBegun(step) == step # NoStep /\ (step.staged.partsStart # 0 \/ step.staged.reconstructStart # 0)

getStagedLedgerStep(step) ==
    LET reconstructed == step # NoStep /\ step.staged.reconstructEnd # 0
    IN  [state |-> IF reconstructed THEN "success" ELSE IF StagedBegun(step) THEN "loading" ELSE "pending",
         totalTime |-> IF ~reconstructed THEN 0
                       ELSE getDuration(step.staged.partsStart, step.staged.partsEnd)
                            + getDuration(step.staged.reconstructStart, step.staged.reconstructEnd)]

\* A ledger whose successor has been started on is complete, even when the node
\* did not report all its times.
CompletedBy(step, successorBegun) ==
    IF successorBegun THEN [step EXCEPT !.state = "success", !.totalTime = step.duration] ELSE step

getLedgers_NoCascade(ledgers) ==
    LET rootSnarked == CompletedBy(getSnarkedLedgerStep(ledgers.root), StagedBegun(ledgers.root))
        nextEpoch == getSnarkedLedgerStep(ledgers.next_epoch)
    IN  [stakingEpoch |-> CompletedBy(getSnarkedLedgerStep(ledgers.staking_epoch), nextEpoch.state # "pending"),
         nextEpoch |-> nextEpoch, rootSnarked |-> rootSnarked,
         rootStaged |-> getStagedLedgerStep(ledgers.root)]

getLedgers(ledgers) ==
    LET rootSnarked == CompletedBy(getSnarkedLedgerStep(ledgers.root), StagedBegun(ledgers.root))
        nextEpoch == CompletedBy(getSnarkedLedgerStep(ledgers.next_epoch), rootSnarked.state # "pending")
    IN  [stakingEpoch |-> CompletedBy(getSnarkedLedgerStep(ledgers.staking_epoch), nextEpoch.state # "pending"),
         nextEpoch |-> nextEpoch, rootSnarked |-> rootSnarked,
         rootStaged |-> getStagedLedgerStep(ledgers.root)]

NoLedgers == [root |-> NoStep, next_epoch |-> NoStep, staking_epoch |-> NoStep]

mapBlock(block) ==
    block @@ [fetchDuration |-> getDuration(block.fetchStart, block.fetchEnd),
              applyDuration |-> getDuration(block.applyStart, block.applyEnd)]

CountOf(blocks, status) == Len(SelectSeq(blocks, LAMBDA b : b.status = status))

mapNodeTipsErrorResponse(name) ==
    <<[name |-> name, kind |-> OFFLINE, received |-> 0, bestTip |-> 0, missingBlocks |-> 0,
       ledgers |-> getLedgers(NoLedgers), blocks |-> <<>>]>>

\* The counts per block status are computed alike; the missing blocks stand
\* for them.
mapNodeTipsResponse(syncTips, name) ==
    [i \in DOMAIN syncTips |->
        LET tip == syncTips[i]
        IN  [name |-> name, kind |-> tip.phase, received |-> tip.received,
             bestTip |-> IF tip.blocks = <<>> THEN 0 ELSE tip.blocks[1].hash,
             missingBlocks |-> CountOf(tip.blocks, "Missing"),
             ledgers |-> getLedgers(tip.ledgers),
             blocks |-> [j \in DOMAIN tip.blocks |-> mapBlock(tip.blocks[j])]]]

\* An empty answer is an error, and an error is the answer of an offline node.
getNodeTips(syncTips, name) ==
    IF syncTips = <<>> THEN mapNodeTipsErrorResponse(name)
                       ELSE mapNodeTipsResponse(syncTips, name)

Online(tips) == SelectSeq(tips, LAMBDA node : node.kind # OFFLINE)
=============================================================================
