---------------------------- MODULE NetworkBlocks ----------------------------
(***************************************************************************)
(* The page "Network > Blocks": the messages about the block of one        *)
(* height, sorted, filtered by candidate hash, with the latency of each    *)
(* relative to the first message shown.                                    *)
(***************************************************************************)
EXTENDS Integers, FiniteSets, FiniteSetsExt, SequencesExt, Layout

CONSTANTS Heights,       \* block heights
          BlockAnswers   \* /block/<height>: the events about a block, in their order

ASSUME BlocksAssumption ==
    Heights \subseteq Nat \ {0} /\ BlockAnswers \subseteq Seq([hash: Nat, time: Nat])

VARIABLES blocks,      \* the slice network.blocks
          blocksFx,    \* waitingForServer and the timer of NetworkBlocksEffects
          blocksReq,   \* the requests of getBlocks$ and of earliestBlock$
          toolbarBlock \* earliestBlock of the toolbar

blocksVars == <<blocks, blocksFx, blocksReq, toolbarBlock>>

NoHeight == 0

\* A message of the table.  The code keeps received and sent latency apart.
NetworkBlock == [hash: Nat, timestamp: Nat, height: Heights, latency: Nat]

BlocksSorts == [sortBy: {"hash", "timestamp"}, sortDirection: {"ascending", "descending"}]

NetworkBlocksState ==
    [blocks: Seq(NetworkBlock), filteredBlocks: Seq(NetworkBlock), sort: BlocksSorts,
     activeFilters: SUBSET Nat, openSidePanel: BOOLEAN,
     activeBlock: Heights \cup {NoHeight}, earliestBlock: Heights \cup {NoHeight}]

initialBlocks ==
    [blocks |-> <<>>, filteredBlocks |-> <<>>,
     sort |-> [sortBy |-> "timestamp", sortDirection |-> "ascending"],
     activeFilters |-> {}, openSidePanel |-> FALSE,
     activeBlock |-> NoHeight, earliestBlock |-> NoHeight]
-----------------------------------------------------------------------------
getFilteredBlocks(all, filters) ==
    IF filters = {} THEN all ELSE filter(all, {b \in ToSet(all) : b.hash \in filters})

\* Array.reduce of no element throws: the argument must not be empty.
applyNewLatencies(bs) ==
    LET fastestTime == Min({b.timestamp : b \in ToSet(bs)})
    IN  [i \in DOMAIN bs |-> [bs[i] EXCEPT !.latency = bs[i].timestamp - fastestTime]]

\* mapBlocks: the latencies are relative to the first of all messages.
mapBlocks(events, height) ==
    IF events = <<>> THEN <<>>
    ELSE applyNewLatencies([i \in DOMAIN events |->
            [hash |-> events[i].hash, timestamp |-> events[i].time, height |-> height, latency |-> 0]])

GetBlocksSuccessReduced(payload) ==
    LET sorted == sort(payload, blocks.sort)
        filtered == getFilteredBlocks(sorted, blocks.activeFilters)
    IN  [blocks EXCEPT
            !.blocks = sorted,
            !.filteredBlocks = IF blocks.activeFilters # {} THEN applyNewLatencies(filtered) ELSE filtered]

SetActiveBlockReduced(state, height, fetchNew) ==
    [state EXCEPT !.activeBlock = height,
                  !.activeFilters = IF fetchNew THEN {} ELSE @]
-----------------------------------------------------------------------------
getBlocks_Merged(state, height) ==
    /\ blocks' = state
    /\ blocksFx' = [blocksFx EXCEPT !.waitingForServer = TRUE]
    /\ blocksReq' = [blocksReq EXCEPT !.blocks = mergeMap(@, [height |-> height, stale |-> page # "blocks"])]

getBlocks(state, height) ==
    /\ blocks' = state
    /\ blocksFx' = [blocksFx EXCEPT !.waitingForServer = TRUE]
    /\ blocksReq' = [blocksReq EXCEPT !.blocks = switchMap(@, [height |-> height, stale |-> page # "blocks"])]

\* timer(0, 5000) of init$.
BlocksTick ==
    /\ blocksFx.timer /\ ~blocksFx.waitingForServer
    /\ getBlocks(blocks, blocks.activeBlock)
    /\ UNCHANGED layoutVars

\* Without any message that passes an active filter, applyNewLatencies throws
\* inside the reducer.
GetBlocksSuccess ==
    \E r \in blocksReq.blocks, events \in BlockAnswers :
        LET payload == mapBlocks(events, r.height)
        IN  /\ blocksFx' = [blocksFx EXCEPT !.waitingForServer = FALSE]
            /\ blocksReq' = [blocksReq EXCEPT !.blocks = Completed(@, r)]
            /\ UNCHANGED loading
            /\ IF blocks.activeFilters # {} /\ getFilteredBlocks(payload, blocks.activeFilters) = <<>>
               THEN Throws /\ UNCHANGED blocks
               ELSE blocks' = GetBlocksSuccessReduced(payload) /\ UNCHANGED page

\* waitingForServer stays set: the timer does not fetch again.
GetBlocksError ==
    /\ blocksReq.blocks # {}
    /\ blocksReq' = [blocksReq EXCEPT !.blocks = catchErrorAndRepeat(@)]
    /\ UNCHANGED <<blocksFx, loading>>
    /\ IF blocks.activeFilters # {}
       THEN Throws /\ UNCHANGED blocks
       ELSE blocks' = GetBlocksSuccessReduced(<<>>) /\ UNCHANGED page

\* earliestBlock$ decides by the active block at the time of the request whether
\* the answer also sets the active block and starts the timer.
earliestBlock(state) ==
    [blocksReq EXCEPT !.earliest = switchMap(@, [setActive |-> state.activeBlock = NoHeight,
                                                 stale |-> FALSE])]

GetEarliestBlockSuccess ==
    \E r \in blocksReq.earliest, height \in Heights :
        LET known == [blocks EXCEPT !.earliestBlock = height]
        IN  /\ blocks' = IF r.setActive THEN SetActiveBlockReduced(known, height, FALSE) ELSE known
            /\ blocksFx' = [blocksFx EXCEPT !.timer = @ \/ r.setActive]
            /\ blocksReq' = [earliest |-> Completed(blocksReq.earliest, r),
                             blocks |-> IF r.setActive THEN Stale(blocksReq.blocks)
                                                       ELSE blocksReq.blocks]
            /\ UNCHANGED layoutVars

\* "No blocks found!" or a failed request.
GetEarliestBlockError ==
    /\ blocksReq.earliest # {}
    /\ blocks' = [blocks EXCEPT !.earliestBlock = NoHeight]
    /\ blocksReq' = [blocksReq EXCEPT !.earliest = catchErrorAndRepeat(@)]
    /\ UNCHANGED <<blocksFx, layoutVars>>
-----------------------------------------------------------------------------
\* ngOnInit: a height in the URL becomes the active block and starts the timer.
BlocksOpen ==
    /\ Enter("blocks") /\ UNCHANGED loading
    /\ \E height \in Heights \cup {NoHeight} :
         LET state == IF height = NoHeight THEN blocks
                      ELSE SetActiveBlockReduced(blocks, height, FALSE)
         IN  /\ blocks' = state
             /\ blocksFx' = [blocksFx EXCEPT !.timer = @ \/ height # NoHeight]
             /\ blocksReq' = earliestBlock(state)

BlocksNodeChange ==
    /\ On("blocks") /\ UNCHANGED <<loading, blocks, blocksFx>>
    /\ blocksReq' = earliestBlock(blocks)

BlocksClose ==
    /\ Leave("blocks") /\ UNCHANGED loading
    /\ blocks' = initialBlocks
    /\ blocksFx' = [blocksFx EXCEPT !.timer = FALSE]
    /\ blocksReq' = [blocks |-> Stale(blocksReq.blocks), earliest |-> Stale(blocksReq.earliest)]

BlocksSort ==
    /\ On("blocks") /\ UNCHANGED <<loading, blocksFx, blocksReq>>
    /\ \E column \in {"hash", "timestamp"} :
         LET tableSort == sortTable(blocks.sort, column)
         IN  blocks' = [blocks EXCEPT !.sort = tableSort, !.filteredBlocks = sort(@, tableSort)]

\* The candidates in the toolbar are the hashes of the messages (allFilters).
BlocksToggleFilter ==
    /\ page = "blocks" /\ UNCHANGED <<loading, blocksFx, blocksReq>>
    /\ \E f \in {b.hash : b \in ToSet(blocks.blocks)} :
         LET filters == IF f \in blocks.activeFilters THEN blocks.activeFilters \ {f}
                                                      ELSE blocks.activeFilters \cup {f}
             filtered == getFilteredBlocks(blocks.blocks, filters)
         IN  IF filtered = <<>> THEN Throws /\ UNCHANGED blocks
             ELSE /\ UNCHANGED page
                  /\ blocks' = [blocks EXCEPT
                        !.activeFilters = filters,
                        !.filteredBlocks = applyNewLatencies(sort(filtered, blocks.sort))]

BlocksToggleSidePanel ==
    /\ On("blocks") /\ UNCHANGED <<loading, blocksFx, blocksReq>>
    /\ blocks' = [blocks EXCEPT !.openSidePanel = ~@]

\* The toolbar keeps the last earliest block that was known while it is on display.
ToolbarListens ==
    toolbarBlock' = IF page' # "blocks" THEN NoHeight
                    ELSE IF blocks'.earliestBlock # NoHeight THEN blocks'.earliestBlock
                    ELSE toolbarBlock

\* getBlock: the previous, the next and the last block, fetched at once.
BlocksGetBlock ==
    /\ On("blocks") /\ UNCHANGED loading
    /\ \E height \in Heights :
         /\ \/ blocks.activeBlock # NoHeight /\ height = blocks.activeBlock - 1
            \/ /\ toolbarBlock # blocks.activeBlock
               /\ height \in {blocks.activeBlock + 1, toolbarBlock}
         /\ getBlocks(SetActiveBlockReduced(blocks, height, TRUE), height)
-----------------------------------------------------------------------------
BlocksInit ==
    /\ blocks = initialBlocks
    /\ blocksFx = [waitingForServer |-> FALSE, timer |-> FALSE]
    /\ blocksReq = [blocks |-> {}, earliest |-> {}]
    /\ toolbarBlock = NoHeight

BlocksNext ==
    /\ \/ BlocksTick \/ GetBlocksSuccess \/ GetBlocksError
       \/ GetEarliestBlockSuccess \/ GetEarliestBlockError
       \/ BlocksOpen \/ BlocksNodeChange \/ BlocksClose \/ BlocksSort
       \/ BlocksToggleFilter \/ BlocksToggleSidePanel \/ BlocksGetBlock
    /\ ToolbarListens

\* What the table shows is sorted as chosen, and its latencies are relative to
\* the first message that is shown, after any sequence of answers, filters,
\* sorts and changes of the block.
BlocksTableSound ==
    LET rows == blocks.filteredBlocks
        first == IF rows = <<>> THEN 0 ELSE Min({b.timestamp : b \in ToSet(rows)})
    IN  /\ SortedBy(rows, blocks.sort)
        /\ \A b \in ToSet(rows) : b.latency = b.timestamp - first

\* The answer that is waited for is the one for the active block: however fast
\* the user moves through the blocks, what arrives is never a block looked at
\* before.  Two cases are marked in the requests and left out: the page was left
\* meanwhile, or earliestBlock$ moved the active block, which it does without
\* fetching.
BlocksAnswersFit ==
    \A r \in blocksReq.blocks : ~r.stale => r.height = blocks.activeBlock
=============================================================================
