------------------------------- MODULE NodesLive -------------------------------
(***************************************************************************)
(* The page "Nodes > Live": the blocks of one best tip of the active node  *)
(* and the events of their synchronization, fetched every two seconds.     *)
(***************************************************************************)
EXTENDS NodeTips

CONSTANT FullFrontier   \* the blocks of a full frontier, root included: 291

VARIABLES live,      \* the slice nodes.live
          liveFx,    \* pendingRequest of the effects
          liveReq,   \* the request of getNodes$
          liveView   \* the toolbar's node, the blocks map and the rows of the events

liveVars == <<live, liveFx, liveReq, liveView>>

Filters == {"best tip", "Fetching", "Fetched", "Applying", "Applied"}

initialLive ==
    [nodes |-> <<>>, activeNode |-> NoRow, openSidePanel |-> isDesktop,
     sort |-> [sortBy |-> "timestamp", sortDirection |-> "descending"],
     filteredEvents |-> <<>>, filters |-> {}]

NoTip == 0

initialLiveView == [node |-> NoRow, tipFromRoute |-> NoTip, mapped |-> 0]
-----------------------------------------------------------------------------
event(block, isBestTip, message, timestamp) ==
    IF timestamp = 0 THEN <<>>
    ELSE <<[height |-> block.height, isBestTip |-> isBestTip, message |-> message,
            timestamp |-> timestamp]>>

getEvents(node) ==
    FlattenSeq([i \in DOMAIN node.blocks |->
        LET b == node.blocks[i]
        IN  event(b, i = 1, "Fetching", b.fetchStart) \o event(b, i = 1, "Fetched", b.fetchEnd)
            \o event(b, i = 1, "Applying", b.applyStart) \o event(b, i = 1, "Applied", b.applyEnd)])

getLiveNodeTips(syncTips, name) ==
    LET nodes == Reverse(Online(getNodeTips(syncTips, name)))
    IN  [i \in DOMAIN nodes |-> [name |-> name, index |-> i - 1, bestTip |-> nodes[i].bestTip,
                                 blocks |-> nodes[i].blocks, events |-> getEvents(nodes[i])]]

filterEvents(events, filters) ==
    LET tip == IF "best tip" \in filters THEN SelectSeq(events, LAMBDA e : e.isBestTip) ELSE events
    IN  IF filters \ {"best tip"} = {} THEN tip
        ELSE SelectSeq(tip, LAMBDA e : e.message \in filters)

eventsOf(node, tableSort, filters) == filterEvents(sort(node.events, tableSort), filters)

lastNode(nodes) == IF nodes = <<>> THEN NoRow ELSE Last(nodes)

LiveGetNodesReduced(nodes) ==
    LET activeNode == IF live.activeNode = NoRow THEN lastNode(nodes)
                      ELSE find(nodes, "bestTip", live.activeNode.bestTip)
    IN  [live EXCEPT !.nodes = nodes, !.activeNode = activeNode,
                     !.filteredEvents = IF activeNode = NoRow THEN <<>>
                                        ELSE eventsOf(activeNode, live.sort, live.filters)]

\* A hash that is not in the list is ignored.
SetActiveNodeReduced(state, hash) ==
    LET activeNode == find(state.nodes, "bestTip", hash)
    IN  IF activeNode = NoRow THEN state
        ELSE [state EXCEPT !.activeNode = activeNode,
                           !.filteredEvents = eventsOf(activeNode, state.sort, state.filters)]

\* The map leaves out the best tip, and the root of a full frontier.
mappedOf(node) ==
    IF node = NoRow \/ node.blocks = <<>> THEN 0
    ELSE Len(node.blocks) - (IF Len(node.blocks) = FullFrontier THEN 2 ELSE 1)

\* The toolbar keeps the last node it was shown; the blocks map follows.
LiveShown(state) ==
    /\ live' = state
    /\ liveView' = IF page # "live" THEN liveView
                   ELSE [liveView EXCEPT
                           !.node = IF state.activeNode = NoRow THEN @ ELSE state.activeNode,
                           !.tipFromRoute = IF UNCHANGED liveReq THEN @ ELSE NoTip,
                           !.mapped = mappedOf(state.activeNode)]
-----------------------------------------------------------------------------
liveGet == liveFx' = [pendingRequest |-> TRUE] /\ liveReq' = switchMap(liveReq, [node |-> rust'])

LiveTick ==
    /\ On("live") /\ UNCHANGED <<loading, rust, live, liveView>>
    /\ ~liveFx.pendingRequest /\ liveGet

LiveNodeChange ==
    /\ On("live") /\ changeRustNode /\ add("NODES_LIVE_INIT") /\ liveGet
    /\ UNCHANGED <<live, liveView>>

\* The tip named in the URL is selected when the first list arrives.  A failed
\* request is an empty list.
LiveGetNodesSuccess ==
    \E r \in liveReq, syncTips \in SyncTips \cup {<<>>} :
        LET reduced == LiveGetNodesReduced(getLiveNodeTips(syncTips, r.node))
        IN  /\ liveReq' = Completed(liveReq, r)
            /\ LiveShown(IF page = "live" /\ liveView.tipFromRoute # NoTip
                         THEN SetActiveNodeReduced(reduced, liveView.tipFromRoute) ELSE reduced)
            /\ liveFx' = [pendingRequest |-> FALSE]
            /\ remove({"NODES_LIVE_INIT"}) /\ UNCHANGED <<page, rust>>

LiveSelect(hash) ==
    /\ On("live") /\ UNCHANGED <<loading, rust, liveFx, liveReq>>
    /\ LiveShown(SetActiveNodeReduced(live, hash))

\* selectPreviousNode, selectNextNode: relative to the toolbar's node.
LiveStep ==
    /\ liveView.node # NoRow
    /\ LET here == {i \in DOMAIN live.nodes : live.nodes[i].bestTip = liveView.node.bestTip}
           index == IF here = {} THEN 0 ELSE CHOOSE i \in here : \A j \in here : i <= j
       IN  \E i \in {index - 1, index + 1} \cap DOMAIN live.nodes : LiveSelect(live.nodes[i].bestTip)

\* selectFirstTip, selectLastTip.
LiveEnds ==
    /\ live.nodes # <<>>
    /\ \E i \in {1, Len(live.nodes)} : LiveSelect(live.nodes[i].bestTip)

\* The reducer dereferences the active node: without one it throws.
LiveSort ==
    /\ page = "live" /\ \E column \in {"timestamp", "height"} :
         LET s == sortTable(live.sort, column)
         IN  IF live.activeNode = NoRow THEN Throws /\ UNCHANGED liveVars
             ELSE /\ UNCHANGED <<page, liveFx, liveReq>>
                  /\ LiveShown([live EXCEPT !.sort = s,
                                            !.filteredEvents = eventsOf(live.activeNode, s, live.filters)])
    /\ UNCHANGED <<loading, rust>>

LiveToggleFilter ==
    /\ page = "live" /\ \E f \in Filters :
         LET filters == IF f \in live.filters THEN live.filters \ {f} ELSE live.filters \cup {f}
         IN  IF live.activeNode = NoRow THEN Throws /\ UNCHANGED liveVars
             ELSE /\ UNCHANGED <<page, liveFx, liveReq>>
                  /\ LiveShown([live EXCEPT !.filters = filters,
                                            !.filteredEvents = eventsOf(live.activeNode, live.sort, filters)])
    /\ UNCHANGED <<loading, rust>>

LiveToggleSidePanel ==
    /\ On("live") /\ UNCHANGED <<loading, rust, liveFx, liveReq>>
    /\ LiveShown([live EXCEPT !.openSidePanel = ~@,
                              !.activeNode = IF live.openSidePanel THEN NoRow ELSE @])

LiveOpen ==
    /\ Enter("live") /\ UNCHANGED <<loading, rust, live, liveFx, liveReq>>
    /\ \E tip \in {NoTip} \cup UNION {{s[i].blocks[1].hash : i \in DOMAIN s} : s \in SyncTips} :
         liveView' = [node |-> live.activeNode, tipFromRoute |-> tip, mapped |-> mappedOf(live.activeNode)]

\* Close, too, is filtered out while a request is pending.
LiveClose ==
    /\ Leave("live") /\ remove({"NODES_LIVE_INIT"})
    /\ live' = initialLive /\ liveView' = initialLiveView
    /\ UNCHANGED <<rust, liveFx, liveReq>>
-----------------------------------------------------------------------------
LiveInit ==
    /\ live = initialLive /\ liveFx = [pendingRequest |-> FALSE]
    /\ liveReq = {} /\ liveView = initialLiveView

LiveNext ==
    \/ LiveTick \/ LiveNodeChange \/ LiveGetNodesSuccess \/ LiveStep \/ LiveEnds \/ LiveSort
    \/ LiveToggleFilter \/ LiveToggleSidePanel \/ LiveOpen \/ LiveClose

\* The events on display are those of the selected tip, under the filters and
\* the order that the controls show, whichever of the five was changed last.
LiveEventsDerived ==
    live.activeNode # NoRow =>
        live.filteredEvents = eventsOf(live.activeNode, live.sort, live.filters)
=============================================================================
