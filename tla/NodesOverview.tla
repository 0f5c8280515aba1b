----------------------------- MODULE NodesOverview -----------------------------
(***************************************************************************)
(* The page "Nodes > Overview": one row per node, each refreshed by a      *)
(* request of its own every five seconds.                                  *)
(***************************************************************************)
EXTENDS NodeTips

CONSTANTS ConfigNodes,  \* CONFIG.configs, a sequence of names
          CustomNodes   \* the nodes the user has added

\* Names are numbered in their order; the configured nodes have different ones.
ASSUME OverviewAssumption ==
    /\ ConfigNodes \in Seq(Int) /\ CustomNodes \subseteq Int
    /\ \A i, j \in DOMAIN ConfigNodes : ConfigNodes[i] = ConfigNodes[j] => i = j

VARIABLES overview,      \* the slice nodes.overview
          overviewReq,   \* the requests of getNodeStatus$
          overviewPanel  \* the clock of the side panel

overviewVars == <<overview, overviewReq, overviewPanel>>

pendingNode(name) ==
    [name |-> name, kind |-> PENDING, received |-> 0, bestTip |-> 0, missingBlocks |-> 0,
     ledgers |-> getLedgers(NoLedgers), blocks |-> <<>>]

initialOverview ==
    [nodes |-> [i \in DOMAIN ConfigNodes |-> pendingNode(ConfigNodes[i])], activeNode |-> NoRow,
     sort |-> [sortBy |-> "kind", sortDirection |-> "descending"]]

AppNodes == ToSet(ConfigNodes) \cup CustomNodes
-----------------------------------------------------------------------------
nodesWith(nodes, currentNode) ==
    IF \E i \in DOMAIN nodes : nodes[i].name = currentNode.name
    THEN [i \in DOMAIN nodes |-> IF nodes[i].name = currentNode.name THEN currentNode ELSE nodes[i]]
    ELSE Append(nodes, currentNode)

GetNodeStatusReduced_KeepsActive(currentNode) ==
    [overview EXCEPT !.nodes = sort(nodesWith(@, currentNode), overview.sort)]

GetNodeStatusReduced(currentNode) ==
    LET nodes == nodesWith(overview.nodes, currentNode)
    IN  [overview EXCEPT !.nodes = sort(nodes, overview.sort),
                         !.activeNode = IF @ = NoRow THEN NoRow ELSE find(nodes, "name", @.name)]

\* listenToActiveNodesOverviewNode: a node without a best tip stops the clock.
clockFor(panel, node) ==
    IF node = NoRow THEN panel
    ELSE [interval |-> IF node.received > 0 THEN panel.interval \/ panel.timerRemoved ELSE FALSE,
          timerRemoved |-> node.received = 0]

\* The panel's selector emits when the active node is another object.
Selected(state) ==
    /\ overview' = state
    /\ overviewPanel' = IF page = "overview" /\ state.activeNode # overview.activeNode
                        THEN clockFor(overviewPanel, state.activeNode) ELSE overviewPanel

\* timer(0, 5000): getNodes$ asks for the status of every node of the app; its
\* pendingRequest is reset by the first of them, before any other action.
OverviewGetNodes ==
    /\ On("overview")
    /\ overviewReq' = overviewReq \cup AppNodes
    /\ UNCHANGED <<loading, rust, overview, overviewPanel>>

\* mergeMap.  A failed request answers for an offline node.  Leaving the page
\* cancels none: a late answer goes to the closed slice.
GetNodeStatusSuccess ==
    \E name \in overviewReq, syncTips \in SyncTips \cup {<<>>} :
        /\ Selected(GetNodeStatusReduced(getNodeTips(syncTips, name)[1]))
        /\ overviewReq' = Completed(overviewReq, name)
        /\ UNCHANGED <<layoutVars, rust>>

OverviewSort ==
    /\ On("overview") /\ UNCHANGED <<loading, rust, overviewReq, overviewPanel>>
    /\ \E column \in {"kind", "name"} :
         LET s == sortTable(overview.sort, column)
         IN  overview' = [overview EXCEPT !.sort = s, !.nodes = sort(@, s)]

OverviewRowClick ==
    /\ On("overview") /\ UNCHANGED <<loading, rust, overviewReq>>
    /\ \E row \in Clickable(overview.nodes, "name", overview.activeNode) :
         Selected([overview EXCEPT !.activeNode = row])

OverviewClosePanel ==
    /\ On("overview") /\ overview.activeNode # NoRow
    /\ overview' = [overview EXCEPT !.activeNode = NoRow]
    /\ UNCHANGED <<loading, rust, overviewReq, overviewPanel>>

\* With the name of a node in the URL its row is selected at once: the rows of
\* the configured nodes are there from the beginning.
OverviewOpen ==
    /\ Enter("overview") /\ UNCHANGED <<loading, rust, overviewReq>>
    /\ \E row \in {NoRow} \cup ToSet(overview.nodes) :
         /\ overview' = [overview EXCEPT !.activeNode = row]
         /\ overviewPanel' = clockFor([interval |-> TRUE, timerRemoved |-> FALSE], row)

OverviewClose ==
    /\ Leave("overview") /\ remove({"NODES_OVERVIEW_INIT"})
    /\ overview' = initialOverview
    /\ overviewPanel' = [interval |-> FALSE, timerRemoved |-> FALSE]
    /\ UNCHANGED <<rust, overviewReq>>
-----------------------------------------------------------------------------
OverviewInit ==
    /\ overview = initialOverview
    /\ overviewReq = {}
    /\ overviewPanel = [interval |-> FALSE, timerRemoved |-> FALSE]

OverviewNext ==
    \/ OverviewGetNodes \/ GetNodeStatusSuccess \/ OverviewSort \/ OverviewRowClick
    \/ OverviewClosePanel \/ OverviewOpen \/ OverviewClose

\* Whatever the order of the answers, also of those to a page that was closed,
\* no node has two rows and no configured node loses its own.
OverviewOneRowEach ==
    \A name \in AppNodes :
        LET rows == {i \in DOMAIN overview.nodes : overview.nodes[i].name = name}
        IN  (rows = {} /\ name \in CustomNodes) \/ (\E i \in rows : rows = {i})

\* The side panel shows the node as it is in the table: an answer that changes
\* the row changes the selected node with it.
OverviewActiveFresh ==
    overview.activeNode # NoRow =>
        \E i \in DOMAIN overview.nodes : overview.nodes[i] = overview.activeNode

\* The clock of the side panel runs exactly while the node it is about has
\* received a best tip, through all changes of the selection and all answers.
OverviewClockRuns ==
    page = "overview" /\ overview.activeNode # NoRow =>
        (overviewPanel.interval <=> overview.activeNode.received > 0)

\* Bootstrap goes through the ledgers in order: one that has been begun means
\* that all before it are complete, whichever times the node did not report.
LedgersInOrder ==
    \A i \in DOMAIN overview.nodes :
        LET l == overview.nodes[i].ledgers
        IN  /\ l.nextEpoch.state # "pending" => l.stakingEpoch.state = "success"
            /\ l.rootSnarked.state # "pending" => l.nextEpoch.state = "success"
            /\ l.rootStaged.state # "pending" => l.rootSnarked.state = "success"
=============================================================================
