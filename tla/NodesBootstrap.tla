---------------------------- MODULE NodesBootstrap ----------------------------
(***************************************************************************)
(* The page "Nodes > Bootstrap": the synchronization attempts of the       *)
(* active node, fetched every ten seconds.                                 *)
(***************************************************************************)
EXTENDS NodeTips, FiniteSetsExt

VARIABLES bootstrap,       \* the slice nodes.bootstrap
          bootstrapFx,     \* pendingRequest of the effects
          bootstrapReq,    \* the request of getNodes$
          bootstrapPanel   \* the rows of the table; the number of the attempt and
                           \* the summary in the side panel

bootstrapVars == <<bootstrap, bootstrapFx, bootstrapReq, bootstrapPanel>>

initialBootstrap ==
    [nodes |-> <<>>, activeNode |-> NoRow, openSidePanel |-> isDesktop,
     sort |-> [sortBy |-> "index", sortDirection |-> "ascending"]]

initialBootstrapPanel ==
    [rows |-> <<>>, indexFromRoute |-> -1, activeNodeIndex |-> -1, appliedMax |-> 0, appliedTotal |-> 0]

Applied(blocks) == SelectSeq(blocks, LAMBDA b : b.status = "Applied" /\ b.applyStart # 0)

Durations(blocks) == {b.applyDuration : b \in ToSet(Applied(blocks))}

\* The figures about fetched blocks are computed like those about applied ones;
\* an average is left out.
getBootstrapNodeTips(syncTips, name) ==
    LET nodes == Online(getNodeTips(syncTips, name))
    IN  [i \in DOMAIN nodes |->
           [name |-> name, index |-> i - 1, bestTip |-> nodes[i].bestTip,
            appliedBlocks |-> Len(Applied(nodes[i].blocks)),
            appliedBlocksMin |-> IF Durations(nodes[i].blocks) = {} THEN 0
                                 ELSE Min(Durations(nodes[i].blocks)),
            appliedBlocksMax |-> Max(Durations(nodes[i].blocks) \cup {0})]]

\* indexOf: -1 when there is none.
indexOf(rows, row) ==
    IF \E i \in DOMAIN rows : rows[i] = row THEN (CHOOSE i \in DOMAIN rows : rows[i] = row) - 1 ELSE -1

\* The table and the summary of NodesBootstrapOverviewComponent ignore an empty
\* list and keep what they show.
overviewOf(panel, nodes) ==
    IF nodes = <<>> THEN panel
    ELSE [panel EXCEPT !.rows = nodes, !.indexFromRoute = -1,
                       !.appliedMax = Max({nodes[i].appliedBlocksMax : i \in DOMAIN nodes}),
                       !.appliedTotal = FoldFunction(LAMBDA n, acc : acc + n.appliedBlocks, 0, nodes)]

\* The panel hears of the active node and then of the nodes, each when changed.
\* Only a selected node opens the screen with the number.
BootstrapShown(state) ==
    /\ bootstrap' = state
    /\ bootstrapPanel' =
         IF page # "bootstrap" THEN bootstrapPanel
         ELSE [overviewOf(bootstrapPanel, state.nodes) EXCEPT !.activeNodeIndex =
                 IF state.nodes # bootstrap.nodes
                    \/ (state.activeNode # bootstrap.activeNode /\ state.activeNode # NoRow)
                 THEN indexOf(state.nodes, state.activeNode) ELSE @]
-----------------------------------------------------------------------------
\* getNodes$: Bootstrap is asked of the node that is active now.
bootstrapGet ==
    /\ bootstrapFx' = [pendingRequest |-> TRUE]
    /\ bootstrapReq' = switchMap(bootstrapReq, [node |-> rust'])

BootstrapTick ==
    /\ On("bootstrap") /\ UNCHANGED <<loading, rust, bootstrap, bootstrapPanel>>
    /\ ~bootstrapFx.pendingRequest /\ bootstrapGet

\* A change of the node is not held up by the request to the previous one.
BootstrapNodeChange ==
    /\ On("bootstrap") /\ changeRustNode /\ add("NODES_BOOTSTRAP_INIT")
    /\ bootstrapGet
    /\ UNCHANGED <<bootstrap, bootstrapPanel>>

SetActiveBlockReduced(state, row) ==
    [state EXCEPT !.activeNode = row, !.openSidePanel = IF row # NoRow THEN TRUE ELSE @]

\* With a first list the table selects the attempt named in the URL.
fromRoute(state, index) ==
    LET row == find(state.nodes, "index", index)
    IN  IF state.nodes = <<>> \/ row = NoRow THEN state ELSE SetActiveBlockReduced(state, row)

\* A failed request is an empty list.
BootstrapGetNodesSuccess ==
    \E r \in bootstrapReq, syncTips \in SyncTips \cup {<<>>} :
        LET nodes == getBootstrapNodeTips(syncTips, r.node)
            reduced == [bootstrap EXCEPT
                          !.nodes = sort(nodes, bootstrap.sort),
                          !.activeNode = IF @ = NoRow THEN NoRow ELSE find(nodes, "index", @.index)]
        IN  /\ BootstrapShown(IF page = "bootstrap" THEN fromRoute(reduced, bootstrapPanel.indexFromRoute)
                              ELSE reduced)
            /\ bootstrapFx' = [pendingRequest |-> FALSE]
            /\ bootstrapReq' = Completed(bootstrapReq, r)
            /\ remove({"NODES_BOOTSTRAP_INIT"}) /\ UNCHANGED <<page, rust>>

BootstrapRowClick ==
    /\ On("bootstrap") /\ UNCHANGED <<loading, rust, bootstrapFx, bootstrapReq>>
    /\ \E row \in Clickable(bootstrapPanel.rows, "index", bootstrap.activeNode) :
         BootstrapShown(SetActiveBlockReduced(bootstrap, row))

BootstrapRemoveActive ==
    /\ On("bootstrap") /\ UNCHANGED <<loading, rust, bootstrapFx, bootstrapReq>>
    /\ bootstrap.activeNode # NoRow
    /\ BootstrapShown(SetActiveBlockReduced(bootstrap, NoRow))

BootstrapSort ==
    /\ On("bootstrap") /\ UNCHANGED <<loading, rust, bootstrapFx, bootstrapReq>>
    /\ \E column \in {"index", "appliedBlocks"} :
         LET s == sortTable(bootstrap.sort, column)
         IN  BootstrapShown([bootstrap EXCEPT !.sort = s, !.nodes = sort(@, s)])

BootstrapToggleSidePanel ==
    /\ On("bootstrap") /\ UNCHANGED <<loading, rust, bootstrapFx, bootstrapReq>>
    /\ BootstrapShown([bootstrap EXCEPT !.openSidePanel = ~@,
                                        !.activeNode = IF bootstrap.openSidePanel THEN NoRow ELSE @])

BootstrapOpen ==
    /\ Enter("bootstrap") /\ UNCHANGED <<loading, rust, bootstrapFx, bootstrapReq>>
    /\ \E index \in {-1, 0} :
         /\ bootstrap' = fromRoute(bootstrap, index)
         /\ bootstrapPanel' =
              [overviewOf([initialBootstrapPanel EXCEPT !.indexFromRoute = index], bootstrap.nodes)
                 EXCEPT !.activeNodeIndex = indexOf(bootstrap'.nodes, bootstrap'.activeNode)]

BootstrapClose_ResetsPending ==
    /\ Leave("bootstrap") /\ remove({"NODES_BOOTSTRAP_INIT"})
    /\ bootstrap' = initialBootstrap
    /\ bootstrapPanel' = initialBootstrapPanel
    /\ bootstrapFx' = [pendingRequest |-> FALSE]
    /\ UNCHANGED <<rust, bootstrapReq>>

\* Close passes the filter of getNodes$, and cancels, only when nothing is
\* pending: a request in flight answers into the closed slice.
BootstrapClose ==
    /\ Leave("bootstrap") /\ remove({"NODES_BOOTSTRAP_INIT"})
    /\ bootstrap' = initialBootstrap
    /\ bootstrapPanel' = initialBootstrapPanel
    /\ UNCHANGED <<rust, bootstrapFx, bootstrapReq>>
-----------------------------------------------------------------------------
BootstrapInit ==
    /\ bootstrap = initialBootstrap
    /\ bootstrapFx = [pendingRequest |-> FALSE]
    /\ bootstrapReq = {}
    /\ bootstrapPanel = initialBootstrapPanel

BootstrapNext ==
    \/ BootstrapTick \/ BootstrapNodeChange \/ BootstrapGetNodesSuccess \/ BootstrapRowClick
    \/ BootstrapRemoveActive \/ BootstrapSort \/ BootstrapToggleSidePanel
    \/ BootstrapOpen \/ BootstrapClose

\* "Blocks of attempt n": the number in the side panel is the place of the
\* selected attempt in the list, after every answer and every sort.  (It is 0
\* for a row that the table kept from before an empty answer.)
BootstrapIndexSound ==
    page = "bootstrap" /\ bootstrap.activeNode # NoRow =>
        bootstrapPanel.activeNodeIndex = indexOf(bootstrap.nodes, bootstrap.activeNode)

\* A selected attempt can be seen: while the side panel is closed there is none.
BootstrapActiveVisible == bootstrap.activeNode # NoRow => bootstrap.openSidePanel
=============================================================================
