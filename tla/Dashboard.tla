------------------------------ MODULE Dashboard ------------------------------
(***************************************************************************)
(* The frame of the application: the list of nodes and the active one, the *)
(* status the toolbar polls for, the node picker, the menu, and what of it *)
(* is kept in the local storage (the web node is left out); and the page   *)
(* "Dashboard": the peers of the active node and how far it has            *)
(* synchronized.  It asks again on a timer whose interval follows the      *)
(* status in the toolbar.  Leaving the page cancels and forgets nothing.   *)
(***************************************************************************)
EXTENDS NodeTips

CONSTANTS AppConfigs,    \* CONFIG.configs, a sequence of nodes
          NewNodes,      \* what the user may enter in the form for a new node
          NodeName,      \* the name of each node; names need not differ
          NodeFeatures,  \* the pages enabled for each node
          StoredNodes,   \* the custom nodes of earlier sessions, a sequence
          SyncPhases,    \* the phases a node reports
          MaxCustom      \* bound on the custom nodes

ASSUME AppShellAssumption ==
    /\ AppConfigs # <<>> /\ MaxCustom \in Nat
    /\ AppConfigs \in Seq(ToSet(AppConfigs)) /\ ToSet(AppConfigs) \cap NewNodes = {}
    /\ StoredNodes \in Seq(NewNodes)
    /\ ToSet(AppConfigs) \cup NewNodes \subseteq DOMAIN NodeName \cap DOMAIN NodeFeatures
    /\ \A n \in NewNodes : \E c \in ToSet(AppConfigs) : NodeName[c] # NodeName[n]

VARIABLES app,         \* the slice app
          appReq,      \* requests of getNodeDetails$, getNodeEnvBuild$; requestInProgress
          appPicker,   \* the overlay of ServerStatusComponent
          appStorage   \* local storage, and the node named in the URL

appVars == <<app, appReq, appPicker, appStorage>>

NoEnv == 0
NoPicker == [overlay |-> "none"]
NewNodeForm == [overlay |-> "new-node"]

getStatus(phase) ==
    IF phase \in {"Bootstrap", "Catchup", "Synced"} THEN phase ELSE "Pending"

getNodes(storage) == AppConfigs \o storage.customNodes

getActiveNode(nodes, name) ==
    LET named == filter(nodes, {n \in ToSet(nodes) : NodeName[n] = name})
    IN  IF named = <<>> THEN Head(nodes) ELSE Head(named)

\* The application after AppActions.initSuccess.
initialApp(storage) ==
    [nodes |-> getNodes(storage), activeNode |-> getActiveNode(getNodes(storage), storage.urlNode),
     details |-> [status |-> "Pending", node |-> NoEnv], envBuild |-> NoEnv,
     menu |-> [collapsed |-> storage.menuCollapsed, isMobile |-> FALSE, open |-> TRUE]]

\* initSuccess$ asks for the build of the active node.
initialAppReq(node) == [details |-> {}, inProgress |-> FALSE, env |-> {[node |-> node]}]
-----------------------------------------------------------------------------
\* getNodeDetails$: dropped while a request is under way, whatever node it went to.
getNodeDetails(req, node) ==
    IF req.inProgress THEN req
    ELSE [req EXCEPT !.inProgress = TRUE, !.details = switchMap(@, [node |-> node])]

\* timer(1000, 5000) of AppComponent.
AppTick == appReq' = getNodeDetails(appReq, rust) /\ UNCHANGED <<app, appPicker, appStorage>>

GetNodeDetailsSuccess ==
    \E r \in appReq.details, phase \in SyncPhases :
        /\ app' = [app EXCEPT !.details = [status |-> getStatus(phase), node |-> r.node]]
        /\ appReq' = [appReq EXCEPT !.details = Completed(@, r), !.inProgress = FALSE]
        /\ UNCHANGED <<appPicker, appStorage>>

GetNodeDetailsError_KeepsFlag ==
    \E r \in appReq.details :
        /\ app' = [app EXCEPT !.details = [status |-> "Offline", node |-> r.node]]
        /\ appReq' = [appReq EXCEPT !.details = catchErrorAndRepeat(@)]
        /\ UNCHANGED <<appPicker, appStorage>>

GetNodeDetailsError ==
    \E r \in appReq.details :
        /\ app' = [app EXCEPT !.details = [status |-> "Offline", node |-> r.node]]
        /\ appReq' = [appReq EXCEPT !.details = catchErrorAndRepeat(@), !.inProgress = FALSE]
        /\ UNCHANGED <<appPicker, appStorage>>

\* An error of the request is a build that is undefined.
GetNodeEnvBuildEnds ==
    \E r \in appReq.env, answered \in BOOLEAN :
        /\ app' = [app EXCEPT !.envBuild = IF answered THEN r.node ELSE NoEnv]
        /\ appReq' = [appReq EXCEPT !.env = Completed(@, r)]
        /\ UNCHANGED <<appPicker, appStorage>>
-----------------------------------------------------------------------------
\* changeActiveNode and onNodeChange$.  That effect is not a dispatching one: the
\* details and the build it names at its end are not asked for.
changeActiveNode(n) ==
    /\ app' = [app EXCEPT !.activeNode = n]
    /\ rust' = n
    /\ appStorage' = [appStorage EXCEPT !.urlNode = NodeName[n]]

isFeatureEnabled(n, feature) == feature = "none" \/ feature \in NodeFeatures[n]

\* openNodePicker: the picker is given the nodes and the active node as they are
\* when it opens; a second click closes it.
openNodePicker ==
    /\ appPicker' = IF appPicker # NoPicker THEN NoPicker
                    ELSE [overlay |-> "picker", nodes |-> app.nodes, filteredNodes |-> app.nodes,
                          activeNode |-> app.activeNode]
    /\ UNCHANGED <<rust, app, appReq, appStorage>>

\* The search looks through the nodes the picker was opened with, also through
\* those deleted since.
listenToNodeSearch ==
    /\ appPicker.overlay = "picker"
    /\ \E name \in {NodeName[n] : n \in ToSet(appPicker.nodes)} :
         appPicker' = [appPicker EXCEPT !.filteredNodes =
                           filter(appPicker.nodes, {n \in ToSet(appPicker.nodes) : NodeName[n] = name})]
    /\ UNCHANGED <<rust, app, appReq, appStorage>>

selectNode ==
    /\ appPicker.overlay = "picker"
    /\ \E n \in ToSet(appPicker.filteredNodes) :
         IF n = appPicker.activeNode THEN UNCHANGED <<rust, app, appStorage>> ELSE changeActiveNode(n)
    /\ appPicker' = NoPicker /\ UNCHANGED appReq

openNewNode ==
    /\ appPicker.overlay = "picker" /\ appPicker' = NewNodeForm
    /\ UNCHANGED <<rust, app, appReq, appStorage>>

addNode ==
    /\ appPicker = NewNodeForm /\ Len(appStorage.customNodes) < MaxCustom
    /\ \E n \in NewNodes :
         /\ app' = [app EXCEPT !.nodes = <<n>> \o @]
         /\ appStorage' = [appStorage EXCEPT !.customNodes = <<n>> \o @]
    /\ appPicker' = NoPicker /\ UNCHANGED <<rust, appReq>>

closeNewNode ==
    appPicker = NewNodeForm /\ appPicker' = NoPicker /\ UNCHANGED <<rust, app, appReq, appStorage>>

Unnamed(nodes, n) == filter(nodes, {x \in ToSet(nodes) : NodeName[x] # NodeName[n]})

\* A custom node is deleted by its name, with all that share it.  When it was the
\* active one the first node becomes active, but requests still go to the old.
deleteNode(n) ==
    LET nodes == Unnamed(app.nodes, n)
    IN  /\ app' = [app EXCEPT !.nodes = nodes,
                      !.activeNode = IF NodeName[@] = NodeName[n] THEN Head(nodes) ELSE @]
        /\ appStorage' = [appStorage EXCEPT !.customNodes = Unnamed(@, n)]
        /\ UNCHANGED <<rust, appReq>>

deleteCustomNode ==
    /\ appPicker.overlay = "picker"
    /\ \E n \in ToSet(appPicker.filteredNodes) \cap NewNodes :
         /\ deleteNode(n)
         /\ appPicker' = [appPicker EXCEPT !.filteredNodes = filter(@, ToSet(@) \ {n})]

\* toggleMenu: the menu opens and closes on a phone and collapses elsewhere.
toggleMenu ==
    /\ IF app.menu.isMobile
       THEN app' = [app EXCEPT !.menu.open = ~@] /\ UNCHANGED appStorage
       ELSE /\ app' = [app EXCEPT !.menu.collapsed = ~@]
            /\ appStorage' = [appStorage EXCEPT !.menuCollapsed = ~app.menu.collapsed]
    /\ UNCHANGED <<rust, appReq, appPicker>>

toggleMobile ==
    /\ app' = [app EXCEPT !.menu.isMobile = ~@, !.menu.open = app.menu.isMobile]
    /\ UNCHANGED <<rust, appReq, appPicker, appStorage>>

ReloadApp ==
    LET fresh == initialApp(appStorage)
    IN  /\ app' = fresh /\ rust' = fresh.activeNode /\ appReq' = initialAppReq(fresh.activeNode)
        /\ appPicker' = NoPicker /\ UNCHANGED appStorage
-----------------------------------------------------------------------------
AppInit ==
    /\ appStorage = [customNodes |-> StoredNodes, menuCollapsed |-> FALSE, urlNode |-> NodeName[rust]]
    /\ app = initialApp(appStorage) /\ appReq = initialAppReq(rust) /\ appPicker = NoPicker

AppStatusNext == AppTick \/ GetNodeDetailsSuccess \/ GetNodeDetailsError \/ GetNodeEnvBuildEnds

NodePickerNext ==
    \/ openNodePicker \/ listenToNodeSearch \/ selectNode \/ openNewNode \/ addNode \/ closeNewNode
    \/ deleteCustomNode \/ ReloadApp

MenuNext == toggleMenu \/ toggleMobile \/ ReloadApp

\* What a reload would bring back is what is shown: the custom nodes of the
\* picker, in their order, and the collapsed menu are those of the local storage,
\* also after nodes that share a name have come and gone.
StorageMatches ==
    /\ filter(app.nodes, NewNodes) = appStorage.customNodes
    /\ app.menu.collapsed = appStorage.menuCollapsed
-----------------------------------------------------------------------------
(* The page.                                                               *)

CONSTANTS PeersAnswers,      \* /state/peers: sequences of peers
          ProgressAnswers,   \* /state/message-progress
          FrontierLength     \* 291: the blocks from the root to the best tip

ASSUME DashboardAssumption == FrontierLength \in Nat \ {0, 1}

VARIABLES dashboard,       \* the slice dashboard
          dashboardReq,    \* the requests of getData$, and its pendingRequest
          dashboardView    \* what DashboardComponent keeps beside the store

dashboardVars == <<dashboard, dashboardReq, dashboardView>>

NoStats == [fetched |-> 0, estimation |-> 0]
NoProgress == [requests |-> <<>>, staking |-> NoStats, next |-> NoStats, snarked |-> NoStats, staged |-> NoStats]

initialPeersStats == [connected |-> 0, connecting |-> 0, disconnected |-> 0, answered |-> FALSE]

initialDashboard(peersSort) ==
    [peers |-> <<>>, peersStats |-> initialPeersStats, peersSort |-> peersSort,
     nodes |-> <<>>, rpcStats |-> NoProgress]

initialView ==
    [updateAction |-> "Connecting to peers", connected |-> FALSE, connectedProgress |-> FALSE,
     ledgerProgress |-> 0, blockSyncProgress |-> 0, interval |-> 1000, lastStatus |-> "undefined"]
-----------------------------------------------------------------------------
\* GET_DATA_SUCCESS.  A peer without statistics has made no requests; answered
\* tells the stored statistics from the initial ones.
GetDataReduced(peers, tips, rpcStats) ==
    LET Requests(id) == LET r == find(rpcStats.requests, "peerId", id)
                        IN  IF r = NoRow THEN 0 ELSE r.requestsMade
        rows == [i \in DOMAIN peers |-> [requests |-> Requests(peers[i].peerId)] @@ peers[i]]
        With(status) == Len(SelectSeq(rows, LAMBDA p : p.status = status))
    IN  [dashboard EXCEPT !.peers = sort(rows, dashboard.peersSort), !.nodes = tips, !.rpcStats = rpcStats,
            !.peersStats = [connected |-> With("Connected"), connecting |-> With("Connecting"),
                            disconnected |-> With("Disconnected"), answered |-> TRUE]]

\* listenToPeersChanges.
peersShown(view, stats) ==
    LET shown == IF view.connected /\ stats.connected > 0 THEN view
                 ELSE IF stats.connected > 0
                 THEN [view EXCEPT !.updateAction = "Downloading Staking Epoch Ledger", !.connectedProgress = TRUE]
                 ELSE [view EXCEPT !.updateAction = IF stats.connecting > 0 THEN "Connecting" ELSE "Looking for peers",
                           !.connectedProgress = FALSE, !.ledgerProgress = 0, !.blockSyncProgress = 0]
    IN  [shown EXCEPT !.connected = stats.connected > 0]

\* The share of a ledger that is there, in percent.
ledgerShare(ledger, stats) ==
    IF ledger.state = "success" THEN 100
    ELSE IF stats.estimation = 0 THEN 0 ELSE (stats.fetched * 100) \div stats.estimation

ledgersShare(ledgers, rpcStats) ==
    (ledgerShare(ledgers.stakingEpoch, rpcStats.staking) + ledgerShare(ledgers.nextEpoch, rpcStats.next)
     + ledgerShare(ledgers.rootSnarked, rpcStats.snarked) + ledgerShare(ledgers.rootStaged, rpcStats.staged)) \div 4

\* The last ledger that is complete names what the node is at, whatever the ones
\* before it are.
ledgerAction(ledgers, before) ==
    IF ledgers.rootStaged.state = "success" THEN "Fetching Blocks"
    ELSE IF ledgers.rootSnarked.state = "success" THEN "Downloading Root Staged Ledger"
    ELSE IF ledgers.nextEpoch.state = "success" THEN "Downloading Root Snarked Ledger"
    ELSE IF ledgers.stakingEpoch.state = "success" THEN "Downloading Next Epoch Ledger" ELSE before

\* Math.round of the share of the blocks in one of the statuses.
percent(blocks, statuses) ==
    LET count == Len(SelectSeq(blocks, LAMBDA b : b.status \in statuses))
    IN  (200 * count + FrontierLength) \div (2 * FrontierLength)

blocksAction(fetched, applied) ==
    IF fetched < 100 THEN "Fetching Blocks" ELSE IF applied < 100 THEN "Applying Blocks" ELSE ""

\* listenToNodesChanges.  The first block is left out of both counts.
nodesShown(view, nodes, rpcStats) ==
    IF nodes = <<>> THEN [view EXCEPT !.ledgerProgress = 0, !.blockSyncProgress = 0]
    ELSE LET ledgers == nodes[1].ledgers
             total == ledgersShare(ledgers, rpcStats)
             blocks == IF nodes[1].blocks = <<>> THEN <<>> ELSE Tail(nodes[1].blocks)
             applied == percent(blocks, {"Applied"})
             shown == [view EXCEPT !.updateAction = ledgerAction(ledgers, @), !.ledgerProgress = total]
         IN  IF total # 100 THEN [shown EXCEPT !.blockSyncProgress = 0]
             ELSE [shown EXCEPT !.blockSyncProgress = applied,
                       !.updateAction = blocksAction(percent(blocks, {"Fetched", "Applying", "Applied"}), applied)]

\* DashboardBlocksSyncComponent: a node that has applied all its blocks is asked
\* for its status at once.
allApplied(nodes) ==
    /\ nodes # <<>> /\ Len(nodes[1].blocks) > 1
    /\ \A i \in 2..Len(nodes[1].blocks) : nodes[1].blocks[i].status = "Applied"

\* resetTimer, when the status in the toolbar is another one.
statusShown(view, status) ==
    [view EXCEPT !.lastStatus = status, !.interval = IF status \in {"Synced", "Offline"} THEN 5000 ELSE 1000]
-----------------------------------------------------------------------------
\* getData$.  Only a forced request takes the place of one that is pending.
getData(req, force, node) ==
    IF req.pending /\ ~force THEN req
    ELSE [pending |-> TRUE, sent |-> switchMap(req.sent, [node |-> node, stale |-> FALSE])]

\* DashboardBlocksSyncComponent, told of nodes and peers.
getNodeDetailsIfApplied(nodes) ==
    appReq' = IF allApplied(nodes) THEN getNodeDetails(appReq, rust) ELSE appReq

\* The data of the last visit are shown until the first answer.
DashboardOpen ==
    /\ Enter("dashboard") /\ UNCHANGED <<rust, loading, dashboard, app, appPicker, appStorage>>
    /\ getNodeDetailsIfApplied(dashboard.nodes)
    /\ dashboardReq' = getData(dashboardReq, FALSE, rust)
    /\ dashboardView' = nodesShown(statusShown(initialView, app.details.status), dashboard.nodes, dashboard.rpcStats)

DashboardTick ==
    /\ On("dashboard") /\ dashboardReq' = getData(dashboardReq, FALSE, rust)
    /\ UNCHANGED <<rust, loading, dashboard, dashboardView, appVars>>

DashboardNodeChange_NotForced ==
    \E n \in ToSet(app.nodes) \ {app.activeNode} :
        /\ page = "dashboard" /\ changeActiveNode(n) /\ UNCHANGED <<loading, appReq, appPicker>>
        /\ page' = IF isFeatureEnabled(n, "dashboard") THEN page ELSE "none"
        /\ dashboardReq' = getData(dashboardReq, FALSE, n)
        /\ UNCHANGED <<dashboard, dashboardView>>

\* listenToNodeChanging: the slice is emptied before node is asked, and the views
\* with it, unless the page is left.
NodeShown(node) ==
    LET emptied == initialDashboard(dashboard.peersSort)
        shown == IF dashboard.peersStats.answered THEN peersShown(dashboardView, emptied.peersStats) ELSE dashboardView
        asked == getData(dashboardReq, TRUE, node)
    IN  /\ dashboardReq' = [asked EXCEPT !.sent = IF page' = page THEN @ ELSE Stale(@)]
        /\ dashboard' = emptied
        /\ dashboardView' = IF page' = page THEN nodesShown(shown, <<>>, NoProgress) ELSE initialView

\* A node without a dashboard is shown its first page instead.
DashboardNodeChange ==
    \E n \in ToSet(app.nodes) \ {app.activeNode} :
        /\ page = "dashboard" /\ changeActiveNode(n) /\ UNCHANGED <<loading, appReq, appPicker>>
        /\ page' = IF isFeatureEnabled(n, "dashboard") THEN page ELSE "none"
        /\ NodeShown(n)

\* A custom node is deleted beside the open page.  When it was the active one, the
\* node that is asked again is still the deleted one.
DashboardDeleteNode ==
    \E n \in ToSet(app.nodes) \cap NewNodes :
        /\ On("dashboard") /\ deleteNode(n) /\ UNCHANGED <<loading, appPicker>>
        /\ IF app'.activeNode = app.activeNode THEN UNCHANGED dashboardVars ELSE NodeShown(rust)

Shown(state) ==
    /\ dashboard' = state
    /\ dashboardView' = IF page # "dashboard" THEN dashboardView
                        ELSE nodesShown(peersShown(dashboardView, state.peersStats), state.nodes, state.rpcStats)
    /\ IF page = "dashboard" THEN getNodeDetailsIfApplied(state.nodes) ELSE UNCHANGED appReq

\* The three answers come together; a failure of the second is that of an
\* offline node.
GetDataSuccess ==
    /\ \E r \in dashboardReq.sent, peers \in PeersAnswers, syncTips \in SyncTips \cup {<<>>}, rpcStats \in ProgressAnswers :
         /\ dashboardReq' = [pending |-> FALSE, sent |-> Completed(dashboardReq.sent, r)]
         /\ Shown(GetDataReduced(peers, getNodeTips(syncTips, r.node), rpcStats))
    /\ UNCHANGED <<page, loading, rust, app, appPicker, appStorage>>

GetDataError ==
    /\ dashboardReq.sent # {}
    /\ dashboardReq' = [pending |-> FALSE, sent |-> catchErrorAndRepeat(dashboardReq.sent)]
    /\ Shown(GetDataReduced(<<>>, <<>>, NoProgress))
    /\ UNCHANGED <<page, loading, rust, app, appPicker, appStorage>>

PeersSort ==
    /\ On("dashboard")
    /\ LET s == sortTable(dashboard.peersSort, "height")
       IN  dashboard' = [dashboard EXCEPT !.peersSort = s, !.peers = sort(@, s)]
    /\ getNodeDetailsIfApplied(dashboard.nodes)
    /\ UNCHANGED <<loading, rust, dashboardReq, dashboardView, app, appPicker, appStorage>>

\* The toolbar's status comes or changes while the page is open.
StatusShown ==
    /\ UNCHANGED <<page, loading, rust, dashboard, dashboardReq>>
    /\ dashboardView' = IF page = "dashboard" /\ app'.details.status # dashboardView.lastStatus
                        THEN statusShown(dashboardView, app'.details.status) ELSE dashboardView

DashboardStatusNext == AppStatusNext /\ StatusShown

DashboardLeave ==
    /\ Leave("dashboard") /\ dashboardView' = initialView
    /\ dashboardReq' = [dashboardReq EXCEPT !.sent = Stale(@)]
    /\ UNCHANGED <<rust, loading, dashboard, appVars>>
-----------------------------------------------------------------------------
DashboardInit ==
    /\ dashboard = initialDashboard([sortBy |-> "height", sortDirection |-> "descending"])
    /\ dashboardReq = [pending |-> FALSE, sent |-> {}] /\ dashboardView = initialView

DashboardNext ==
    \/ DashboardOpen \/ DashboardTick \/ DashboardNodeChange \/ DashboardDeleteNode
    \/ GetDataSuccess \/ GetDataError \/ PeersSort \/ DashboardStatusNext \/ DashboardLeave

\* The three stages of the synchronization fill up in order: blocks count only
\* when all ledgers are there, also after peers, nodes and answers have changed.
StagesInOrder ==
    page = "dashboard" /\ dashboardView.blockSyncProgress > 0 => dashboardView.ledgerProgress = 100

\* What the open dashboard is waiting for comes from the node that requests go to: no
\* answer of one that was active before can follow, except to a page left since.  That
\* is the active node, unless that one has been deleted.
DashboardAsksActive ==
    page = "dashboard" => \A r \in dashboardReq.sent : r.stale \/ r.node = rust

\* An open dashboard asks as often as the status in the toolbar calls for.
DashboardTimerFits ==
    page = "dashboard" =>
        dashboardView.interval = IF app.details.status \in {"Synced", "Offline"} THEN 5000 ELSE 1000

\* The toolbar catches up with the node: when the user settles on one, a status
\* or a failure of that node is shown again and again.
StatusCatchesUp ==
    \A n \in ToSet(AppConfigs) : <>[](rust = n /\ page = "dashboard") => []<>(app.details.node = n)

\* The dashboard follows the node that is active and its status, and what the frame
\* shows of nodes and menu outlives a reload.
FrameSound == StagesInOrder /\ DashboardAsksActive /\ DashboardTimerFits /\ StorageMatches
=============================================================================
