------------------------------ MODULE ToolPages ------------------------------
(***************************************************************************)
(* The pages of the sections "Snarks", "State", "Mempool" and "Benchmarks" *)
(* and the dashboard in one application, with the frame around them.  A    *)
(* session visits some of them, or uses the node picker or the menu;       *)
(* "none" stands for any other page.                                       *)
(***************************************************************************)
EXTENDS SnarksWorkPool, ScanState, StateActions, BenchmarksWallets, Mempool, Dashboard

CONSTANT Sessions   \* what the user visits: sets of pages, "node-picker", "menu"

\* On the dashboard the node picker is part of the page's own actions.
ASSUME SessionsAssumption == \A s \in Sessions : "dashboard" \in s => s \cap {"node-picker", "menu"} = {}

VARIABLE session

sectionVars == <<workPoolVars, scanVars, stateActionsVars, walletsVars, mempoolVars>>
frameVars == <<appVars, dashboardVars>>
toolPagesVars == <<layoutVars, rust, session, sectionVars, frameVars>>

\* The frame takes part in the sessions that look at it.
Framed == session \cap {"dashboard", "node-picker", "menu"} # {}

\* No node is named in the URL.
ToolPagesInit ==
    /\ LayoutInit /\ RustInit /\ rust = Head(AppConfigs) /\ session \in Sessions /\ WorkPoolInit /\ ScanInit
    /\ StateActionsInit /\ WalletsInit /\ MempoolInit /\ AppInit /\ DashboardInit

\* Another node is picked on a page that fetches nothing for it.
PickNode == On("none") /\ changeRustNode /\ UNCHANGED <<loading, sectionVars>>

SectionNext ==
    \/ WorkPoolNext /\ UNCHANGED <<scanVars, stateActionsVars, walletsVars, mempoolVars>>
    \/ ScanNext /\ UNCHANGED <<workPoolVars, stateActionsVars, walletsVars, mempoolVars>>
    \/ StateActionsNext /\ UNCHANGED <<workPoolVars, scanVars, walletsVars, mempoolVars>>
    \/ WalletsNext /\ UNCHANGED <<workPoolVars, scanVars, stateActionsVars, mempoolVars>>
    \/ MempoolNext /\ UNCHANGED <<workPoolVars, scanVars, stateActionsVars, walletsVars>>
    \/ PickNode

FrameNext ==
    \/ "dashboard" \in session /\ DashboardNext
    \/ "node-picker" \in session /\ NodePickerNext /\ UNCHANGED <<layoutVars, dashboardVars>>
    \/ "menu" \in session /\ MenuNext /\ UNCHANGED <<layoutVars, dashboardVars>>

\* The user reloads an application that has ended.
Reload ==
    /\ page = "ended" /\ page' = "none" /\ loading' = {} /\ UNCHANGED <<rust, session, frameVars>>
    /\ workPool' = initialWorkPool /\ workPoolFx' = initialWorkPoolFx
    /\ workPoolReq' = [pool |-> {}, detail |-> {}] /\ workPoolRoute' = NoJobId
    /\ scan' = initialScan /\ scanFx' = [inProgress |-> Null] /\ scanReq' = {} /\ scanUrl' = initialScanUrl
    /\ stateActions' = initialStateActions /\ stateActionsReq' = initialStateActionsReq
    /\ wallets' = initialWallets /\ walletsReq' = initialWalletsReq
    /\ mempool' = initialMempool /\ mempoolReq' = {} /\ mempoolView' = initialMempoolView

ToolPagesNext ==
    \/ /\ page # "ended" /\ UNCHANGED session
       /\ \/ ~Framed /\ SectionNext /\ UNCHANGED frameVars
          \/ Framed /\ FrameNext /\ UNCHANGED sectionVars
       /\ page' \in session \cup {"none", "ended"}
    \/ Reload

\* The timer of the toolbar goes on, and the browser ends each of its requests by
\* an answer or by a failure.
StatusTick == "dashboard" \in session /\ AppTick /\ StatusShown /\ UNCHANGED <<session, sectionVars>>
StatusEnds ==
    /\ "dashboard" \in session /\ (GetNodeDetailsSuccess \/ GetNodeDetailsError)
    /\ StatusShown /\ UNCHANGED <<session, sectionVars>>

ToolPagesSpec ==
    /\ ToolPagesInit /\ [][ToolPagesNext]_toolPagesVars
    /\ WF_toolPagesVars(StatusTick) /\ WF_toolPagesVars(StatusEnds)

\* A loading bar ends: while it runs for a scan state or for the details of a job,
\* the request whose answer or failure ends it is on its way.  The bar of the list
\* of jobs has its request as well, unless the flag of an earlier one holds it back,
\* which a page left too early leaves set for good.
SnarksLoadingHasRequest ==
    /\ "SCAN_STATE_INIT" \in loading => scanReq # {}
    /\ "SNARKS_WORK_POOL_GET_WORK_POOL_DETAIL" \in loading => workPoolReq.detail # {}
    /\ "SNARKS_WORK_POOL_INIT" \in loading => workPoolReq.pool # {} \/ workPoolFx.pendingRequest

\* The pages of the section Snarks show one block or one pool: the details beside a
\* job, the chosen leaf and the cells of a tree fit the last answer or have theirs
\* on its way, and what is loading has a request or a flag that holds it back.
SnarksSound ==
    /\ WorkPoolDetailsFit /\ WorkPoolClosedEmpty
    /\ ScanMarkerSound /\ ScanLeafFit /\ ScanCellsInOrder
    /\ SnarksLoadingHasRequest
=============================================================================
