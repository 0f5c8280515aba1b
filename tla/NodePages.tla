------------------------------- MODULE NodePages -------------------------------
(***************************************************************************)
(* The sections "Nodes", "Block Production", "Resources" and "Fuzzing" in  *)
(* one application, with the node picker.  "none" stands for any other     *)
(* page.                                                                   *)
(***************************************************************************)
EXTENDS NodesOverview, NodesBootstrap, NodesLive, BlockProduction,
        MemoryResources, Fuzzing

CONSTANT Sessions   \* sets of pages: what the user visits before the next reload

VARIABLE session

nodesVars == <<overviewVars, bootstrapVars, liveVars>>
producedVars == <<bpVars, wonVars>>
reportVars == <<memoryVars, fuzzingVars>>

NodePagesInit ==
    /\ LayoutInit /\ RustInit /\ session \in Sessions
    /\ OverviewInit /\ BootstrapInit /\ LiveInit /\ EpochInit /\ WonInit /\ MemoryInit /\ FuzzingInit
    /\ "won-slots" \notin session => wide

\* Another node is picked on a page that does not fetch anything for it.
PickNode ==
    /\ On("none") /\ changeRustNode /\ UNCHANGED <<loading, nodesVars, producedVars, reportVars>>

\* The user reloads the application whose store has ended.
Reload ==
    /\ page = "ended" /\ page' = "none" /\ loading' = {} /\ UNCHANGED <<rust, session, wide>>
    /\ overview' = initialOverview /\ overviewReq' = {}
    /\ overviewPanel' = [interval |-> FALSE, timerRemoved |-> FALSE]
    /\ bootstrap' = initialBootstrap /\ bootstrapFx' = [pendingRequest |-> FALSE]
    /\ bootstrapReq' = {} /\ bootstrapPanel' = initialBootstrapPanel
    /\ live' = initialLive /\ liveFx' = [pendingRequest |-> FALSE]
    /\ liveReq' = {} /\ liveView' = initialLiveView
    /\ bp' = initialEpoch /\ bpReq' = NoBpReq /\ bpUrl' = NoBpUrl /\ rects' = <<>>
    /\ won' = initialWon /\ wonReq' = {} /\ wonUrl' = NoSlot
    /\ wonTable' = NoWonTable /\ wonPanel' = NoWonPanel
    /\ MemoryReload
    /\ fuzzing' = initialFuzzing /\ fuzzingReq' = initialFuzzingReq /\ fuzzingRoute' = initialRoute

NodePagesNext ==
    \/ /\ page # "ended" /\ UNCHANGED session
       /\ \/ OverviewNext /\ UNCHANGED <<bootstrapVars, liveVars, producedVars, reportVars>>
          \/ BootstrapNext /\ UNCHANGED <<overviewVars, liveVars, producedVars, reportVars>>
          \/ LiveNext /\ UNCHANGED <<overviewVars, bootstrapVars, producedVars, reportVars>>
          \/ EpochNext /\ UNCHANGED <<wonVars, nodesVars, reportVars>>
          \/ WonNext /\ UNCHANGED <<bpVars, nodesVars, reportVars>>
          \/ MemoryNext /\ UNCHANGED <<nodesVars, producedVars, fuzzingVars>>
          \/ FuzzingNext /\ UNCHANGED <<nodesVars, producedVars, memoryVars>>
          \/ PickNode
       /\ page' \in session \cup {"none", "ended"}
    \/ Reload

NodePagesSpec ==
    NodePagesInit /\ [][NodePagesNext]_<<layoutVars, rust, session, nodesVars, producedVars, reportVars>>

\* A page asks again exactly when no request of its own is on its way: the
\* timer neither cancels a slow answer nor waits for one that will not come,
\* through failures, changes of the node and closing with a request in flight.
NodePollersSound ==
    /\ bootstrapReq # {} <=> bootstrapFx.pendingRequest
    /\ liveReq # {} <=> liveFx.pendingRequest

\* While the loading bar runs for another node, it is that node that was asked:
\* no answer of the previous node can end it.
NodeChangeAsksNode ==
    /\ "NODES_BOOTSTRAP_INIT" \in loading => bootstrapReq = {[node |-> rust]}
    /\ "NODES_LIVE_INIT" \in loading => liveReq = {[node |-> rust]}

\* What is selected on a page of the section Nodes is a row of what it shows and has
\* that row's data, over answers in any order, closed pages and changes of the node.
NodeSelectionsSound ==
    /\ OverviewOneRowEach /\ OverviewActiveFresh /\ OverviewClockRuns
    /\ BootstrapIndexSound /\ BootstrapActiveVisible
    /\ LiveEventsDerived

\* A page of the section Nodes asks the node it shows, and asks it again.
NodeRequestsSound == NodePollersSound /\ NodeChangeAsksNode

\* What is reported about a node's code shows one report: the tree of the memory
\* profiler, walked through in several ways, and the files and lines of a fuzzing
\* run are those of the answers to what is selected, whatever order they come in.
ReportsSound == MemorySound /\ FuzzingSound
=============================================================================
