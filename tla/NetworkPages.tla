----------------------------- MODULE NetworkPages -----------------------------
(***************************************************************************)
(* The pages of the network section in one application: one store, one     *)
(* router outlet, one loading bar.  The user may leave a page at any       *)
(* moment, also with requests in flight.                                   *)
(***************************************************************************)
EXTENDS NetworkBlocks, NetworkConnections, NetworkNodeDht, NetworkBootstrapStats, NetworkSplits

CONSTANT Sessions   \* sets of pages: what the user visits before the next reload

VARIABLE session

networkVars == <<blocksVars, connectionsVars, dhtVars, statsVars, splitsVars>>

NetworkInit ==
    LayoutInit /\ BlocksInit /\ ConnectionsInit /\ DhtInit /\ StatsInit /\ SplitsInit
    /\ session \in Sessions

\* The user reloads the application whose store has ended.
Reload ==
    /\ page = "ended" /\ page' = "none" /\ loading' = {}
    /\ blocks' = initialBlocks /\ blocksFx' = [waitingForServer |-> FALSE, timer |-> FALSE]
    /\ blocksReq' = [blocks |-> {}, earliest |-> {}] /\ toolbarBlock' = NoHeight
    /\ connections' = initialConnections /\ connectionsReq' = {}
    /\ connectionsFx' = [streamActive |-> FALSE, waitingForServer |-> FALSE, timer |-> FALSE]
    /\ dht' = initialDht /\ dhtPage' = NoDhtPage /\ dhtFx' = [pendingRequest |-> FALSE] /\ dhtReq' = {}
    /\ stats' = initialStats /\ statsPage' = NoStatsPage /\ statsFx' = [pendingRequest |-> FALSE] /\ statsReq' = {}
    /\ splits' = initialSplits /\ splitsPage' = NoSplitsPage /\ idFromRoute' = {}
    /\ splitsReq' = [get |-> {}, split |-> {}, merge |-> {}] /\ UNCHANGED <<firewall, session>>

NetworkNext ==
    \/ /\ page # "ended" /\ UNCHANGED session
       /\ \/ BlocksNext /\ UNCHANGED <<connectionsVars, dhtVars, statsVars, splitsVars>>
          \/ ConnectionsNext /\ UNCHANGED <<blocksVars, dhtVars, statsVars, splitsVars>>
          \/ DhtNext /\ UNCHANGED <<blocksVars, connectionsVars, statsVars, splitsVars>>
          \/ StatsNext /\ UNCHANGED <<blocksVars, connectionsVars, dhtVars, splitsVars>>
          \/ SplitsNext /\ UNCHANGED <<blocksVars, connectionsVars, dhtVars, statsVars>>
       /\ page' \in session \cup {"none", "ended"}
    \/ Reload

NetworkSpec == NetworkInit /\ [][NetworkNext]_<<layoutVars, networkVars, session>>

\* The slices have the shapes their interfaces declare; in particular no latency
\* of a block is negative.
NetworkTypeOK == blocks \in NetworkBlocksState /\ connections \in NetworkConnectionsState

\* While a request of a polling page is in flight its timer starts no other,
\* which would cancel it: a server slower than the interval is still heard.
PollersPatient ==
    /\ blocksReq.blocks # {} => blocksFx.waitingForServer
    /\ connectionsReq # {} => connectionsFx.waitingForServer
    /\ dhtReq # {} => dhtFx.pendingRequest
    /\ statsReq # {} => statsFx.pendingRequest

\* The loading bar stands for a request: whatever is in the list "loading" will
\* be removed by an answer that is awaited, so the bar never runs for ever.
LoadingHasRequest ==
    /\ "NETWORK_NODE_DHT_INIT" \in loading => dhtReq # {}
    /\ "NETWORK_BOOTSTRAP_STATS_INIT" \in loading => statsReq # {}

\* Pages that send their Close through the request effect forget all they
\* knew: no late answer fills their slice after they are left.
ClosedPagesForget ==
    /\ page # "node-dht" => dht = initialDht /\ dhtReq = {}
    /\ page # "bootstrap-stats" => stats = initialStats /\ statsReq = {}
    /\ page # "topology" => splits = initialSplits /\ splitsReq.get = {}

\* The flags and the loading bar tell the truth about requests, over timers, slow
\* answers, failures and pages that are left.
RequestsSound == PollersPatient /\ LoadingHasRequest /\ ClosedPagesForget

\* What the pages show fits together: blocks with their latencies, the points of the
\* line with the peers, rows with the head of their table.
ListsSound == NetworkTypeOK /\ BlocksTableSound /\ BlocksAnswersFit /\ DhtLineSound /\ StatsSorted
=============================================================================
