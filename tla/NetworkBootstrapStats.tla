------------------------ MODULE NetworkBootstrapStats ------------------------
(***************************************************************************)
(* The page "Network > Bootstrap Stats": the requests the node made while  *)
(* it joined the DHT.                                                      *)
(***************************************************************************)
EXTENDS Layout

\* Answers of /discovery/bootstrap_stats: sequences of requests with peer_id,
\* start and finish (0 for none); times are in nanoseconds.
CONSTANTS BootstrapLists, OneBillion

ASSUME BootstrapAssumption ==
    /\ OneBillion \in Nat \ {0}
    /\ \A list \in BootstrapLists : list \in Seq(ToSet(list)) /\ \A i \in DOMAIN list :
          list[i].start \in Nat /\ list[i].finish \in Nat /\ (list[i].finish = 0 \/ list[i].finish > list[i].start)

VARIABLES stats,      \* the slice network.bootstrapStats
          statsPage,  \* the rows and the id from the route of the table
          statsFx,    \* pendingRequest of NetworkBootstrapStatsEffects
          statsReq    \* the request of getBootstrapStats$

statsVars == <<stats, statsPage, statsFx, statsReq>>

StatsColumns == {"start", "durationInSecs"}
initialStats == [boostrapStats |-> <<>>, activeBootstrapRequest |-> NoRow,
                 sort |-> [sortBy |-> "start", sortDirection |-> "ascending"]]
NoStatsPage == [rows |-> <<>>, idFromRoute |-> NoId]
-----------------------------------------------------------------------------
\* The duration is rounded up to seconds, and undefined (0 here) until the
\* request has finished.
mapBootstrapStats(list) ==
    [i \in DOMAIN list |->
        [peerId |-> list[i].peer_id, start |-> list[i].start,
         durationInSecs |-> IF list[i].finish = 0 THEN 0
                            ELSE (list[i].finish - list[i].start + OneBillion - 1) \div OneBillion]]

GetBootstrapStatsReduced(payload) == [stats EXCEPT !.boostrapStats = sort(payload, stats.sort)]

StatsSortReduced(tableSort) ==
    [stats EXCEPT !.sort = tableSort, !.boostrapStats = sort(@, tableSort)]

\* The table of the page with a new state of the slice.
StatsShown(state) ==
    LET new == state.boostrapStats # <<>>
    IN  /\ statsPage' = [rows |-> rowsShown(statsPage.rows, state.boostrapStats),
                         idFromRoute |-> IF new THEN NoId ELSE statsPage.idFromRoute]
        /\ stats' = IF new /\ statsPage.idFromRoute # NoId
                    THEN [state EXCEPT !.activeBootstrapRequest =
                             find(state.boostrapStats, "peerId", statsPage.idFromRoute)]
                    ELSE state
-----------------------------------------------------------------------------
getBootstrapStats ==
    /\ ~statsFx.pendingRequest
    /\ statsFx' = [pendingRequest |-> TRUE]
    /\ statsReq' = switchMap(statsReq, "getBootstrapStats")

\* timer(3000, 3000) of the component.
StatsTick == On("bootstrap-stats") /\ getBootstrapStats /\ UNCHANGED <<loading, stats, statsPage>>

GetBootstrapStatsSuccess ==
    \E r \in statsReq, list \in BootstrapLists :
        /\ StatsShown(GetBootstrapStatsReduced(mapBootstrapStats(list)))
        /\ statsFx' = [pendingRequest |-> FALSE]
        /\ statsReq' = Completed(statsReq, r)
        /\ remove({"NETWORK_BOOTSTRAP_STATS_INIT"}) /\ UNCHANGED page

\* pendingRequest stays set until the page is left.
GetBootstrapStatsError ==
    /\ statsReq # {}
    /\ StatsShown(GetBootstrapStatsReduced(<<>>))
    /\ statsReq' = catchErrorAndRepeat(statsReq)
    /\ remove({"NETWORK_BOOTSTRAP_STATS_INIT"}) /\ UNCHANGED <<statsFx, page>>

StatsOpen ==
    /\ Enter("bootstrap-stats") /\ add("NETWORK_BOOTSTRAP_STATS_INIT") /\ UNCHANGED stats
    /\ \E id \in {NoId} \cup {e.peer_id : e \in UNION {ToSet(list) : list \in BootstrapLists}} :
         statsPage' = [NoStatsPage EXCEPT !.idFromRoute = id]
    /\ getBootstrapStats

\* NetworkBootstrapStatsClose switches getBootstrapStats$ to EMPTY.
StatsClose ==
    /\ Leave("bootstrap-stats") /\ remove({"NETWORK_BOOTSTRAP_STATS_INIT"})
    /\ stats' = initialStats /\ statsPage' = NoStatsPage
    /\ statsFx' = [pendingRequest |-> FALSE] /\ statsReq' = {}

StatsSort ==
    /\ On("bootstrap-stats") /\ UNCHANGED <<loading, statsFx, statsReq>>
    /\ \E column \in StatsColumns : StatsShown(StatsSortReduced(sortTable(stats.sort, column)))

StatsRowClick ==
    /\ On("bootstrap-stats") /\ UNCHANGED <<loading, statsPage, statsFx, statsReq>>
    /\ \E row \in Clickable(statsPage.rows, "peerId", stats.activeBootstrapRequest) :
         stats' = [stats EXCEPT !.activeBootstrapRequest = row]

StatsClosePanel ==
    /\ On("bootstrap-stats") /\ UNCHANGED <<loading, statsPage, statsFx, statsReq>>
    /\ stats' = [stats EXCEPT !.activeBootstrapRequest = NoRow]
-----------------------------------------------------------------------------
StatsInit ==
    /\ stats = initialStats /\ statsPage = NoStatsPage
    /\ statsFx = [pendingRequest |-> FALSE] /\ statsReq = {}

StatsNext ==
    \/ StatsTick \/ GetBootstrapStatsSuccess \/ GetBootstrapStatsError \/ StatsOpen
    \/ StatsClose \/ StatsSort \/ StatsRowClick \/ StatsClosePanel

\* The rows shown are sorted as the head of the table says, whatever came
\* first, the answers or the clicks on the head.
StatsSorted == SortedBy(stats.boostrapStats, stats.sort)
=============================================================================
