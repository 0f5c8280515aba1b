--------------------------- MODULE ToolPagesProofs ---------------------------
(***************************************************************************)
(* What the pages of ToolPages promise, for every set of nodes, every      *)
(* answer and every session.                                               *)
(***************************************************************************)
EXTENDS ToolPages, LayoutProofs

(***************************************************************************)
(* The pages share the outlet and the active node.                         *)
(***************************************************************************)

\* A step of page p opens or closes no other page and turns to another node only
\* while p is open; an action that throws ends the application.
Apart(p) ==
    /\ page' \in {page, "ended"} \/ (page = "none" /\ page' = p) \/ (page = p /\ page' = "none")
    /\ rust' = rust \/ (page = p /\ page' = p)

LEMMA WorkPoolApart == WorkPoolNext => Apart("work-pool")
<1> USE DEF Apart, On, Enter, Leave
<1>1. WorkPoolOpen => Apart("work-pool")  BY DEF WorkPoolOpen
<1>2. WorkPoolNodeChange => Apart("work-pool")  BY DEF WorkPoolNodeChange
<1>3. GetWorkPoolSuccess => Apart("work-pool")  BY DEF GetWorkPoolSuccess
<1>4. GetWorkPoolError => Apart("work-pool")  BY DEF GetWorkPoolError
<1>5. GetWorkPoolDetailSuccess => Apart("work-pool")  BY DEF GetWorkPoolDetailSuccess
<1>6. WorkPoolRowClick => Apart("work-pool")  BY DEF WorkPoolRowClick
<1>7. RemoveActiveWorkPool => Apart("work-pool")  BY DEF RemoveActiveWorkPool
<1>8. WorkPoolSort => Apart("work-pool")  BY DEF WorkPoolSort
<1>9. WorkPoolToggleFilter => Apart("work-pool")  BY DEF WorkPoolToggleFilter
<1>10. WorkPoolToggleSidePanel => Apart("work-pool")  BY DEF WorkPoolToggleSidePanel
<1>11. WorkPoolClose => Apart("work-pool")  BY DEF WorkPoolClose
<1>12. GetSnarkerPublicKey => Apart("work-pool")  BY DEF GetSnarkerPublicKey
<1> QED
  BY <1>1, <1>2, <1>3, <1>4, <1>5, <1>6, <1>7, <1>8, <1>9, <1>10, <1>11, <1>12 DEF WorkPoolNext

LEMMA ScanApart == ScanNext => Apart("scan-state")
<1> USE DEF Apart, On, Enter, Leave
<1>1. ScanOpen => Apart("scan-state")  BY DEF ScanOpen
<1>2. ScanTick => Apart("scan-state")  BY DEF ScanTick
<1>3. ScanNodeChange => Apart("scan-state")  BY DEF ScanNodeChange
<1>4. ScanGetBlockSuccess => Apart("scan-state")  BY DEF ScanGetBlockSuccess
<1>5. ScanGetBlockError => Apart("scan-state")  BY DEF ScanGetBlockError
<1>6. getHeight => Apart("scan-state")  BY DEF getHeight
<1>7. checkLatestHeight => Apart("scan-state")  BY DEF checkLatestHeight
<1>8. ScanToggleStream => Apart("scan-state")  BY DEF ScanToggleStream
<1>9. ScanSetActiveLeaf => Apart("scan-state")  BY DEF ScanSetActiveLeaf
<1>10. removeActiveJobId => Apart("scan-state")  BY DEF removeActiveJobId
<1>11. ScanToggleSidePanel => Apart("scan-state")  BY DEF ScanToggleSidePanel
<1>12. ScanToggleTreeView => Apart("scan-state")  BY DEF ScanToggleTreeView
<1>13. ScanClose => Apart("scan-state")  BY DEF ScanClose
<1> QED
  BY <1>1, <1>2, <1>3, <1>4, <1>5, <1>6, <1>7, <1>8, <1>9, <1>10, <1>11, <1>12, <1>13 DEF ScanNext

LEMMA StateActionsApart == StateActionsNext => Apart("state-actions")
<1> USE DEF Apart, On, Enter, Leave, Throws
<1>1. StateActionsOpen => Apart("state-actions")  BY DEF StateActionsOpen
<1>2. StateActionsNodeChange => Apart("state-actions")  BY DEF StateActionsNodeChange
<1>3. checkEarliestSlot => Apart("state-actions")  BY DEF checkEarliestSlot
<1>4. GetEarliestSlotSuccess => Apart("state-actions")  BY DEF GetEarliestSlotSuccess
<1>5. GetEarliestSlotError => Apart("state-actions")  BY DEF GetEarliestSlotError
<1>6. getSlot => Apart("state-actions")  BY DEF getSlot
<1>7. GetActionsSuccess => Apart("state-actions")  BY DEF GetActionsSuccess
<1>8. GetActionsError => Apart("state-actions")  BY DEF GetActionsError
<1>9. StateActionsSort => Apart("state-actions")  BY DEF StateActionsSort
<1>10. StateActionsSearch => Apart("state-actions")  BY DEF StateActionsSearch
<1>11. StateActionsToggleSidePanel => Apart("state-actions")  BY DEF StateActionsToggleSidePanel
<1>12. StateActionsClose => Apart("state-actions")  BY DEF StateActionsClose
<1> QED
  BY <1>1, <1>2, <1>3, <1>4, <1>5, <1>6, <1>7, <1>8, <1>9, <1>10, <1>11, <1>12 DEF StateActionsNext

LEMMA WalletsApart == WalletsNext => Apart("wallets")
<1> USE DEF Apart, On, Enter, Leave, Throws
<1>1. WalletsOpen => Apart("wallets")  BY DEF WalletsOpen
<1>2. WalletsNodeChange => Apart("wallets")  BY DEF WalletsNodeChange
<1>3. GetWalletsSuccess => Apart("wallets")  BY DEF GetWalletsSuccess
<1>4. GetWalletsError => Apart("wallets")  BY DEF GetWalletsError
<1>5. GetAllTxsSuccess => Apart("wallets")  BY DEF GetAllTxsSuccess
<1>6. GetAllTxsError => Apart("wallets")  BY DEF GetAllTxsError
<1>7. SendTxs => Apart("wallets")  BY DEF SendTxs
<1>8. SendZkApps => Apart("wallets")  BY DEF SendZkApps
<1>9. SendTxsEnds => Apart("wallets")  BY DEF SendTxsEnds
<1>10. SendZkAppsEnds => Apart("wallets")  BY DEF SendZkAppsEnds
<1>11. ToggleRandomWallet => Apart("wallets")  BY DEF ToggleRandomWallet
<1>12. SelectWallet => Apart("wallets")  BY DEF SelectWallet
<1>13. ChangeTransactionBatch => Apart("wallets")  BY DEF ChangeTransactionBatch
<1>14. ChangeZkAppsBatch => Apart("wallets")  BY DEF ChangeZkAppsBatch
<1>15. WalletsClose => Apart("wallets")  BY DEF WalletsClose
<1>16. LoadedO1jsAgain => Apart("wallets")  BY DEF LoadedO1jsAgain
<1> QED
  BY <1>1, <1>2, <1>3, <1>4, <1>5, <1>6, <1>7, <1>8, <1>9, <1>10, <1>11, <1>12, <1>13, <1>14, <1>15,
     <1>16 DEF WalletsNext

LEMMA MempoolApart == MempoolNext => Apart("mempool")
<1> USE DEF Apart, On, Enter, Leave
<1>1. MempoolOpen => Apart("mempool")  BY DEF MempoolOpen
<1>2. MempoolNodeChange => Apart("mempool")  BY DEF MempoolNodeChange
<1>3. MempoolTick => Apart("mempool")  BY DEF MempoolTick
<1>4. GetTxsEnds => Apart("mempool")  BY DEF GetTxsEnds
<1>5. MempoolToggleFilter => Apart("mempool")  BY DEF MempoolToggleFilter
<1>6. clearFilters => Apart("mempool")  BY DEF clearFilters
<1>7. MempoolSearch => Apart("mempool")  BY DEF MempoolSearch
<1>8. MempoolSearchSettles => Apart("mempool")  BY DEF MempoolSearchSettles
<1>9. MempoolRowClick => Apart("mempool")  BY DEF MempoolRowClick
<1>10. closeSidePanel => Apart("mempool")  BY DEF closeSidePanel
<1>11. MempoolClose => Apart("mempool")  BY DEF MempoolClose
<1> QED
  BY <1>1, <1>2, <1>3, <1>4, <1>5, <1>6, <1>7, <1>8, <1>9, <1>10, <1>11 DEF MempoolNext

LEMMA PickNodeApart == PickNode => Apart("none")
  BY DEF PickNode, Apart, On

\* The dashboard is never left by an action that throws, and the other sessions of
\* the frame stay on the page they are on.
LEMMA DashboardApart == DashboardNext => page' \in {page, "dashboard", "none"}
<1> USE DEF On, Enter, Leave
<1>1. DashboardNodeChange => page' \in {page, "dashboard", "none"}  BY DEF DashboardNodeChange
<1>2. DashboardDeleteNode => page' \in {page, "dashboard", "none"}  BY DEF DashboardDeleteNode
<1> QED
  BY <1>1, <1>2 DEF DashboardNext, DashboardOpen, DashboardTick, GetDataSuccess, GetDataError, PeersSort,
                    DashboardStatusNext, StatusShown, DashboardLeave

\* Sections and frame do not mix: in a session of the frame no page is open but the
\* dashboard.
SessionInv ==
    /\ session \in Sessions
    /\ Framed => page \in {"none", "dashboard"}
    /\ ~Framed => page # "dashboard"

LEMMA SessionStep == SessionInv /\ [ToolPagesNext]_toolPagesVars => SessionInv'
<1> SUFFICES ASSUME SessionInv, [ToolPagesNext]_toolPagesVars PROVE SessionInv'
  OBVIOUS
<1>1. CASE UNCHANGED toolPagesVars
  BY <1>1 DEF SessionInv, toolPagesVars, layoutVars, Framed
<1>2. CASE Reload
  BY <1>2 DEF SessionInv, Reload, Framed
<1>3. CASE ~Framed /\ page' \in session \cup {"none", "ended"} /\ UNCHANGED session
  BY <1>3 DEF SessionInv, Framed
<1>4. CASE Framed /\ FrameNext /\ UNCHANGED session
  <2>1. page' \in {page, "dashboard", "none"}
    BY <1>4, DashboardApart DEF FrameNext, layoutVars
  <2> QED
    BY <1>4, <2>1 DEF SessionInv, Framed
<1> QED
  BY <1>1, <1>2, <1>3, <1>4 DEF ToolPagesNext

(***************************************************************************)
(* Mempool.                                                                *)
(***************************************************************************)

PoolTxs == UNION {ToSet(mapTxPoolResponse(a)) : a \in PoolAnswers}

PoolFilters(f) ==
    f = [delegation |-> f.delegation, payment |-> f.payment, zkApp |-> f.zkApp, search |-> f.search]

\* The table has the transactions of the last answer that pass the filters.
PoolFits(m) ==
    /\ m = [allTxs |-> m.allTxs, txs |-> m.txs, activeTx |-> m.activeTx, emptyInDatabase |-> m.emptyInDatabase,
            isLoading |-> m.isLoading, filters |-> m.filters]
    /\ PoolFilters(m.filters)
    /\ m.allTxs \in Seq(PoolTxs)
    /\ m.txs = filterTxs(m.allTxs, m.filters)
    /\ m.allTxs # <<>> => ~m.emptyInDatabase /\ ~m.isLoading

PoolView(v) == v = [fromRoute |-> v.fromRoute, search |-> v.search, debounced |-> v.debounced]

LEMMA PoolKinds == \A tx \in PoolTxs : tx.kind \in {"payment", "zkApp"}
  BY DEF PoolTxs, mapTxPoolResponse, ToSet

LEMMA PoolAnswered ==
    ASSUME NEW a \in PoolAnswers
    PROVE  mapTxPoolResponse(a) \in Seq(PoolTxs)
<1>1. a \in Seq(ToSet(a))
  BY MempoolAssumption
<1> DEFINE n == Len(a)
<1>2. n \in Nat /\ DOMAIN a = 1..n
  BY <1>1
<1> HIDE DEF n
<1> DEFINE m == mapTxPoolResponse(a)
<1>3. m = [i \in 1..n |-> m[i]]
  BY <1>2 DEF mapTxPoolResponse
<1> HIDE DEF m
<1>4. \A i \in 1..n : m[i] \in PoolTxs
  <2>1. ToSet(m) \subseteq PoolTxs
    BY DEF m, PoolTxs
  <2> QED
    BY <1>3, <2>1 DEF ToSet
<1> QED
  BY <1>2, <1>3, <1>4 DEF m

LEMMA PoolFilteredSet ==
    ASSUME NEW txs \in Seq(PoolTxs), NEW filters
    PROVE  /\ ToSet(filterTxs(txs, filters)) =
                {tx \in ToSet(txs) : /\ tx.kind = "payment" => filters.payment
                                     /\ tx.kind = "zkApp" => filters.zkApp
                                     /\ filters.search \in {"", tx.txHash, tx.sender}}
           /\ txs = <<>> => filterTxs(txs, filters) = <<>>
<1> DEFINE passing == {tx \in ToSet(txs) :
                        filters[tx.kind] /\ (filters.search = "" \/ filters.search \in {tx.txHash, tx.sender})}
<1>1. filterTxs(txs, filters) = filter(txs, passing)
  BY DEF filterTxs
<1>2. \A tx \in ToSet(txs) : tx.kind \in {"payment", "zkApp"}
  BY PoolKinds DEF ToSet
<1>3. passing = {tx \in ToSet(txs) : /\ tx.kind = "payment" => filters.payment
                                     /\ tx.kind = "zkApp" => filters.zkApp
                                     /\ filters.search \in {"", tx.txHash, tx.sender}}
  BY <1>2
<1>4. passing \subseteq ToSet(txs)
  OBVIOUS
<1> HIDE DEF passing
<1>5. ToSet(filter(txs, passing)) = passing
  <2>1. ToSet(filter(txs, passing)) = ToSet(txs) \cap passing
    BY FilterRows
  <2> QED
    BY <1>4, <2>1
<1>6. txs = <<>> => filter(txs, passing) = <<>>
  BY FilterEmpty
<1> QED
  BY <1>1, <1>3, <1>5, <1>6

\* What the reducers return fits.
LEMMA PoolAnswerFits ==
    ASSUME PoolFits(mempool), NEW txs \in Seq(PoolTxs)
    PROVE  PoolFits(getTxsSuccessReduced(txs)) /\ getTxsSuccessReduced(txs).filters = mempool.filters
<1> DEFINE s == getTxsSuccessReduced(txs)
           none == txs = <<>>
           kept == filterTxs(txs, mempool.filters)
<1>1. s = [mempool EXCEPT !.emptyInDatabase = none, !.isLoading = FALSE, !.allTxs = txs, !.txs = kept]
  BY DEF getTxsSuccessReduced
<1> HIDE DEF s, none, kept
<1>2. /\ s = [allTxs |-> s.allTxs, txs |-> s.txs, activeTx |-> s.activeTx, emptyInDatabase |-> s.emptyInDatabase,
              isLoading |-> s.isLoading, filters |-> s.filters]
      /\ s.allTxs = txs /\ s.filters = mempool.filters /\ s.txs = kept
      /\ s.emptyInDatabase = none /\ s.isLoading = FALSE
  BY <1>1 DEF PoolFits
<1>3. s.allTxs # <<>> => ~s.emptyInDatabase /\ ~s.isLoading
  BY <1>2 DEF none
<1>4. PoolFits(s)
  BY <1>2, <1>3 DEF PoolFits, kept
<1> QED
  BY <1>2, <1>4 DEF s

LEMMA PoolFiltersFit ==
    ASSUME PoolFits(mempool), NEW f, PoolFilters(f)
    PROVE  LET s == [mempool EXCEPT !.filters = f, !.txs = filterTxs(mempool.allTxs, f)]
           IN  PoolFits(s) /\ s.filters = f
<1> DEFINE kept == filterTxs(mempool.allTxs, f)
           s == [mempool EXCEPT !.filters = f, !.txs = kept]
<1>1. s = [mempool EXCEPT !.filters = f, !.txs = kept]
  OBVIOUS
<1> HIDE DEF kept, s
<1>2. /\ s = [allTxs |-> s.allTxs, txs |-> s.txs, activeTx |-> s.activeTx, emptyInDatabase |-> s.emptyInDatabase,
              isLoading |-> s.isLoading, filters |-> s.filters]
      /\ s.allTxs = mempool.allTxs /\ s.filters = f /\ s.txs = kept
      /\ s.emptyInDatabase = mempool.emptyInDatabase /\ s.isLoading = mempool.isLoading
  BY <1>1 DEF PoolFits
<1>3. PoolFits(s)
  BY <1>2 DEF PoolFits, kept
<1> QED
  BY <1>2, <1>3 DEF s, kept

\* The table's click on a remembered row touches neither rows nor filters.
LEMMA PoolShown ==
    ASSUME NEW s, NEW v, PoolFits(s), PoolView(v), txsShown(s, v)
    PROVE  /\ PoolFits(mempool') /\ mempool'.filters = s.filters
           /\ PoolView(mempoolView') /\ mempoolView'.search = v.search /\ mempoolView'.debounced = v.debounced
<1> DEFINE row == rowClicked(s, v.fromRoute)
           forgets == [v EXCEPT !.fromRoute = IF s.txs = <<>> THEN @ ELSE NoId]
<1>1. PoolView(forgets) /\ forgets.search = v.search /\ forgets.debounced = v.debounced
  BY DEF PoolView
<1>2. \/ mempool' = s /\ mempoolView' = forgets
      \/ mempool' = [s EXCEPT !.activeTx = row] /\ mempoolView' \in {forgets, [forgets EXCEPT !.fromRoute = row.txHash]}
  BY DEF txsShown
<1> HIDE DEF row, forgets
<1>3. PoolView([forgets EXCEPT !.fromRoute = row.txHash])
      /\ [forgets EXCEPT !.fromRoute = row.txHash].search = v.search
      /\ [forgets EXCEPT !.fromRoute = row.txHash].debounced = v.debounced
  BY <1>1 DEF PoolView
<1> DEFINE c == [s EXCEPT !.activeTx = row]
<1>4. /\ c = [allTxs |-> c.allTxs, txs |-> c.txs, activeTx |-> c.activeTx, emptyInDatabase |-> c.emptyInDatabase,
              isLoading |-> c.isLoading, filters |-> c.filters]
      /\ c.allTxs = s.allTxs /\ c.filters = s.filters /\ c.txs = s.txs
      /\ c.emptyInDatabase = s.emptyInDatabase /\ c.isLoading = s.isLoading
  BY DEF PoolFits
<1> HIDE DEF c
<1>5. PoolFits(c) /\ c.filters = s.filters
  BY <1>4 DEF PoolFits
<1> QED
  BY <1>1, <1>2, <1>3, <1>5 DEF c

PoolInv ==
    /\ PoolFits(mempool) /\ PoolView(mempoolView)
    /\ page \notin {"mempool", "ended"} => mempool = initialMempool /\ mempoolReq = {}
    /\ \A r \in mempoolReq : r.node = rust
    /\ page = "mempool" /\ ~mempoolView.debounced => mempoolView.search = mempool.filters.search

LEMMA PoolInvSound == PoolInv => MempoolSound
<1> SUFFICES ASSUME PoolInv PROVE MempoolSound
  OBVIOUS
<1>1. mempool.allTxs \in Seq(PoolTxs) /\ mempool.txs = filterTxs(mempool.allTxs, mempool.filters)
  BY DEF PoolInv, PoolFits
<1>2. MempoolFiltered
  BY <1>1, PoolFilteredSet DEF MempoolFiltered, PoolInv, PoolFits
<1>3. MempoolAsksActive
  BY DEF PoolInv, MempoolAsksActive
<1>4. MempoolSearchShown
  BY DEF PoolInv, MempoolSearchShown
<1> QED
  BY <1>2, <1>3, <1>4 DEF MempoolSound

LEMMA PoolInitial ==
    PoolFits(initialMempool) /\ PoolView(initialMempoolView) /\ initialMempool.filters.search = ""
    /\ initialMempoolView.search = ""
<1>1. filterTxs(<<>>, noFilters) = <<>>
  <2> DEFINE none == <<>>
  <2>1. none \in Seq(PoolTxs) /\ none = <<>>
    OBVIOUS
  <2> HIDE DEF none
  <2>2. filterTxs(none, noFilters) = <<>>
    BY <2>1, PoolFilteredSet
  <2> QED
    BY <2>1, <2>2
<1>2. PoolFilters(noFilters)
  BY DEF noFilters, PoolFilters
<1>3. PoolFits(initialMempool)
  BY <1>1, <1>2 DEF PoolFits, initialMempool
<1> QED
  BY <1>3 DEF PoolView, initialMempool, initialMempoolView, noFilters

\* A step that leaves the pool alone leaves it sound, if it neither opens the page
\* nor turns it to another node.
LEMMA PoolKept ==
    ASSUME PoolInv, UNCHANGED mempoolVars, page' # "mempool" \/ page = "mempool",
           page = "mempool" => page' \in {"mempool", "ended"},
           page \notin {"mempool", "ended"} \/ rust' = rust, page # "ended"
    PROVE  PoolInv'
<1>1. mempool' = mempool /\ mempoolReq' = mempoolReq /\ mempoolView' = mempoolView
  BY DEF mempoolVars
<1>2. PoolFits(mempool)' /\ PoolView(mempoolView)'
  BY <1>1 DEF PoolInv
<1>3. (page \notin {"mempool", "ended"} => mempool = initialMempool /\ mempoolReq = {})'
  BY <1>1 DEF PoolInv
<1>4. (\A r \in mempoolReq : r.node = rust)'
  BY <1>1 DEF PoolInv
<1>5. (page = "mempool" /\ ~mempoolView.debounced => mempoolView.search = mempool.filters.search)'
  BY <1>1 DEF PoolInv
<1> QED
  BY <1>2, <1>3, <1>4, <1>5 DEF PoolInv

LEMMA PoolRefiltered ==
    ASSUME PoolInv, On("mempool"), UNCHANGED <<loading, rust, mempoolReq>>, NEW v, PoolView(v), NEW f, PoolFilters(f),
           changeFilters(v, f), ~v.debounced => v.search = f.search
    PROVE  PoolInv'
<1> DEFINE s == [mempool EXCEPT !.filters = f, !.txs = filterTxs(mempool.allTxs, f)]
           w == filtersShown(v, f)
<1>1. PoolFits(s) /\ s.filters = f
  BY PoolFiltersFit DEF PoolInv
<1>2. PoolView(w)
  BY DEF filtersShown, PoolView
<1>3. ~w.debounced => w.search = f.search
  <2>1. CASE f.search = v.search
    BY <2>1 DEF filtersShown
  <2>2. CASE f.search # v.search
    <3>1. w = [v EXCEPT !.search = f.search, !.debounced = TRUE]
      BY <2>2 DEF filtersShown
    <3> HIDE DEF w
    <3>2. w.search = f.search
      BY <3>1 DEF PoolView
    <3> QED
      BY <3>2
  <2> QED
    BY <2>1, <2>2
<1>4. txsShown(s, w)
  BY DEF changeFilters
<1> HIDE DEF s, w
<1>5. /\ PoolFits(mempool') /\ mempool'.filters = f /\ PoolView(mempoolView')
      /\ mempoolView'.search = w.search /\ mempoolView'.debounced = w.debounced
  BY <1>1, <1>2, <1>4, PoolShown
<1>6. page = "mempool" /\ page' = "mempool" /\ rust' = rust /\ mempoolReq' = mempoolReq
  BY DEF On
<1> QED
  BY <1>3, <1>5, <1>6 DEF PoolInv

LEMMA PoolStep == PoolInv /\ MempoolNext => PoolInv'
<1> SUFFICES ASSUME PoolInv PROVE MempoolNext => PoolInv'
  OBVIOUS
<1>0. PoolFits(mempool) /\ PoolView(mempoolView) /\ PoolFilters(mempool.filters)
  BY DEF PoolInv, PoolFits
<1>1. ASSUME MempoolOpen PROVE PoolInv'
  <2>1. page = "none" /\ page' = "mempool" /\ rust' = rust /\ mempool' = mempool /\ mempoolReq' = {[node |-> rust]}
    BY <1>1 DEF MempoolOpen, Enter, getTxs, switchMap
  <2>2. mempool = initialMempool
    BY <2>1 DEF PoolInv
  <2>3. PICK id : mempoolView' = [initialMempoolView EXCEPT !.fromRoute = id]
    BY <1>1 DEF MempoolOpen
  <2>4. PoolView(mempoolView') /\ mempoolView'.search = ""
    <3> DEFINE v == [fromRoute |-> id, search |-> "", debounced |-> FALSE]
    <3>1. mempoolView' = v
      BY <2>3 DEF initialMempoolView
    <3>2. PoolView(v) /\ v.search = ""
      BY DEF PoolView
    <3> QED
      BY <3>1, <3>2
  <2>5. mempool'.filters.search = "" /\ PoolFits(mempool')
    BY <2>1, <2>2, PoolInitial
  <2>6. \A r \in mempoolReq' : r.node = rust'
    BY <2>1
  <2> QED
    BY <2>1, <2>4, <2>5, <2>6 DEF PoolInv
<1>2. ASSUME MempoolNodeChange PROVE PoolInv'
  <2>1. page = "mempool" /\ page' = "mempool" /\ mempool' = mempool /\ mempoolView' = mempoolView
        /\ mempoolReq' = {[node |-> rust']}
    BY <1>2 DEF MempoolNodeChange, On, getTxs, switchMap
  <2> QED
    BY <2>1 DEF PoolInv
<1>3. ASSUME MempoolTick PROVE PoolInv'
  <2>1. page = "mempool" /\ page' = "mempool" /\ mempool' = mempool /\ mempoolView' = mempoolView
        /\ mempoolReq' = {[node |-> rust']}
    BY <1>3 DEF MempoolTick, On, getTxs, switchMap
  <2> QED
    BY <2>1 DEF PoolInv
<1>4. ASSUME GetTxsEnds PROVE PoolInv'
  <2>1. page = "mempool" /\ page' = "mempool" /\ rust' = rust
    BY <1>4 DEF GetTxsEnds, On
  <2>2. PICK txs \in Seq(PoolTxs) : txsShown(getTxsSuccessReduced(txs), mempoolView)
    <3> DEFINE none == <<>>
    <3>1. none \in Seq(PoolTxs) /\ none = <<>>
      OBVIOUS
    <3> HIDE DEF none
    <3>2. CASE txsShown(getTxsSuccessReduced(<<>>), mempoolView)
      BY <3>1, <3>2
    <3>3. CASE \E response \in PoolAnswers : txsShown(getTxsSuccessReduced(mapTxPoolResponse(response)), mempoolView)
      BY <3>3, PoolAnswered
    <3> QED
      BY <1>4, <3>2, <3>3 DEF GetTxsEnds
  <2>3. mempoolReq' \subseteq mempoolReq
    BY <1>4 DEF GetTxsEnds, Completed, catchErrorAndRepeat
  <2>4. PoolFits(getTxsSuccessReduced(txs)) /\ getTxsSuccessReduced(txs).filters = mempool.filters
    BY <1>0, PoolAnswerFits
  <2>5. /\ PoolFits(mempool') /\ mempool'.filters = mempool.filters /\ PoolView(mempoolView')
        /\ mempoolView'.search = mempoolView.search /\ mempoolView'.debounced = mempoolView.debounced
    BY <1>0, <2>2, <2>4, PoolShown
  <2> QED
    BY <2>1, <2>3, <2>5 DEF PoolInv
<1>5. ASSUME MempoolToggleFilter PROVE PoolInv'
  <2>1. PICK kind \in {"delegation", "payment", "zkApp"} :
          changeFilters(mempoolView, [mempool.filters EXCEPT ![kind] = ~@])
    BY <1>5 DEF MempoolToggleFilter
  <2> DEFINE on == ~mempool.filters[kind]
             f == [mempool.filters EXCEPT ![kind] = on]
  <2>2. PoolFilters(f) /\ f.search = mempool.filters.search
    <3> HIDE DEF on
    <3> QED
      BY <1>0 DEF PoolFilters
  <2>3. changeFilters(mempoolView, f)
    BY <2>1
  <2> HIDE DEF f
  <2>4. On("mempool") /\ UNCHANGED <<loading, rust, mempoolReq>> /\ page = "mempool"
    BY <1>5 DEF MempoolToggleFilter, On
  <2>5. ~mempoolView.debounced => mempoolView.search = f.search
    BY <2>2, <2>4 DEF PoolInv
  <2> QED
    BY <1>0, <2>2, <2>3, <2>4, <2>5, PoolRefiltered
<1>6. ASSUME clearFilters PROVE PoolInv'
  <2>1. PoolFilters(noFilters) /\ noFilters.search = ""
    BY DEF PoolFilters, noFilters
  <2>2. page = "mempool" /\ page' = page /\ rust' = rust /\ mempoolReq' = mempoolReq
    BY <1>6 DEF clearFilters, On
  <2> DEFINE s == [mempool EXCEPT !.filters = noFilters, !.txs = filterTxs(mempool.allTxs, noFilters)]
             w == filtersShown(mempoolView, noFilters)
  <2>3. PoolFits(s) /\ s.filters = noFilters
    BY <1>0, <2>1, PoolFiltersFit
  <2>4. PoolView(w) /\ w.search = ""
    <3>1. CASE mempoolView.search = ""
      BY <1>0, <2>1, <3>1 DEF filtersShown
    <3>2. CASE mempoolView.search # ""
      <4>1. w = [mempoolView EXCEPT !.search = "", !.debounced = TRUE]
        BY <2>1, <3>2 DEF filtersShown
      <4> HIDE DEF w
      <4> QED
        BY <1>0, <4>1 DEF PoolView
    <3> QED
      BY <3>1, <3>2
  <2>5. txsShown(s, w)
    BY <1>6 DEF clearFilters, changeFilters
  <2> HIDE DEF s, w
  <2>6. /\ PoolFits(mempool') /\ mempool'.filters = noFilters /\ PoolView(mempoolView')
        /\ mempoolView'.search = ""
    BY <2>3, <2>4, <2>5, PoolShown
  <2> QED
    BY <2>1, <2>2, <2>6 DEF PoolInv
<1>7. ASSUME MempoolSearch PROVE PoolInv'
  <2>1. page = "mempool" /\ page' = page /\ rust' = rust /\ mempoolReq' = mempoolReq /\ mempool' = mempool
    BY <1>7 DEF MempoolSearch, On
  <2>2. PICK term : mempoolView' = [mempoolView EXCEPT !.search = term, !.debounced = TRUE]
    BY <1>7 DEF MempoolSearch
  <2>3. PoolView(mempoolView') /\ mempoolView'.debounced = TRUE
    BY <1>0, <2>2 DEF PoolView
  <2> QED
    BY <2>1, <2>3 DEF PoolInv
<1>8. ASSUME MempoolSearchSettles PROVE PoolInv'
  <2> DEFINE v == [mempoolView EXCEPT !.debounced = FALSE]
             f == [mempool.filters EXCEPT !.search = mempoolView.search]
  <2>1. PoolView(v) /\ PoolFilters(f) /\ v.search = f.search
    <3>1. PoolView(v) /\ v.search = mempoolView.search
      <4>1. v = [mempoolView EXCEPT !.debounced = FALSE]
        OBVIOUS
      <4> HIDE DEF v
      <4> QED
        BY <1>0, <4>1 DEF PoolView
    <3>2. PoolFilters(f) /\ f.search = mempoolView.search
      <4> DEFINE term == mempoolView.search
      <4> HIDE DEF term
      <4>1. f = [mempool.filters EXCEPT !.search = term]
        BY DEF term
      <4> HIDE DEF f
      <4> QED
        BY <1>0, <4>1 DEF PoolFilters, term
    <3> QED
      BY <3>1, <3>2
  <2>2. On("mempool") /\ UNCHANGED <<loading, rust, mempoolReq>> /\ changeFilters(v, f)
    BY <1>8 DEF MempoolSearchSettles
  <2> HIDE DEF v, f
  <2> QED
    BY <2>1, <2>2, PoolRefiltered
<1>9. ASSUME NEW row, mempool' = [mempool EXCEPT !.activeTx = row], PoolView(mempoolView'),
             mempoolView'.search = mempoolView.search, mempoolView'.debounced = mempoolView.debounced,
             On("mempool"), UNCHANGED <<loading, rust, mempoolReq>>
      PROVE  PoolInv'
  <2> DEFINE c == [mempool EXCEPT !.activeTx = row]
  <2>1. /\ c = [allTxs |-> c.allTxs, txs |-> c.txs, activeTx |-> c.activeTx, emptyInDatabase |-> c.emptyInDatabase,
                isLoading |-> c.isLoading, filters |-> c.filters]
        /\ c.allTxs = mempool.allTxs /\ c.filters = mempool.filters /\ c.txs = mempool.txs
        /\ c.emptyInDatabase = mempool.emptyInDatabase /\ c.isLoading = mempool.isLoading
    BY <1>0 DEF PoolFits
  <2>2. mempool' = c
    BY <1>9
  <2> HIDE DEF c
  <2>3. PoolFits(c)
    BY <1>0, <2>1 DEF PoolFits
  <2>4. page = "mempool" /\ page' = page /\ rust' = rust /\ mempoolReq' = mempoolReq
    BY <1>9 DEF On
  <2> QED
    BY <1>9, <2>1, <2>2, <2>3, <2>4 DEF PoolInv
<1>10. ASSUME MempoolRowClick PROVE PoolInv'
  <2>1. PICK row : mempool' = [mempool EXCEPT !.activeTx = row]
    BY <1>10 DEF MempoolRowClick
  <2>2. mempoolView' \in {mempoolView, [mempoolView EXCEPT !.fromRoute = mempool'.activeTx.txHash]}
    BY <1>10 DEF MempoolRowClick
  <2>3. /\ PoolView(mempoolView') /\ mempoolView'.search = mempoolView.search
        /\ mempoolView'.debounced = mempoolView.debounced
    <3> DEFINE hash == mempool'.activeTx.txHash
    <3> HIDE DEF hash
    <3>1. mempoolView' \in {mempoolView, [mempoolView EXCEPT !.fromRoute = hash]}
      BY <2>2 DEF hash
    <3> QED
      BY <1>0, <3>1 DEF PoolView
  <2>4. On("mempool") /\ UNCHANGED <<loading, rust, mempoolReq>>
    BY <1>10 DEF MempoolRowClick
  <2> QED
    BY <1>9, <2>1, <2>3, <2>4
<1>11. ASSUME closeSidePanel PROVE PoolInv'
  <2>1. mempool' = [mempool EXCEPT !.activeTx = NoRow] /\ mempoolView' = mempoolView
        /\ On("mempool") /\ UNCHANGED <<loading, rust, mempoolReq>>
    BY <1>11 DEF closeSidePanel
  <2> QED
    BY <1>0, <1>9, <2>1
<1>12. ASSUME MempoolClose PROVE PoolInv'
  <2>1. page' = "none" /\ mempoolReq' = {} /\ mempool' = initialMempool /\ mempoolView' = initialMempoolView
    BY <1>12 DEF MempoolClose, Leave
  <2> QED
    BY <2>1, PoolInitial DEF PoolInv
<1> QED
  BY <1>1, <1>2, <1>3, <1>4, <1>5, <1>6, <1>7, <1>8, <1>10, <1>11, <1>12 DEF MempoolNext

\* Every other step leaves the pool alone.
LEMMA PoolAlways ==
    SessionInv /\ PoolInv /\ [ToolPagesNext]_toolPagesVars => PoolInv'
<1> SUFFICES ASSUME SessionInv, PoolInv, [ToolPagesNext]_toolPagesVars PROVE PoolInv'
  OBVIOUS
<1>1. ASSUME NEW p, p # "mempool", Apart(p), page # "ended", UNCHANGED mempoolVars PROVE PoolInv'
  BY <1>1, PoolKept DEF Apart
<1>2. CASE UNCHANGED toolPagesVars
  <2>1. UNCHANGED <<page, rust, mempool, mempoolReq, mempoolView>>
    BY <1>2 DEF toolPagesVars, layoutVars, sectionVars, mempoolVars
  <2> QED
    BY <2>1 DEF PoolInv
<1>3. CASE Reload
  <2>1. page' = "none" /\ mempool' = initialMempool /\ mempoolReq' = {} /\ mempoolView' = initialMempoolView
    BY <1>3 DEF Reload
  <2> QED
    BY <2>1, PoolInitial DEF PoolInv
<1>4. CASE page # "ended" /\ SectionNext
  <2>1. CASE WorkPoolNext /\ UNCHANGED mempoolVars
    BY <1>1, <1>4, <2>1, WorkPoolApart
  <2>2. CASE ScanNext /\ UNCHANGED mempoolVars
    BY <1>1, <1>4, <2>2, ScanApart
  <2>3. CASE StateActionsNext /\ UNCHANGED mempoolVars
    BY <1>1, <1>4, <2>3, StateActionsApart
  <2>4. CASE WalletsNext /\ UNCHANGED mempoolVars
    BY <1>1, <1>4, <2>4, WalletsApart
  <2>5. CASE MempoolNext
    BY <2>5, PoolStep
  <2>6. CASE PickNode
    BY <1>1, <1>4, <2>6, PickNodeApart DEF PickNode, sectionVars
  <2> QED
    BY <1>4, <2>1, <2>2, <2>3, <2>4, <2>5, <2>6 DEF SectionNext
<1>5. CASE Framed /\ FrameNext /\ UNCHANGED sectionVars
  <2>1. page \in {"none", "dashboard"} /\ page' \in {"none", "dashboard"}
    BY <1>5, DashboardApart DEF SessionInv, FrameNext, layoutVars
  <2> QED
    BY <1>5, <2>1, PoolKept DEF sectionVars
<1> QED
  BY <1>2, <1>3, <1>4, <1>5 DEF ToolPagesNext

LEMMA SessionStart == ToolPagesInit => SessionInv
  BY DEF ToolPagesInit, LayoutInit, SessionInv

\* The table of transactions shows the pool of the node that is active under the
\* filters and the search that the controls show: answers, failures, clicks, changes
\* of the filters and of the node may come in any order.
THEOREM MempoolTheorem == ToolPagesSpec => []MempoolSound
<1>1. ToolPagesInit => PoolInv
  <2> SUFFICES ASSUME ToolPagesInit PROVE PoolInv
    OBVIOUS
  <2>1. mempool = initialMempool /\ mempoolReq = {} /\ mempoolView = initialMempoolView /\ page = "none"
    BY DEF ToolPagesInit, MempoolInit, LayoutInit
  <2> QED
    BY <2>1, PoolInitial DEF PoolInv
<1> QED
  BY <1>1, SessionStart, SessionStep, PoolAlways, PoolInvSound, PTL DEF ToolPagesSpec

(***************************************************************************)
(* Benchmarks: Wallets.                                                    *)
(***************************************************************************)

Accounts == UNION {ToSet(a) : a \in AccountsAnswers}

WalletsSlice(w) ==
    w = [wallets |-> w.wallets, txsToSend |-> w.txsToSend, blockSending |-> w.blockSending,
         txSendingBatch |-> w.txSendingBatch, randomWallet |-> w.randomWallet, activeWallet |-> w.activeWallet,
         zkAppsSendingBatch |-> w.zkAppsSendingBatch, txsWhole |-> w.txsWhole]

WalletsRequests(q) ==
    q = [wallets |-> q.wallets, allTxs |-> q.allTxs, payments |-> q.payments, zkApps |-> q.zkApps,
         again |-> q.again, overtaken |-> q.overtaken]

\* Each wallet is listed once, and what is sent from is an account.
WalletsHeld(w) ==
    /\ WalletsSlice(w)
    /\ w.wallets \in Seq(Accounts) /\ Distinct(w.wallets, "publicKey")
    /\ w.activeWallet \in Accounts \cup {NoRow}
    /\ w.txSendingBatch \in Seq(Int) /\ w.zkAppsSendingBatch \in Int

Differ(txs) == \A i, j \in DOMAIN txs : i # j => txs[i] # txs[j]

\* An effect has one request at a time, and the transactions of one batch differ.  The
\* batch that would run again is the last one.
WalletsSent(q) ==
    /\ WalletsRequests(q)
    /\ \A s, t \in q.wallets : s = t
    /\ \A s, t \in q.payments : s = t
    /\ \A s, t \in q.zkApps \cup q.again : s = t
    /\ \A s \in q.payments \cup q.zkApps \cup q.again : Differ(s.txs)

\* The block of the send buttons: there as long as it is needed, and no longer.
WalletsBlocked(w, q, open) ==
    /\ q.wallets # {} => w.blockSending
    /\ w.blockSending => q.wallets # {} \/ q.zkApps # {}
    /\ w.txsToSend # <<>> /\ w.txsWhole => q.payments # {}
    /\ ~q.overtaken =>
         /\ q.wallets # {} => q.payments = {} /\ q.zkApps = {}
         /\ open /\ q.zkApps # {} => w.blockSending
         /\ open => \A s \in q.payments : s.txs # <<>> => w.txsToSend # <<>>
         /\ \A s \in q.payments, t \in q.zkApps : ToSet(s.txs) \cap ToSet(t.txs) = {}

WalletsInv ==
    WalletsHeld(wallets) /\ WalletsSent(walletsReq) /\ WalletsBlocked(wallets, walletsReq, page = "wallets")

LEMMA WalletsInvSound == WalletsInv => WalletsSound
  BY DEF WalletsInv, WalletsSent, WalletsBlocked, WalletsSound, NoncesSpentOnce, BlockedHasRequest, Differ

LEMMA WalletsInitial ==
    WalletsHeld(initialWallets) /\ WalletsSent(initialWalletsReq) /\ WalletsBlocked(initialWallets, initialWalletsReq, FALSE)
<1>1. WalletsHeld(initialWallets)
  <2>1. WalletsSlice(initialWallets)
    BY DEF WalletsSlice, initialWallets
  <2>2. /\ initialWallets.wallets = <<>> /\ initialWallets.activeWallet = NoRow
        /\ initialWallets.txSendingBatch = <<>> /\ initialWallets.zkAppsSendingBatch = 1
    BY DEF initialWallets
  <2>3. <<>> \in Seq(Accounts) /\ <<>> \in Seq(Int) /\ DOMAIN <<>> = {}
    OBVIOUS
  <2> QED
    BY <2>1, <2>2, <2>3 DEF WalletsHeld, Distinct
<1>2. WalletsSent(initialWalletsReq)
  BY DEF WalletsSent, WalletsRequests, initialWalletsReq
<1>3. WalletsBlocked(initialWallets, initialWalletsReq, FALSE)
  BY DEF WalletsBlocked, initialWallets, initialWalletsReq
<1> QED
  BY <1>1, <1>2, <1>3

LEMMA AccountNonces == \A a \in Accounts : a.nonce \in Nat
<1> SUFFICES ASSUME NEW a \in Accounts PROVE a.nonce \in Nat
  OBVIOUS
<1>1. PICK x \in AccountsAnswers : a \in ToSet(x)
  BY DEF Accounts
<1>2. PICK i \in DOMAIN x : a = x[i]
  BY <1>1 DEF ToSet
<1> QED
  BY <1>2, BenchmarksAssumption

\* The wallets of an answer are listed once, as its accounts are.
LEMMA WalletsAnswered ==
    ASSUME NEW a \in AccountsAnswers
    PROVE  getAccounts(a) \in Seq(Accounts) /\ Distinct(getAccounts(a), "publicKey")
<1>1. a \in Seq(Accounts)
  <2>1. a \in Seq(ToSet(a)) /\ ToSet(a) \subseteq Accounts
    BY BenchmarksAssumption DEF Accounts
  <2> DEFINE S == ToSet(a)
  <2> HIDE DEF S
  <2>2. a \in Seq(S) /\ S \subseteq Accounts
    BY <2>1 DEF S
  <2> QED
    BY <2>2, SeqMonotonic
<1>2. Distinct(a, "publicKey")
  BY BenchmarksAssumption DEF Distinct
<1> DEFINE known == {x \in ToSet(a) : x.publicKey \in WALLETS}
<1>3. getAccounts(a) = filter(a, known)
  BY DEF getAccounts
<1> HIDE DEF known
<1>4. filter(a, known) \in Seq(Accounts)
  BY <1>1, FilterRows
<1>5. Distinct(filter(a, known), "publicKey")
  BY <1>1, <1>2, FilterDistinct
<1> QED
  BY <1>3, <1>4, <1>5

\* No two transactions of a batch are the same: those of the first wallets are of
\* different wallets, those of the active wallet have nonces in a row.
LEMMA BatchDiffers ==
    ASSUME WalletsHeld(wallets), NEW batch \in Int, wallets.randomWallet \/ wallets.activeWallet # NoRow
    PROVE  Differ(toSend(batch))
<1>1. ASSUME NEW rows \in Seq(Accounts), rows = wallets.wallets PROVE Differ(randomTxs(batch))
  <2> DEFINE from == slice(rows, batch)
             to == IF batch < 0 THEN Len(rows) + batch ELSE batch
             end == IF to > Len(rows) THEN Len(rows) ELSE to
  <2>1. Len(rows) \in Nat /\ end \in Int /\ end =< Len(rows)
    OBVIOUS
  <2>2. from = SubSeq(rows, 1, end)
    BY DEF slice
  <2> HIDE DEF end
  <2>3. DOMAIN from \subseteq DOMAIN rows /\ \A i \in DOMAIN from : from[i] = rows[i]
    <3>1. CASE end >= 1
      <4>1. \A i \in 1..end : rows[i] \in Accounts
        BY <2>1
      <4>2. /\ SubSeq(rows, 1, end) \in Seq(Accounts)
            /\ Len(SubSeq(rows, 1, end)) = IF 1 <= end THEN end - 1 + 1 ELSE 0
            /\ \A i \in 1..(end - 1 + 1) : SubSeq(rows, 1, end)[i] = rows[1 + i - 1]
        BY <2>1, <4>1, SubSeqProperties
      <4>3. DOMAIN SubSeq(rows, 1, end) = 1..end
        BY <2>1, <3>1, <4>2
      <4> QED
        BY <2>1, <2>2, <4>2, <4>3
    <3>2. CASE end < 1
      <4>1. SubSeq(rows, 1, end) = <<>>
        BY <2>1, <3>2, SubSeqEmpty
      <4>2. from = <<>>
        BY <2>2, <4>1
      <4> HIDE DEF from
      <4>3. DOMAIN from = {}
        BY <4>2
      <4> QED
        BY <4>3
    <3> QED
      BY <2>1, <3>1, <3>2
  <2>4. randomTxs(batch) =
          [i \in DOMAIN from |-> [from |-> from[i].publicKey, nonce |-> getNonceForWallet(from[i])]]
    BY <1>1 DEF randomTxs
  <2> HIDE DEF from
  <2>5. Distinct(rows, "publicKey")
    BY <1>1 DEF WalletsHeld
  <2> SUFFICES ASSUME NEW i \in DOMAIN from, NEW j \in DOMAIN from, i # j
               PROVE  randomTxs(batch)[i] # randomTxs(batch)[j]
    BY <2>4 DEF Differ
  <2>6. from[i].publicKey # from[j].publicKey
    BY <2>3, <2>5 DEF Distinct
  <2> QED
    BY <2>4, <2>6
<1>2. ASSUME NEW a \in Accounts, a = wallets.activeWallet PROVE Differ(specificTxs(batch))
  <2> DEFINE first == getNonceForWallet(a)
  <2>1. first \in Int
    BY AccountNonces DEF getNonceForWallet
  <2>2. specificTxs(batch) = [i \in 1..batch |-> [from |-> a.publicKey, nonce |-> first + i - 1]]
    BY <1>2 DEF specificTxs
  <2> HIDE DEF first
  <2> SUFFICES ASSUME NEW i \in 1..batch, NEW j \in 1..batch, i # j
               PROVE  specificTxs(batch)[i] # specificTxs(batch)[j]
    BY <2>2 DEF Differ
  <2>3. first + i - 1 # first + j - 1
    BY <2>1
  <2>4. specificTxs(batch)[i].nonce = first + i - 1 /\ specificTxs(batch)[j].nonce = first + j - 1
    BY <2>2
  <2> QED
    BY <2>3, <2>4
<1> QED
  BY <1>1, <1>2 DEF toSend, WalletsHeld

\* Asking for the wallets blocks sending; a batch that is on its way is overtaken.
LEMMA WalletsAsked ==
    ASSUME NEW w, WalletsHeld(w), NEW q, WalletsSent(q), w.txsToSend # <<>> /\ w.txsWhole => q.payments # {},
           NEW initialRequest, getWallets(w, q, initialRequest)
    PROVE  WalletsInv'
<1> DEFINE late == q.payments # {} \/ q.zkApps # {}
           v == [w EXCEPT !.blockSending = TRUE]
           r == [initial |-> initialRequest]
<1>1. wallets' = v
  BY DEF getWallets
<1>2. walletsReq' = [q EXCEPT !.wallets = {r}, !.overtaken = late]
  BY DEF getWallets, switchMap
<1>3. late \/ (q.payments = {} /\ q.zkApps = {})
  OBVIOUS
<1> HIDE DEF late, r
<1>4. /\ v.wallets = w.wallets /\ v.activeWallet = w.activeWallet /\ v.txsToSend = w.txsToSend
      /\ v.txsWhole = w.txsWhole
      /\ v.blockSending = TRUE /\ v.txSendingBatch = w.txSendingBatch /\ v.zkAppsSendingBatch = w.zkAppsSendingBatch
      /\ WalletsSlice(v)
  <2>1. v = [w EXCEPT !.blockSending = TRUE]
    OBVIOUS
  <2> HIDE DEF v
  <2> QED
    BY <2>1 DEF WalletsHeld, WalletsSlice
<1> HIDE DEF v
<1>5. WalletsHeld(v)
  BY <1>4 DEF WalletsHeld
<1> DEFINE p == walletsReq'
<1>6. p = [q EXCEPT !.wallets = {r}, !.overtaken = late]
  BY <1>2
<1> HIDE DEF p
<1>7. /\ p.wallets = {r} /\ p.allTxs = q.allTxs /\ p.payments = q.payments /\ p.zkApps = q.zkApps
      /\ p.again = q.again
      /\ p.overtaken = late /\ WalletsRequests(p)
  BY <1>6 DEF WalletsSent, WalletsRequests
<1>8. WalletsSent(p)
  BY <1>7 DEF WalletsSent
<1>9. WalletsBlocked(v, p, page' = "wallets")
  <2>1. CASE late
    BY <1>4, <1>7, <2>1 DEF WalletsBlocked
  <2>2. CASE q.payments = {} /\ q.zkApps = {}
    BY <1>4, <1>7, <2>2 DEF WalletsBlocked
  <2> QED
    BY <1>3, <2>1, <2>2
<1> QED
  BY <1>1, <1>5, <1>8, <1>9 DEF WalletsInv, p

\* The reducer of an answer, which unblocks.
LEMMA WalletsListed ==
    ASSUME WalletsHeld(wallets), NEW rows \in Seq(Accounts), Distinct(rows, "publicKey")
    PROVE  LET w == GetWalletsReduced(rows)
           IN  WalletsHeld(w) /\ w.blockSending = FALSE /\ w.txsToSend = wallets.txsToSend /\ w.txsWhole = wallets.txsWhole
<1> DEFINE batch == IF wallets.txSendingBatch = <<>> THEN <<Len(rows)>> ELSE wallets.txSendingBatch
           active == IF wallets.activeWallet = NoRow /\ rows # <<>> THEN rows[1] ELSE wallets.activeWallet
           w == GetWalletsReduced(rows)
<1>1. w = [wallets EXCEPT !.wallets = rows, !.blockSending = FALSE, !.txSendingBatch = batch, !.activeWallet = active]
  BY DEF GetWalletsReduced
<1>2. batch \in Seq(Int)
  BY DEF WalletsHeld
<1>3. active \in Accounts \cup {NoRow}
  BY DEF WalletsHeld
<1> HIDE DEF batch, active, w
<1>4. /\ w.wallets = rows /\ w.blockSending = FALSE /\ w.txSendingBatch = batch /\ w.activeWallet = active
      /\ w.txsToSend = wallets.txsToSend /\ w.txsWhole = wallets.txsWhole
      /\ w.zkAppsSendingBatch = wallets.zkAppsSendingBatch /\ WalletsSlice(w)
  BY <1>1 DEF WalletsHeld, WalletsSlice
<1>5. WalletsHeld(w)
  BY <1>2, <1>3, <1>4 DEF WalletsHeld
<1> QED
  BY <1>4, <1>5 DEF w

\* What the answer to the wallets, or its failure, leaves.
LEMMA WalletsAnswerStep ==
    ASSUME WalletsInv, walletsReq.wallets # {}, NEW rows \in Seq(Accounts), Distinct(rows, "publicKey"),
           wallets' = GetWalletsReduced(rows), NEW all,
           walletsReq' = [walletsReq EXCEPT !.wallets = {}, !.allTxs = all]
    PROVE  WalletsInv'
<1> DEFINE w == GetWalletsReduced(rows)
           p == walletsReq'
<1>1. WalletsHeld(w) /\ w.blockSending = FALSE /\ w.txsToSend = wallets.txsToSend /\ w.txsWhole = wallets.txsWhole
  BY WalletsListed DEF WalletsInv
<1>2. p = [walletsReq EXCEPT !.wallets = {}, !.allTxs = all]
  OBVIOUS
<1> HIDE DEF w, p
<1>3. /\ p.wallets = {} /\ p.payments = walletsReq.payments /\ p.zkApps = walletsReq.zkApps
      /\ p.again = walletsReq.again /\ p.overtaken = walletsReq.overtaken /\ WalletsRequests(p)
  BY <1>2 DEF WalletsInv, WalletsSent, WalletsRequests
<1>4. WalletsSent(p)
  BY <1>3 DEF WalletsInv, WalletsSent
<1>5. WalletsBlocked(w, p, page' = "wallets")
  BY <1>1, <1>3 DEF WalletsInv, WalletsBlocked
<1> QED
  BY <1>1, <1>4, <1>5 DEF WalletsInv, w, p

\* A batch goes out only while sending is not blocked: then, unless it was overtaken,
\* no other batch with a transaction in it is on its way.
LEMMA WalletsFree ==
    ASSUME WalletsInv, page = "wallets", ~BlockSending
    PROVE  /\ walletsReq.wallets = {} /\ wallets.txsToSend = <<>> /\ ~wallets.blockSending
           /\ ~walletsReq.overtaken => walletsReq.zkApps = {} /\ \A s \in walletsReq.payments : s.txs = <<>>
  BY DEF WalletsInv, WalletsBlocked, BlockSending

LEMMA WalletsPaid ==
    ASSUME WalletsInv, page = "wallets", page' = page, ~BlockSending, NEW batch \in Int,
           wallets.randomWallet \/ wallets.activeWallet # NoRow,
           NEW whole \in BOOLEAN, wallets' = SendTxsReduced(toSend(batch), whole),
           walletsReq' = [walletsReq EXCEPT !.payments = sendTransactions(@, wallets')]
    PROVE  WalletsInv'
<1> DEFINE txs == toSend(batch)
           w == wallets'
           p == walletsReq'
<1>1. Differ(txs)
  BY BatchDiffers DEF WalletsInv
<1> DEFINE signed == txs = <<>> \/ whole
           sent == sendTransactions(walletsReq.payments, w)
<1>2. w = [wallets EXCEPT !.txsToSend = txs, !.txsWhole = signed] /\ p = [walletsReq EXCEPT !.payments = sent]
  BY DEF SendTxsReduced
<1> HIDE DEF txs, w, p, signed, sent
<1>3. /\ w.wallets = wallets.wallets /\ w.blockSending = wallets.blockSending /\ w.txsToSend = txs
      /\ w.txsWhole = signed /\ w.activeWallet = wallets.activeWallet /\ w.txSendingBatch = wallets.txSendingBatch
      /\ w.zkAppsSendingBatch = wallets.zkAppsSendingBatch /\ WalletsSlice(w)
  BY <1>2 DEF WalletsInv, WalletsHeld, WalletsSlice
<1>4. /\ p.wallets = walletsReq.wallets /\ p.payments = sent /\ p.zkApps = walletsReq.zkApps
      /\ p.again = walletsReq.again /\ p.overtaken = walletsReq.overtaken /\ WalletsRequests(p)
  BY <1>2 DEF WalletsInv, WalletsSent, WalletsRequests
<1>5. WalletsHeld(w)
  BY <1>3 DEF WalletsInv, WalletsHeld
<1>10. sent = IF signed THEN {[txs |-> txs]} ELSE {}
  BY <1>3 DEF sendTransactions, switchMap, sent
<1>6. WalletsSent(p)
  BY <1>1, <1>4, <1>10 DEF WalletsInv, WalletsSent
<1>7. ASSUME ~p.overtaken PROVE p.wallets = {} /\ p.zkApps = {}
  BY <1>4, <1>7, WalletsFree
<1>8. \A s \in p.payments : s.txs = w.txsToSend
  BY <1>3, <1>4, <1>10
<1>9. WalletsBlocked(w, p, page' = "wallets")
  <2>1. p.wallets = {} /\ ~w.blockSending /\ (w.txsWhole => p.payments # {})
    BY <1>3, <1>4, <1>10, WalletsFree
  <2> QED
    BY <1>7, <1>8, <2>1 DEF WalletsBlocked
<1> QED
  BY <1>5, <1>6, <1>9 DEF WalletsInv, w, p

LEMMA WalletsUpdated ==
    ASSUME WalletsInv, page = "wallets", page' = page, ~BlockSending, NEW batch \in Int,
           wallets.randomWallet \/ wallets.activeWallet # NoRow,
           wallets' = SendZkAppsReduced(toSend(batch)),
           walletsReq' = [walletsReq EXCEPT !.zkApps = {[txs |-> toSend(batch)]}, !.again = {}]
    PROVE  WalletsInv'
<1> DEFINE txs == toSend(batch)
           w == wallets'
           p == walletsReq'
<1>1. Differ(txs)
  BY BatchDiffers DEF WalletsInv
<1>2. w = [wallets EXCEPT !.blockSending = TRUE] /\ p = [walletsReq EXCEPT !.zkApps = {[txs |-> txs]}, !.again = {}]
  BY DEF SendZkAppsReduced
<1> HIDE DEF txs, w, p
<1>3. /\ w.wallets = wallets.wallets /\ w.blockSending = TRUE /\ w.txsToSend = wallets.txsToSend
      /\ w.txsWhole = wallets.txsWhole
      /\ w.activeWallet = wallets.activeWallet /\ w.txSendingBatch = wallets.txSendingBatch
      /\ w.zkAppsSendingBatch = wallets.zkAppsSendingBatch /\ WalletsSlice(w)
  BY <1>2 DEF WalletsInv, WalletsHeld, WalletsSlice
<1>4. /\ p.wallets = walletsReq.wallets /\ p.payments = walletsReq.payments /\ p.zkApps = {[txs |-> txs]}
      /\ p.again = {} /\ p.overtaken = walletsReq.overtaken /\ WalletsRequests(p)
  BY <1>2 DEF WalletsInv, WalletsSent, WalletsRequests
<1>5. WalletsHeld(w)
  BY <1>3 DEF WalletsInv, WalletsHeld
<1>6. WalletsSent(p)
  BY <1>1, <1>4 DEF WalletsInv, WalletsSent
<1>7. ASSUME NEW s \in walletsReq.payments, ~walletsReq.overtaken PROVE ToSet(s.txs) = {}
  <2>1. s.txs = <<>>
    BY <1>7, WalletsFree
  <2> QED
    BY <2>1 DEF ToSet
<1>8. WalletsBlocked(w, p, page' = "wallets")
  <2>1. ASSUME ~p.overtaken, NEW s \in p.payments, NEW t \in p.zkApps PROVE ToSet(s.txs) \cap ToSet(t.txs) = {}
    BY <1>4, <1>7, <2>1
  <2> QED
    BY <1>3, <1>4, <2>1, WalletsFree DEF WalletsInv, WalletsBlocked
<1> QED
  BY <1>5, <1>6, <1>8 DEF WalletsInv, w, p

\* A control of the page changes a field that blocks nothing.
LEMMA WalletsControl ==
    ASSUME WalletsInv, WalletsHeld(wallets'), UNCHANGED <<page, walletsReq>>,
           wallets'.blockSending = wallets.blockSending, wallets'.txsToSend = wallets.txsToSend,
           wallets'.txsWhole = wallets.txsWhole
    PROVE  WalletsInv'
  BY DEF WalletsInv, WalletsBlocked

LEMMA BatchEntered ==
    ASSUME WalletsHeld(wallets), NEW value \in Batches
    PROVE  batchEntered(value) \in Int
<1>1. value \in Int /\ Len(wallets.wallets) \in Nat
  BY BenchmarksAssumption DEF WalletsHeld
<1> QED
  BY <1>1 DEF batchEntered

\* The script stops: nothing is open.
LEMMA WalletsThrown ==
    ASSUME WalletsInv, Throws, wallets' = wallets, NEW all, walletsReq' = [walletsReq EXCEPT !.allTxs = all]
    PROVE  WalletsInv'
<1> DEFINE p == walletsReq'
<1>1. p = [walletsReq EXCEPT !.allTxs = all]
  OBVIOUS
<1> HIDE DEF p
<1>2. /\ p.wallets = walletsReq.wallets /\ p.payments = walletsReq.payments /\ p.zkApps = walletsReq.zkApps
      /\ p.again = walletsReq.again /\ p.overtaken = walletsReq.overtaken /\ WalletsRequests(p)
  BY <1>1 DEF WalletsInv, WalletsSent, WalletsRequests
<1>3. WalletsSent(p)
  BY <1>2 DEF WalletsInv, WalletsSent
<1>4. WalletsBlocked(wallets, p, page' = "wallets")
  BY <1>2 DEF WalletsInv, WalletsBlocked, Throws
<1> QED
  BY <1>3, <1>4 DEF WalletsInv, p

LEMMA WalletsStep == WalletsInv /\ WalletsNext => WalletsInv'
<1> SUFFICES ASSUME WalletsInv, WalletsNext PROVE WalletsInv'
  OBVIOUS
<1>0. /\ WalletsHeld(wallets) /\ WalletsSent(walletsReq)
      /\ wallets.txsToSend # <<>> /\ wallets.txsWhole => walletsReq.payments # {}
  BY DEF WalletsInv, WalletsBlocked
<1>1. CASE WalletsOpen \/ WalletsNodeChange
  BY <1>0, <1>1, WalletsAsked DEF WalletsOpen, WalletsNodeChange
<1>2. CASE GetWalletsSuccess
  <2>1. PICK r \in walletsReq.wallets, accounts \in AccountsAnswers :
          /\ wallets' = GetWalletsReduced(getAccounts(accounts))
          /\ walletsReq' = [walletsReq EXCEPT !.wallets = Completed(@, r), !.allTxs = @ \/ r.initial]
    BY <1>2 DEF GetWalletsSuccess
  <2>2. Completed(walletsReq.wallets, r) = {}
    BY <1>0 DEF WalletsSent, Completed
  <2> DEFINE all == walletsReq.allTxs \/ r.initial
  <2>3. walletsReq' = [walletsReq EXCEPT !.wallets = {}, !.allTxs = all]
    BY <2>1, <2>2
  <2> HIDE DEF all
  <2> QED
    BY <2>1, <2>3, WalletsAnswered, WalletsAnswerStep
<1>3. CASE GetWalletsError
  <2> DEFINE none == <<>>
             all == walletsReq.allTxs
  <2>1. none \in Seq(Accounts) /\ Distinct(none, "publicKey") /\ wallets' = GetWalletsReduced(none)
    BY <1>3 DEF GetWalletsError, Distinct
  <2>2. walletsReq' = [walletsReq EXCEPT !.wallets = {}]
    BY <1>3 DEF GetWalletsError, catchErrorAndRepeat
  <2>3. walletsReq' = [walletsReq EXCEPT !.wallets = {}, !.allTxs = all]
    BY <1>0, <2>2 DEF WalletsSent, WalletsRequests
  <2>4. walletsReq.wallets # {}
    BY <1>3 DEF GetWalletsError
  <2> HIDE DEF none, all
  <2> QED
    BY <2>1, <2>3, <2>4, WalletsAnswerStep
<1>4. CASE GetAllTxsSuccess
  <2> DEFINE p == walletsReq'
  <2>1. UNCHANGED <<page, wallets>> /\ p = [walletsReq EXCEPT !.allTxs = FALSE]
    BY <1>4 DEF GetAllTxsSuccess
  <2> HIDE DEF p
  <2>2. /\ p.wallets = walletsReq.wallets /\ p.payments = walletsReq.payments /\ p.zkApps = walletsReq.zkApps
        /\ p.again = walletsReq.again /\ p.overtaken = walletsReq.overtaken /\ WalletsRequests(p)
    BY <1>0, <2>1 DEF WalletsSent, WalletsRequests
  <2>3. WalletsSent(p) /\ WalletsBlocked(wallets, p, page = "wallets")
    BY <2>2 DEF WalletsInv, WalletsSent, WalletsBlocked
  <2> QED
    BY <1>0, <2>1, <2>3 DEF WalletsInv, p
<1>5. CASE GetAllTxsError
  BY <1>5, WalletsThrown DEF GetAllTxsError
<1>6. ASSUME Throws, UNCHANGED walletsVars PROVE WalletsInv'
  <2>1. walletsReq' = [walletsReq EXCEPT !.allTxs = walletsReq.allTxs]
    BY <1>0, <1>6 DEF WalletsSent, WalletsRequests, walletsVars
  <2> QED
    BY <1>6, <2>1, WalletsThrown DEF walletsVars
<1>7. CASE SendTxs
  <2> DEFINE batch == IF wallets.txSendingBatch = <<>> THEN 0 ELSE Head(wallets.txSendingBatch)
  <2>1. batch \in Int
    BY <1>0 DEF WalletsHeld
  <2>2. page = "wallets" /\ ~BlockSending
        /\ IF sendThrows(batch, TRUE) THEN Throws /\ UNCHANGED walletsVars
           ELSE /\ UNCHANGED page
                /\ \E whole \in BOOLEAN : wallets' = SendTxsReduced(toSend(batch), whole)
                /\ walletsReq' = [walletsReq EXCEPT !.payments = sendTransactions(@, wallets')]
    BY <1>7 DEF SendTxs
  <2> HIDE DEF batch
  <2>3. CASE sendThrows(batch, TRUE)
    BY <1>6, <2>2, <2>3
  <2>4. CASE ~sendThrows(batch, TRUE)
    <3>1. wallets.randomWallet \/ wallets.activeWallet # NoRow
      BY <2>4 DEF sendThrows
    <3>2. PICK whole \in BOOLEAN : wallets' = SendTxsReduced(toSend(batch), whole)
      BY <2>2, <2>4
    <3>3. /\ page = "wallets" /\ page' = page /\ ~BlockSending
          /\ walletsReq' = [walletsReq EXCEPT !.payments = sendTransactions(@, wallets')]
      BY <2>2, <2>4
    <3> QED
      BY <2>1, <3>1, <3>2, <3>3, WalletsPaid
  <2> QED
    BY <2>3, <2>4
<1>8. CASE SendZkApps
  <2> DEFINE batch == wallets.zkAppsSendingBatch
  <2>1. batch \in Int
    BY <1>0 DEF WalletsHeld
  <2>2. page = "wallets" /\ ~BlockSending
        /\ IF sendThrows(batch, FALSE) THEN Throws /\ UNCHANGED walletsVars
           ELSE /\ UNCHANGED page
                /\ wallets' = SendZkAppsReduced(toSend(batch))
                /\ walletsReq' = [walletsReq EXCEPT !.zkApps = switchMap(@, [txs |-> toSend(batch)]), !.again = {}]
    BY <1>8 DEF SendZkApps
  <2> HIDE DEF batch
  <2>3. CASE sendThrows(batch, FALSE)
    BY <1>6, <2>2, <2>3
  <2>4. CASE ~sendThrows(batch, FALSE)
    <3>1. wallets.randomWallet \/ wallets.activeWallet # NoRow
      BY <2>4 DEF sendThrows
    <3>2. walletsReq' = [walletsReq EXCEPT !.zkApps = {[txs |-> toSend(batch)]}, !.again = {}]
      BY <2>2, <2>4 DEF switchMap
    <3> QED
      BY <2>1, <2>2, <2>4, <3>1, <3>2, WalletsUpdated
  <2> QED
    BY <2>3, <2>4
<1>9. CASE SendTxsEnds
  <2>1. PICK r \in walletsReq.payments :
          getWallets(SendTxSuccessReduced, [walletsReq EXCEPT !.payments = Completed(@, r)], FALSE)
    BY <1>9 DEF SendTxsEnds, sendTxSuccess
  <2> DEFINE w == SendTxSuccessReduced
             left == Completed(walletsReq.payments, r)
             p == [walletsReq EXCEPT !.payments = left]
             none == <<>>
  <2>2. left \subseteq walletsReq.payments
    BY DEF Completed
  <2>3. w = [wallets EXCEPT !.txsToSend = none, !.txsWhole = TRUE]
    BY DEF SendTxSuccessReduced
  <2>4. getWallets(w, p, FALSE)
    BY <2>1
  <2>5. p = [walletsReq EXCEPT !.payments = left]
    OBVIOUS
  <2> HIDE DEF w, p, left
  <2>6. none = <<>>
    OBVIOUS
  <2> HIDE DEF none
  <2>7. /\ w.wallets = wallets.wallets /\ w.txsToSend = none
        /\ w.activeWallet = wallets.activeWallet /\ w.txSendingBatch = wallets.txSendingBatch
        /\ w.zkAppsSendingBatch = wallets.zkAppsSendingBatch /\ WalletsSlice(w)
    BY <1>0, <2>3 DEF WalletsHeld, WalletsSlice
  <2>8. /\ p.wallets = walletsReq.wallets /\ p.payments = left /\ p.zkApps = walletsReq.zkApps
        /\ p.again = walletsReq.again /\ p.overtaken = walletsReq.overtaken /\ WalletsRequests(p)
    BY <1>0, <2>5 DEF WalletsSent, WalletsRequests
  <2>9. WalletsHeld(w)
    BY <1>0, <2>7 DEF WalletsHeld
  <2>10. WalletsSent(p)
    BY <1>0, <2>2, <2>8 DEF WalletsSent
  <2> QED
    BY <2>4, <2>6, <2>7, <2>9, <2>10, WalletsAsked
<1>10. CASE SendZkAppsEnds
  <2>1. PICK r \in walletsReq.zkApps : \E again \in {{}, {r}} :
          getWallets(wallets, [walletsReq EXCEPT !.zkApps = Completed(@, r), !.again = again], FALSE)
    BY <1>10 DEF SendZkAppsEnds, sendTxSuccess, SendZkAppsSuccessReduced
  <2>7. PICK again \in {{}, {r}} :
          getWallets(wallets, [walletsReq EXCEPT !.zkApps = Completed(@, r), !.again = again], FALSE)
    BY <2>1
  <2> DEFINE left == Completed(walletsReq.zkApps, r)
             p == [walletsReq EXCEPT !.zkApps = left, !.again = again]
  <2>2. left \subseteq walletsReq.zkApps
    BY DEF Completed
  <2>3. getWallets(wallets, p, FALSE)
    BY <2>7
  <2>4. p = [walletsReq EXCEPT !.zkApps = left, !.again = again]
    OBVIOUS
  <2> HIDE DEF p, left
  <2>5. /\ p.wallets = walletsReq.wallets /\ p.payments = walletsReq.payments /\ p.zkApps = left
        /\ p.again = again /\ p.overtaken = walletsReq.overtaken /\ WalletsRequests(p)
    BY <1>0, <2>4 DEF WalletsSent, WalletsRequests
  <2>6. WalletsSent(p)
    BY <1>0, <2>2, <2>5 DEF WalletsSent
  <2> QED
    BY <1>0, <2>3, <2>5, <2>6, WalletsAsked
<1>11. CASE ToggleRandomWallet
  <2> DEFINE w == wallets'
             random == ~wallets.randomWallet
  <2>1. w = [wallets EXCEPT !.randomWallet = random] /\ UNCHANGED <<page, walletsReq>>
    BY <1>11 DEF ToggleRandomWallet, On
  <2> HIDE DEF w, random
  <2>2. /\ w.wallets = wallets.wallets /\ w.txsToSend = wallets.txsToSend /\ w.blockSending = wallets.blockSending
        /\ w.txsWhole = wallets.txsWhole /\ w.activeWallet = wallets.activeWallet /\ w.txSendingBatch = wallets.txSendingBatch
        /\ w.zkAppsSendingBatch = wallets.zkAppsSendingBatch /\ WalletsSlice(w)
    BY <1>0, <2>1 DEF WalletsHeld, WalletsSlice
  <2>3. WalletsHeld(w)
    BY <1>0, <2>2 DEF WalletsHeld
  <2> QED
    BY <2>1, <2>2, <2>3, WalletsControl DEF w
<1>12. CASE SelectWallet
  <2>1. PICK a \in ToSet(wallets.wallets) : wallets' = [wallets EXCEPT !.activeWallet = a]
    BY <1>12 DEF SelectWallet
  <2>2. UNCHANGED <<page, walletsReq>>
    BY <1>12 DEF SelectWallet, On
  <2>3. a \in Accounts
    <3>1. PICK i \in DOMAIN wallets.wallets : a = wallets.wallets[i]
      BY DEF ToSet
    <3> QED
      BY <1>0, <3>1 DEF WalletsHeld
  <2> DEFINE w == wallets'
  <2>4. w = [wallets EXCEPT !.activeWallet = a]
    BY <2>1
  <2> HIDE DEF w
  <2>5. /\ w.wallets = wallets.wallets /\ w.txsToSend = wallets.txsToSend /\ w.blockSending = wallets.blockSending
        /\ w.txsWhole = wallets.txsWhole /\ w.activeWallet = a /\ w.txSendingBatch = wallets.txSendingBatch
        /\ w.zkAppsSendingBatch = wallets.zkAppsSendingBatch /\ WalletsSlice(w)
    BY <1>0, <2>4 DEF WalletsHeld, WalletsSlice
  <2>6. WalletsHeld(w)
    BY <1>0, <2>3, <2>5 DEF WalletsHeld
  <2> QED
    BY <2>2, <2>5, <2>6, WalletsControl DEF w
<1>13. CASE ChangeTransactionBatch
  <2>1. PICK value \in Batches : wallets' = [wallets EXCEPT !.txSendingBatch = <<batchEntered(value)>>]
    BY <1>13 DEF ChangeTransactionBatch
  <2>2. UNCHANGED <<page, walletsReq>>
    BY <1>13 DEF ChangeTransactionBatch, On
  <2> DEFINE w == wallets'
             batch == <<batchEntered(value)>>
  <2>3. batch \in Seq(Int)
    BY <1>0, BatchEntered
  <2>4. w = [wallets EXCEPT !.txSendingBatch = batch]
    BY <2>1
  <2> HIDE DEF w, batch
  <2>5. /\ w.wallets = wallets.wallets /\ w.txsToSend = wallets.txsToSend /\ w.blockSending = wallets.blockSending
        /\ w.txsWhole = wallets.txsWhole /\ w.activeWallet = wallets.activeWallet /\ w.txSendingBatch = batch
        /\ w.zkAppsSendingBatch = wallets.zkAppsSendingBatch /\ WalletsSlice(w)
    BY <1>0, <2>4 DEF WalletsHeld, WalletsSlice
  <2>6. WalletsHeld(w)
    BY <1>0, <2>3, <2>5 DEF WalletsHeld
  <2> QED
    BY <2>2, <2>5, <2>6, WalletsControl DEF w
<1>14. CASE ChangeZkAppsBatch
  <2>1. PICK value \in Batches : wallets' = [wallets EXCEPT !.zkAppsSendingBatch = batchEntered(value)]
    BY <1>14 DEF ChangeZkAppsBatch
  <2>2. UNCHANGED <<page, walletsReq>>
    BY <1>14 DEF ChangeZkAppsBatch, On
  <2> DEFINE w == wallets'
             batch == batchEntered(value)
  <2>3. batch \in Int
    BY <1>0, BatchEntered
  <2>4. w = [wallets EXCEPT !.zkAppsSendingBatch = batch]
    BY <2>1
  <2> HIDE DEF w, batch
  <2>5. /\ w.wallets = wallets.wallets /\ w.txsToSend = wallets.txsToSend /\ w.blockSending = wallets.blockSending
        /\ w.txsWhole = wallets.txsWhole /\ w.activeWallet = wallets.activeWallet /\ w.txSendingBatch = wallets.txSendingBatch
        /\ w.zkAppsSendingBatch = batch /\ WalletsSlice(w)
    BY <1>0, <2>4 DEF WalletsHeld, WalletsSlice
  <2>6. WalletsHeld(w)
    BY <1>0, <2>3, <2>5 DEF WalletsHeld
  <2> QED
    BY <2>2, <2>5, <2>6, WalletsControl DEF w
<1>15. CASE WalletsClose
  <2> DEFINE p == walletsReq'
  <2>1. page' = "none" /\ wallets' = initialWallets /\ p = [walletsReq EXCEPT !.wallets = {}]
    BY <1>15 DEF WalletsClose, Leave
  <2> HIDE DEF p
  <2>2. /\ p.wallets = {} /\ p.payments = walletsReq.payments /\ p.zkApps = walletsReq.zkApps
        /\ p.again = walletsReq.again /\ p.overtaken = walletsReq.overtaken /\ WalletsRequests(p)
    BY <1>0, <2>1 DEF WalletsSent, WalletsRequests
  <2>3. WalletsSent(p)
    BY <1>0, <2>2 DEF WalletsSent
  <2>4. initialWallets.blockSending = FALSE /\ initialWallets.txsToSend = <<>>
    BY DEF initialWallets
  <2>5. WalletsBlocked(initialWallets, p, FALSE)
    BY <2>2, <2>4 DEF WalletsInv, WalletsBlocked
  <2> QED
    BY <2>1, <2>3, <2>5, WalletsInitial DEF WalletsInv, p
<1>16. CASE LoadedO1jsAgain
  <2> DEFINE p == walletsReq'
             run == walletsReq.zkApps \cup walletsReq.again
  <2>1. UNCHANGED <<page, wallets>> /\ p = [walletsReq EXCEPT !.zkApps = run, !.again = {}, !.overtaken = TRUE]
    BY <1>16 DEF LoadedO1jsAgain
  <2>2. walletsReq.zkApps \subseteq run
    OBVIOUS
  <2> HIDE DEF p
  <2>3. /\ p.wallets = walletsReq.wallets /\ p.payments = walletsReq.payments /\ p.zkApps = run
        /\ p.again = {} /\ p.overtaken = TRUE /\ WalletsRequests(p)
    BY <1>0, <2>1 DEF WalletsSent, WalletsRequests
  <2>4. WalletsSent(p)
    BY <1>0, <2>3 DEF WalletsSent
  <2>5. WalletsBlocked(wallets, p, page = "wallets")
    BY <2>2, <2>3 DEF WalletsInv, WalletsBlocked
  <2> QED
    BY <1>0, <2>1, <2>4, <2>5 DEF WalletsInv, p
<1> QED
  BY <1>1, <1>2, <1>3, <1>4, <1>5, <1>7, <1>8, <1>9, <1>10, <1>11, <1>12, <1>13, <1>14, <1>15, <1>16 DEF WalletsNext

\* Every other step leaves the wallets alone, and does not open their page.
LEMMA WalletsAlways ==
    SessionInv /\ WalletsInv /\ [ToolPagesNext]_toolPagesVars => WalletsInv'
<1> SUFFICES ASSUME SessionInv, WalletsInv, [ToolPagesNext]_toolPagesVars PROVE WalletsInv'
  OBVIOUS
<1>0. ASSUME UNCHANGED walletsVars, page' = "wallets" => page = "wallets" PROVE WalletsInv'
  BY <1>0 DEF WalletsInv, WalletsBlocked, walletsVars
<1>1. ASSUME NEW p, p # "wallets", Apart(p), UNCHANGED walletsVars PROVE WalletsInv'
  BY <1>0, <1>1 DEF Apart
<1>2. CASE UNCHANGED toolPagesVars
  BY <1>0, <1>2 DEF toolPagesVars, layoutVars, sectionVars
<1>3. CASE Reload
  <2>1. page' = "none" /\ wallets' = initialWallets /\ walletsReq' = initialWalletsReq
    BY <1>3 DEF Reload
  <2> QED
    BY <2>1, WalletsInitial DEF WalletsInv
<1>4. CASE SectionNext
  <2>1. CASE WorkPoolNext /\ UNCHANGED walletsVars
    BY <1>1, <2>1, WorkPoolApart
  <2>2. CASE ScanNext /\ UNCHANGED walletsVars
    BY <1>1, <2>2, ScanApart
  <2>3. CASE StateActionsNext /\ UNCHANGED walletsVars
    BY <1>1, <2>3, StateActionsApart
  <2>4. CASE WalletsNext
    BY <2>4, WalletsStep
  <2>5. CASE MempoolNext /\ UNCHANGED walletsVars
    BY <1>1, <2>5, MempoolApart
  <2>6. CASE PickNode
    BY <1>1, <2>6, PickNodeApart DEF PickNode, sectionVars
  <2> QED
    BY <1>4, <2>1, <2>2, <2>3, <2>4, <2>5, <2>6 DEF SectionNext
<1>5. CASE Framed /\ FrameNext /\ UNCHANGED sectionVars
  <2>1. page' \in {"none", "dashboard"}
    BY <1>5, DashboardApart DEF SessionInv, FrameNext, layoutVars
  <2> QED
    BY <1>0, <1>5, <2>1 DEF sectionVars
<1> QED
  BY <1>2, <1>3, <1>4, <1>5 DEF ToolPagesNext

\* Batches of the page Benchmarks: Wallets that are on their way together spend no
\* nonce twice, unless the wallets were asked for meanwhile or o1js was loaded again;
\* and a send button that is blocked has a request whose end frees it, unless it is
\* blocked for payments that could not be signed: for every list of wallets, every
\* batch and every order of the answers, of visits and of changes of the node.
THEOREM WalletsTheorem == ToolPagesSpec => []WalletsSound
<1>1. ToolPagesInit => WalletsInv
  <2> SUFFICES ASSUME ToolPagesInit PROVE WalletsInv
    OBVIOUS
  <2>1. wallets = initialWallets /\ walletsReq = initialWalletsReq /\ page = "none"
    BY DEF ToolPagesInit, WalletsInit, LayoutInit
  <2> QED
    BY <2>1, WalletsInitial DEF WalletsInv
<1> QED
  BY <1>1, SessionStart, SessionStep, WalletsAlways, WalletsInvSound, PTL DEF ToolPagesSpec

(***************************************************************************)
(* The frame and the dashboard.                                            *)
(***************************************************************************)

AllNodes == ToSet(AppConfigs) \cup NewNodes

intervalFor(status) == IF status \in {"Synced", "Offline"} THEN 5000 ELSE 1000

ViewSlice(v) ==
    v = [updateAction |-> v.updateAction, connected |-> v.connected, connectedProgress |-> v.connectedProgress,
         ledgerProgress |-> v.ledgerProgress, blockSyncProgress |-> v.blockSyncProgress, interval |-> v.interval,
         lastStatus |-> v.lastStatus]

\* Blocks count only when all ledgers are there.
ViewStaged(v) == ViewSlice(v) /\ (v.blockSyncProgress = 0 \/ v.ledgerProgress = 100)

\* The timer was last set for this status.
ViewTimed(v, status) == v.lastStatus = status /\ v.interval = intervalFor(status)

\* A request that is not one of a page left since went to the node that is asked now.
DashboardAsked(q, open, node) ==
    /\ q = [pending |-> q.pending, sent |-> q.sent]
    /\ \A r \in q.sent : r = [node |-> r.node, stale |-> r.stale] /\ (r.stale \/ (open /\ r.node = node))

AppSlice(a) ==
    /\ a = [nodes |-> a.nodes, activeNode |-> a.activeNode, details |-> a.details, envBuild |-> a.envBuild,
            menu |-> a.menu]
    /\ a.menu = [collapsed |-> a.menu.collapsed, isMobile |-> a.menu.isMobile, open |-> a.menu.open]

\* The local storage holds what the frame shows.
AppStored(a, st) ==
    /\ AppSlice(a)
    /\ st = [customNodes |-> st.customNodes, menuCollapsed |-> st.menuCollapsed, urlNode |-> st.urlNode]
    /\ a.nodes \in Seq(AllNodes) /\ st.customNodes \in Seq(NewNodes)
    /\ filter(a.nodes, NewNodes) = st.customNodes
    /\ a.menu.collapsed = st.menuCollapsed

FrameInv ==
    /\ page \in session \cup {"none", "ended"}
    /\ ViewStaged(dashboardView)
    /\ page = "dashboard" => ViewTimed(dashboardView, app.details.status)
    /\ DashboardAsked(dashboardReq, page = "dashboard", rust)
    /\ AppStored(app, appStorage)

LEMMA FrameInvSound == FrameInv => FrameSound
  BY DEF FrameInv, FrameSound, StagesInOrder, DashboardAsksActive, DashboardTimerFits, StorageMatches,
         ViewStaged, ViewTimed, DashboardAsked, AppStored, intervalFor

\* nodesShown sets both counts, and leaves the timer alone.
LEMMA NodesShownStaged ==
    ASSUME NEW v, ViewSlice(v), NEW nodes, NEW rpcStats
    PROVE  LET w == nodesShown(v, nodes, rpcStats)
           IN  ViewStaged(w) /\ w.lastStatus = v.lastStatus /\ w.interval = v.interval
<1>1. CASE nodes = <<>>
  <2> DEFINE w == nodesShown(v, nodes, rpcStats)
  <2>1. w = [v EXCEPT !.ledgerProgress = 0, !.blockSyncProgress = 0]
    BY <1>1 DEF nodesShown
  <2> HIDE DEF w
  <2>2. ViewStaged(w) /\ w.lastStatus = v.lastStatus /\ w.interval = v.interval
    BY <2>1 DEF ViewStaged, ViewSlice
  <2> QED
    BY <2>2 DEF w
<1>2. CASE nodes # <<>>
  <2> DEFINE ledgers == nodes[1].ledgers
             total == ledgersShare(ledgers, rpcStats)
             blocks == IF nodes[1].blocks = <<>> THEN <<>> ELSE Tail(nodes[1].blocks)
             applied == percent(blocks, {"Applied"})
             fetched == percent(blocks, {"Fetched", "Applying", "Applied"})
             at == ledgerAction(ledgers, v.updateAction)
             next == blocksAction(fetched, applied)
             shown == [v EXCEPT !.updateAction = at, !.ledgerProgress = total]
             w == nodesShown(v, nodes, rpcStats)
  <2>1. w = IF total # 100 THEN [shown EXCEPT !.blockSyncProgress = 0]
            ELSE [shown EXCEPT !.blockSyncProgress = applied, !.updateAction = next]
    BY <1>2 DEF nodesShown
  <2>2. shown = [v EXCEPT !.updateAction = at, !.ledgerProgress = total]
    OBVIOUS
  <2> HIDE DEF w, shown, total, applied, at, next
  <2>3. shown.ledgerProgress = total /\ ViewSlice(shown) /\ shown.lastStatus = v.lastStatus /\ shown.interval = v.interval
    BY <2>2 DEF ViewSlice
  <2>4. ViewStaged(w) /\ w.lastStatus = v.lastStatus /\ w.interval = v.interval
    <3>1. CASE total # 100
      <4>1. w = [shown EXCEPT !.blockSyncProgress = 0]
        BY <2>1, <3>1
      <4> QED
        BY <2>3, <4>1 DEF ViewStaged, ViewSlice
    <3>2. CASE total = 100
      <4>1. w = [shown EXCEPT !.blockSyncProgress = applied, !.updateAction = next]
        BY <2>1, <3>2
      <4> QED
        BY <2>3, <3>2, <4>1 DEF ViewStaged, ViewSlice
    <3> QED
      BY <3>1, <3>2
  <2> QED
    BY <2>4 DEF w
<1> QED
  BY <1>1, <1>2

LEMMA PeersShownView ==
    ASSUME NEW v, ViewSlice(v), NEW stats
    PROVE  LET w == peersShown(v, stats)
           IN  ViewSlice(w) /\ w.lastStatus = v.lastStatus /\ w.interval = v.interval
<1> DEFINE some == stats.connected > 0
           at == IF stats.connecting > 0 THEN "Connecting" ELSE "Looking for peers"
           first == [v EXCEPT !.updateAction = "Downloading Staking Epoch Ledger", !.connectedProgress = TRUE]
           none == [v EXCEPT !.updateAction = at, !.connectedProgress = FALSE, !.ledgerProgress = 0,
                        !.blockSyncProgress = 0]
           shown == IF v.connected /\ some THEN v ELSE IF some THEN first ELSE none
           w == peersShown(v, stats)
<1>1. w = [shown EXCEPT !.connected = some]
  BY DEF peersShown
<1> HIDE DEF some, at, w
<1>2. ViewSlice(first) /\ first.lastStatus = v.lastStatus /\ first.interval = v.interval
  <2>1. first = [v EXCEPT !.updateAction = "Downloading Staking Epoch Ledger", !.connectedProgress = TRUE]
    OBVIOUS
  <2> HIDE DEF first
  <2> QED
    BY <2>1 DEF ViewSlice
<1>3. ViewSlice(none) /\ none.lastStatus = v.lastStatus /\ none.interval = v.interval
  <2>1. none = [v EXCEPT !.updateAction = at, !.connectedProgress = FALSE, !.ledgerProgress = 0,
                    !.blockSyncProgress = 0]
    OBVIOUS
  <2> HIDE DEF none
  <2> QED
    BY <2>1 DEF ViewSlice
<1> HIDE DEF first, none
<1>4. shown \in {v, first, none}
  OBVIOUS
<1> HIDE DEF shown
<1>5. ViewSlice(shown) /\ shown.lastStatus = v.lastStatus /\ shown.interval = v.interval
  BY <1>2, <1>3, <1>4
<1>6. ViewSlice(w) /\ w.lastStatus = v.lastStatus /\ w.interval = v.interval
  BY <1>1, <1>5 DEF ViewSlice
<1> QED
  BY <1>6 DEF w

LEMMA StatusShownView ==
    ASSUME NEW v, ViewStaged(v), NEW status
    PROVE  ViewStaged(statusShown(v, status)) /\ ViewTimed(statusShown(v, status), status)
<1> DEFINE interval == intervalFor(status)
           w == statusShown(v, status)
<1>1. w = [v EXCEPT !.lastStatus = status, !.interval = interval]
  BY DEF statusShown, intervalFor
<1>2. interval = intervalFor(status)
  OBVIOUS
<1> HIDE DEF interval, w
<1>3. ViewStaged(w) /\ ViewTimed(w, status)
  BY <1>1, <1>2 DEF ViewStaged, ViewSlice, ViewTimed
<1> QED
  BY <1>3 DEF w

LEMMA InitialViewStaged == ViewStaged(initialView)
<1>1. ViewSlice(initialView)
  BY DEF ViewSlice, initialView
<1>2. initialView.blockSyncProgress = 0
  BY DEF initialView
<1> QED
  BY <1>1, <1>2 DEF ViewStaged

\* getData$: a request that is dropped leaves the older ones, one that is not takes
\* their place.
LEMMA DataAsked ==
    ASSUME NEW q, NEW open, NEW node, DashboardAsked(q, open, node), NEW force \in BOOLEAN
    PROVE  DashboardAsked(getData(q, force, node), TRUE, node)
<1>1. CASE getData(q, force, node) = q
  BY <1>1 DEF DashboardAsked
<1>2. CASE getData(q, force, node) # q
  <2> DEFINE r == [node |-> node, stale |-> FALSE]
             p == getData(q, force, node)
  <2>1. p = [pending |-> TRUE, sent |-> {r}]
    BY <1>2 DEF getData, switchMap
  <2>2. r = [node |-> r.node, stale |-> r.stale] /\ r.node = node
    OBVIOUS
  <2> HIDE DEF r, p
  <2>3. p = [pending |-> p.pending, sent |-> p.sent] /\ p.sent = {r}
    BY <2>1
  <2>4. DashboardAsked(p, TRUE, node)
    BY <2>2, <2>3 DEF DashboardAsked
  <2> QED
    BY <2>4 DEF p
<1> QED
  BY <1>1, <1>2

\* A forced request, to whatever node.
LEMMA DataForced ==
    ASSUME NEW q, NEW node
    PROVE  DashboardAsked(getData(q, TRUE, node), TRUE, node)
<1> DEFINE r == [node |-> node, stale |-> FALSE]
           p == getData(q, TRUE, node)
<1>1. p = [pending |-> TRUE, sent |-> {r}]
  BY DEF getData, switchMap
<1>2. r = [node |-> r.node, stale |-> r.stale] /\ r.node = node
  OBVIOUS
<1> HIDE DEF r, p
<1>3. p = [pending |-> p.pending, sent |-> p.sent] /\ p.sent = {r}
  BY <1>1
<1>4. DashboardAsked(p, TRUE, node)
  BY <1>2, <1>3 DEF DashboardAsked
<1> QED
  BY <1>4 DEF p

\* Leaving the page makes the requests stale.
LEMMA DataLeft ==
    ASSUME NEW q, NEW open, NEW node, DashboardAsked(q, open, node), NEW later
    PROVE  DashboardAsked([q EXCEPT !.sent = Stale(q.sent)], FALSE, later)
<1> DEFINE old == Stale(q.sent)
           p == [q EXCEPT !.sent = old]
<1>1. ASSUME NEW r \in old PROVE r = [node |-> r.node, stale |-> r.stale] /\ r.stale
  <2>1. PICK s \in q.sent : r = [s EXCEPT !.stale = TRUE]
    BY <1>1 DEF Stale
  <2>2. s = [node |-> s.node, stale |-> s.stale]
    BY DEF DashboardAsked
  <2> QED
    BY <2>1, <2>2
<1>2. p = [q EXCEPT !.sent = old]
  OBVIOUS
<1> HIDE DEF old, p
<1>3. p = [pending |-> p.pending, sent |-> p.sent] /\ p.sent = old
  BY <1>2 DEF DashboardAsked
<1>4. DashboardAsked(p, FALSE, later)
  BY <1>1, <1>3 DEF DashboardAsked
<1> QED
  BY <1>4 DEF p, old

\* An answer or a failure takes requests away.
LEMMA DataEnds ==
    ASSUME NEW q, NEW open, NEW node, DashboardAsked(q, open, node), NEW sent, sent \subseteq q.sent
    PROVE  DashboardAsked([pending |-> FALSE, sent |-> sent], open, node)
<1> DEFINE p == [pending |-> FALSE, sent |-> sent]
<1>1. p = [pending |-> p.pending, sent |-> p.sent] /\ p.sent = sent
  OBVIOUS
<1> HIDE DEF p
<1>2. DashboardAsked(p, open, node)
  BY <1>1 DEF DashboardAsked
<1> QED
  BY <1>2 DEF p

\* A change of the application's slice that keeps its nodes and its menu.
LEMMA AppKept ==
    ASSUME NEW a, NEW st, AppStored(a, st), NEW b, AppSlice(b), b.nodes = a.nodes, b.menu = a.menu
    PROVE  AppStored(b, st)
  BY DEF AppStored

\* The nodes that a reload brings back: those of the configuration, then the custom ones.
LEMMA StorageRead ==
    ASSUME NEW custom \in Seq(NewNodes)
    PROVE  AppConfigs \o custom \in Seq(AllNodes) /\ filter(AppConfigs \o custom, NewNodes) = custom
<1>1. NewNodes \subseteq AllNodes /\ ToSet(AppConfigs) \subseteq AllNodes
  BY DEF AllNodes
<1>2. custom \in Seq(AllNodes)
  BY <1>1, SeqMonotonic
<1>3. AppConfigs \in Seq(AllNodes)
  <2> DEFINE S == ToSet(AppConfigs)
  <2>1. AppConfigs \in Seq(S) /\ S \subseteq AllNodes
    BY <1>1, AppShellAssumption
  <2> HIDE DEF S
  <2> QED
    BY <2>1, SeqMonotonic
<1>4. filter(AppConfigs \o custom, NewNodes) = filter(AppConfigs, NewNodes) \o filter(custom, NewNodes)
  BY <1>2, <1>3, FilterConcat
<1>5. filter(AppConfigs, NewNodes) = <<>>
  BY <1>3, AppShellAssumption, FilterNone
<1>6. ToSet(custom) \subseteq NewNodes
  BY DEF ToSet
<1>7. filter(custom, NewNodes) = custom
  BY <1>6, FilterAll
<1>8. AppConfigs \o custom \in Seq(AllNodes)
  BY <1>2, <1>3
<1> QED
  BY <1>4, <1>5, <1>7, <1>8

\* A new node comes first in both lists.
LEMMA StoredMore ==
    ASSUME NEW nodes \in Seq(AllNodes), NEW custom \in Seq(NewNodes), filter(nodes, NewNodes) = custom,
           NEW n \in NewNodes
    PROVE  /\ <<n>> \o nodes \in Seq(AllNodes) /\ <<n>> \o custom \in Seq(NewNodes)
           /\ filter(<<n>> \o nodes, NewNodes) = <<n>> \o custom
<1> DEFINE one == <<n>>
<1>1. n \in AllNodes
  BY DEF AllNodes
<1>2. one \in Seq(AllNodes) /\ one \in Seq(NewNodes) /\ ToSet(one) \subseteq NewNodes
  BY <1>1 DEF ToSet
<1> HIDE DEF one
<1>3. filter(one, NewNodes) = one
  BY <1>2, FilterAll
<1>4. filter(one \o nodes, NewNodes) = filter(one, NewNodes) \o filter(nodes, NewNodes)
  <2>1. ASSUME NEW s \in Seq(AllNodes), NEW t \in Seq(AllNodes)
        PROVE  filter(s \o t, NewNodes) = filter(s, NewNodes) \o filter(t, NewNodes)
    BY FilterConcat
  <2> QED
    BY <1>2, <2>1
<1>5. one \o nodes \in Seq(AllNodes) /\ one \o custom \in Seq(NewNodes)
  BY <1>2
<1> QED
  BY <1>3, <1>4, <1>5 DEF one

\* A deletion by name takes the same custom nodes from both lists.
LEMMA StoredLess ==
    ASSUME NEW nodes \in Seq(AllNodes), NEW custom \in Seq(NewNodes), filter(nodes, NewNodes) = custom, NEW n
    PROVE  /\ Unnamed(nodes, n) \in Seq(AllNodes) /\ Unnamed(custom, n) \in Seq(NewNodes)
           /\ filter(Unnamed(nodes, n), NewNodes) = Unnamed(custom, n)
<1> DEFINE kept == {x \in ToSet(nodes) : NodeName[x] # NodeName[n]}
           keptCustom == {x \in ToSet(custom) : NodeName[x] # NodeName[n]}
<1>1. Unnamed(nodes, n) = filter(nodes, kept) /\ Unnamed(custom, n) = filter(custom, keptCustom)
  BY DEF Unnamed
<1>2. ToSet(custom) = ToSet(nodes) \cap NewNodes
  BY FilterRows
<1>3. ToSet(custom) \cap keptCustom = ToSet(custom) \cap kept
  BY <1>2
<1>4. kept \cap NewNodes = NewNodes \cap kept
  OBVIOUS
<1> HIDE DEF kept, keptCustom
<1>5. filter(nodes, kept) \in Seq(AllNodes) /\ filter(custom, keptCustom) \in Seq(NewNodes)
  BY FilterRows
<1>6. filter(filter(nodes, kept), NewNodes) = filter(nodes, kept \cap NewNodes)
  BY FilterTwice
<1>7. filter(filter(nodes, NewNodes), kept) = filter(nodes, NewNodes \cap kept)
  BY FilterTwice
<1>8. filter(custom, kept) = filter(custom, keptCustom)
  BY <1>3, FilterSame
<1> QED
  BY <1>1, <1>4, <1>5, <1>6, <1>7, <1>8

\* What a step of the dashboard may leave of the page.
LEMMA DashboardShown ==
    ASSUME FrameInv, page' = page, NEW state, Shown(state), app' = app
    PROVE  ViewStaged(dashboardView') /\ (page' = "dashboard" => ViewTimed(dashboardView', app'.details.status))
<1> DEFINE v == peersShown(dashboardView, state.peersStats)
           w == nodesShown(v, state.nodes, state.rpcStats)
<1>1. ViewSlice(dashboardView)
  BY DEF FrameInv, ViewStaged
<1>2. ViewSlice(v) /\ v.lastStatus = dashboardView.lastStatus /\ v.interval = dashboardView.interval
  BY <1>1, PeersShownView
<1> HIDE DEF v
<1>3. ViewStaged(w) /\ w.lastStatus = dashboardView.lastStatus /\ w.interval = dashboardView.interval
  BY <1>2, NodesShownStaged
<1>4. dashboardView' = IF page # "dashboard" THEN dashboardView ELSE w
  BY DEF Shown, v
<1> HIDE DEF w
<1> QED
  BY <1>3, <1>4 DEF FrameInv, ViewTimed

\* Another node is active: the emptied page is shown, or the page is left.
LEMMA NodeShownStep ==
    ASSUME FrameInv, UNCHANGED session, NEW n, NodeShown(n), page = "dashboard", page' \in {page, "none"}, rust' = n,
           AppStored(app', appStorage'), app'.details = app.details
    PROVE  FrameInv'
<1> DEFINE emptied == initialDashboard(dashboard.peersSort)
           shown == IF dashboard.peersStats.answered THEN peersShown(dashboardView, emptied.peersStats)
                    ELSE dashboardView
           w == nodesShown(shown, <<>>, NoProgress)
<1>0. ViewSlice(dashboardView) /\ page \in session \cup {"none", "ended"}
  BY DEF FrameInv, ViewStaged
<1>1. /\ dashboardReq' = [getData(dashboardReq, TRUE, n) EXCEPT !.sent = IF page' = page THEN @ ELSE Stale(@)]
      /\ dashboardView' = IF page' = page THEN w ELSE initialView
  BY DEF NodeShown
<1>2. ViewSlice(shown) /\ shown.lastStatus = dashboardView.lastStatus /\ shown.interval = dashboardView.interval
  BY <1>0, PeersShownView
<1> HIDE DEF shown
<1>3. ViewStaged(w) /\ w.lastStatus = dashboardView.lastStatus /\ w.interval = dashboardView.interval
  BY <1>2, NodesShownStaged
<1> HIDE DEF w
<1> DEFINE q == getData(dashboardReq, TRUE, n)
<1>4. DashboardAsked(q, TRUE, n)
  BY DataForced
<1>5. dashboardReq' = [q EXCEPT !.sent = IF page' = page THEN @ ELSE Stale(@)]
  BY <1>1
<1> HIDE DEF q
<1>6. CASE page' = page
  <2>1. dashboardReq' = q
    BY <1>4, <1>5, <1>6 DEF DashboardAsked
  <2>2. dashboardView' = w /\ page' = "dashboard"
    BY <1>1, <1>6
  <2>3. ViewTimed(dashboardView', app'.details.status)
    BY <1>3, <2>2 DEF FrameInv, ViewTimed
  <2> QED
    BY <1>0, <1>3, <1>4, <2>1, <2>2, <2>3 DEF FrameInv
<1>7. CASE page' # page
  <2>1. dashboardReq' = [q EXCEPT !.sent = Stale(q.sent)]
    BY <1>5, <1>7
  <2>2. dashboardView' = initialView /\ page' = "none"
    BY <1>1, <1>7
  <2>3. DashboardAsked(dashboardReq', FALSE, rust')
    BY <1>4, <2>1, DataLeft
  <2> QED
    BY <2>2, <2>3, InitialViewStaged DEF FrameInv
<1> QED
  BY <1>6, <1>7

\* Nodes that are deleted are deleted from the storage too.
LEMMA NodeDeleted ==
    ASSUME AppStored(app, appStorage), NEW n, deleteNode(n)
    PROVE  AppStored(app', appStorage') /\ app'.details = app.details
<1> DEFINE a == app'
           st == appStorage'
           nodes == Unnamed(app.nodes, n)
           custom == Unnamed(appStorage.customNodes, n)
           active == IF NodeName[app.activeNode] = NodeName[n] THEN Head(nodes) ELSE app.activeNode
<1>1. nodes \in Seq(AllNodes) /\ custom \in Seq(NewNodes) /\ filter(nodes, NewNodes) = custom
  BY StoredLess DEF AppStored
<1>2. a = [app EXCEPT !.nodes = nodes, !.activeNode = active] /\ st = [appStorage EXCEPT !.customNodes = custom]
  BY DEF deleteNode
<1> HIDE DEF a, st, nodes, custom, active
<1>3. AppSlice(a) /\ a.nodes = nodes /\ a.menu = app.menu /\ a.details = app.details
  BY <1>2 DEF AppStored, AppSlice
<1>4. /\ st.customNodes = custom /\ st.menuCollapsed = appStorage.menuCollapsed
      /\ st = [customNodes |-> st.customNodes, menuCollapsed |-> st.menuCollapsed, urlNode |-> st.urlNode]
  BY <1>2 DEF AppStored
<1>5. AppStored(a, st)
  BY <1>1, <1>3, <1>4 DEF AppStored
<1> QED
  BY <1>3, <1>5 DEF a, st

LEMMA DashboardStep ==
    FrameInv /\ DashboardNext /\ "dashboard" \in session /\ UNCHANGED session => FrameInv'
<1> SUFFICES ASSUME FrameInv, DashboardNext, "dashboard" \in session, UNCHANGED session PROVE FrameInv'
  OBVIOUS
<1>0. /\ ViewStaged(dashboardView) /\ ViewSlice(dashboardView) /\ DashboardAsked(dashboardReq, page = "dashboard", rust)
      /\ AppStored(app, appStorage) /\ AppSlice(app) /\ page \in session \cup {"none", "ended"}
  BY DEF FrameInv, ViewStaged, AppStored
<1>1. ASSUME DashboardOpen PROVE FrameInv'
  <2>1. /\ page' = "dashboard" /\ rust' = rust /\ app' = app /\ appStorage' = appStorage
        /\ dashboardReq' = getData(dashboardReq, FALSE, rust)
    BY <1>1 DEF DashboardOpen, Enter, appVars
  <2> DEFINE v == statusShown(initialView, app.details.status)
             w == nodesShown(v, dashboard.nodes, dashboard.rpcStats)
  <2>2. ViewSlice(v) /\ ViewTimed(v, app.details.status)
    BY InitialViewStaged, StatusShownView DEF ViewStaged
  <2>3. dashboardView' = w
    BY <1>1 DEF DashboardOpen
  <2> HIDE DEF v
  <2>4. ViewStaged(w) /\ w.lastStatus = v.lastStatus /\ w.interval = v.interval
    BY <2>2, NodesShownStaged
  <2> HIDE DEF w
  <2>5. ViewTimed(w, app.details.status)
    BY <2>2, <2>4 DEF ViewTimed
  <2>6. DashboardAsked(dashboardReq', TRUE, rust)
    BY <1>0, <2>1, DataAsked
  <2> QED
    BY <1>0, <2>1, <2>3, <2>4, <2>5, <2>6 DEF FrameInv
<1>2. ASSUME DashboardTick PROVE FrameInv'
  <2>1. /\ page = "dashboard" /\ page' = page /\ rust' = rust /\ app' = app /\ appStorage' = appStorage
        /\ dashboardView' = dashboardView /\ dashboardReq' = getData(dashboardReq, FALSE, rust)
    BY <1>2 DEF DashboardTick, On, appVars
  <2>2. DashboardAsked(dashboardReq', TRUE, rust)
    BY <1>0, <2>1, DataAsked
  <2> QED
    BY <2>1, <2>2 DEF FrameInv
<1>3. ASSUME DashboardNodeChange PROVE FrameInv'
  <2>1. PICK n : /\ page = "dashboard" /\ changeActiveNode(n)
                 /\ page' = IF isFeatureEnabled(n, "dashboard") THEN page ELSE "none"
                 /\ NodeShown(n)
    BY <1>3 DEF DashboardNodeChange
  <2>4. app' = [app EXCEPT !.activeNode = n] /\ rust' = n
    BY <2>1 DEF changeActiveNode
  <2>5. appStorage' = [appStorage EXCEPT !.urlNode = NodeName[n]]
    BY <2>1 DEF changeActiveNode
  <2>6. AppStored(app', appStorage') /\ app'.details = app.details
    <3> DEFINE a == app'
               st == appStorage'
               name == NodeName[n]
    <3>1. a = [app EXCEPT !.activeNode = n] /\ st = [appStorage EXCEPT !.urlNode = name]
      BY <2>4, <2>5
    <3> HIDE DEF a, st, name
    <3>2. AppSlice(a) /\ a.nodes = app.nodes /\ a.menu = app.menu /\ a.details = app.details
      BY <1>0, <3>1 DEF AppSlice
    <3>3. /\ st.customNodes = appStorage.customNodes /\ st.menuCollapsed = appStorage.menuCollapsed
          /\ st = [customNodes |-> st.customNodes, menuCollapsed |-> st.menuCollapsed, urlNode |-> st.urlNode]
      BY <1>0, <3>1 DEF AppStored
    <3>4. AppStored(a, st)
      BY <1>0, <3>2, <3>3 DEF AppStored
    <3> QED
      BY <3>2, <3>4 DEF a, st
  <2>7. page' \in {page, "none"} /\ UNCHANGED session
    BY <2>1
  <2> QED
    BY <2>1, <2>4, <2>6, <2>7, NodeShownStep
<1>10. ASSUME DashboardDeleteNode PROVE FrameInv'
  <2>1. PICK n : /\ deleteNode(n)
                 /\ IF app'.activeNode = app.activeNode THEN UNCHANGED dashboardVars ELSE NodeShown(rust)
    BY <1>10 DEF DashboardDeleteNode
  <2>2. page = "dashboard" /\ page' = page
    BY <1>10 DEF DashboardDeleteNode, On
  <2>3. rust' = rust
    BY <2>1 DEF deleteNode
  <2>4. AppStored(app', appStorage') /\ app'.details = app.details
    BY <1>0, <2>1, NodeDeleted
  <2>5. CASE UNCHANGED dashboardVars
    BY <1>0, <2>2, <2>3, <2>4, <2>5 DEF FrameInv, dashboardVars
  <2>6. CASE NodeShown(rust)
    BY <2>2, <2>3, <2>4, <2>6, NodeShownStep
  <2> QED
    BY <2>1, <2>5, <2>6
<1>4. ASSUME NEW state, Shown(state), UNCHANGED <<page, rust, app, appStorage>>, NEW sent, sent \subseteq dashboardReq.sent,
             dashboardReq' = [pending |-> FALSE, sent |-> sent]
      PROVE  FrameInv'
  <2>1. DashboardAsked(dashboardReq', page = "dashboard", rust)
    BY <1>0, <1>4, DataEnds
  <2>2. ViewStaged(dashboardView') /\ (page' = "dashboard" => ViewTimed(dashboardView', app'.details.status))
    BY <1>4, DashboardShown
  <2> QED
    BY <1>0, <1>4, <2>1, <2>2 DEF FrameInv
<1>5. ASSUME GetDataSuccess PROVE FrameInv'
  <2>1. PICK r \in dashboardReq.sent, peers \in PeersAnswers, syncTips \in SyncTips \cup {<<>>},
             rpcStats \in ProgressAnswers :
          /\ dashboardReq' = [pending |-> FALSE, sent |-> Completed(dashboardReq.sent, r)]
          /\ Shown(GetDataReduced(peers, getNodeTips(syncTips, r.node), rpcStats))
    BY <1>5 DEF GetDataSuccess
  <2>2. UNCHANGED <<page, rust, app, appStorage>>
    BY <1>5 DEF GetDataSuccess
  <2>3. Completed(dashboardReq.sent, r) \subseteq dashboardReq.sent
    BY DEF Completed
  <2> QED
    BY <1>4, <2>1, <2>2, <2>3
<1>6. ASSUME GetDataError PROVE FrameInv'
  <2>1. /\ dashboardReq' = [pending |-> FALSE, sent |-> {}] /\ UNCHANGED <<page, rust, app, appStorage>>
        /\ Shown(GetDataReduced(<<>>, <<>>, NoProgress))
    BY <1>6 DEF GetDataError, catchErrorAndRepeat
  <2> QED
    BY <1>4, <2>1
<1>7. ASSUME PeersSort PROVE FrameInv'
  <2>1. UNCHANGED <<page, rust, app, appStorage, dashboardReq, dashboardView>>
    BY <1>7 DEF PeersSort, On, appVars
  <2> QED
    BY <1>0, <2>1 DEF FrameInv
<1>8. ASSUME DashboardStatusNext PROVE FrameInv'
  <2>1. UNCHANGED <<page, rust, dashboardReq>>
    BY <1>8 DEF DashboardStatusNext, StatusShown
  <2>2. AppStored(app', appStorage')
    <3>1. appStorage' = appStorage
      BY <1>8 DEF DashboardStatusNext, AppStatusNext, AppTick, GetNodeDetailsSuccess, GetNodeDetailsError, GetNodeEnvBuildEnds
    <3>2. CASE app' = app
      BY <1>0, <3>1, <3>2
    <3>3. ASSUME NEW x, app' = [app EXCEPT !.details = x] PROVE AppStored(app', appStorage')
      <4> DEFINE a == app'
      <4>1. a = [app EXCEPT !.details = x]
        BY <3>3
      <4> HIDE DEF a
      <4>2. AppSlice(a) /\ a.nodes = app.nodes /\ a.menu = app.menu
        BY <1>0, <4>1 DEF AppSlice
      <4>3. AppStored(a, appStorage)
        BY <1>0, <4>2, AppKept
      <4> QED
        BY <3>1, <4>3 DEF a
    <3>4. ASSUME NEW x, app' = [app EXCEPT !.envBuild = x] PROVE AppStored(app', appStorage')
      <4> DEFINE a == app'
      <4>1. a = [app EXCEPT !.envBuild = x]
        BY <3>4
      <4> HIDE DEF a
      <4>2. AppSlice(a) /\ a.nodes = app.nodes /\ a.menu = app.menu
        BY <1>0, <4>1 DEF AppSlice
      <4>3. AppStored(a, appStorage)
        BY <1>0, <4>2, AppKept
      <4> QED
        BY <3>1, <4>3 DEF a
    <3>5. AppTick => app' = app
      BY DEF AppTick
    <3>6. GetNodeDetailsSuccess => \E x : app' = [app EXCEPT !.details = x]
      BY DEF GetNodeDetailsSuccess
    <3>7. GetNodeDetailsError => \E x : app' = [app EXCEPT !.details = x]
      BY DEF GetNodeDetailsError
    <3>8. GetNodeEnvBuildEnds => \E x : app' = [app EXCEPT !.envBuild = x]
      BY DEF GetNodeEnvBuildEnds
    <3> QED
      BY <1>8, <3>2, <3>3, <3>4, <3>5, <3>6, <3>7, <3>8 DEF DashboardStatusNext, AppStatusNext
  <2> DEFINE status == app'.details.status
             v == statusShown(dashboardView, status)
  <2>3. ViewStaged(v) /\ ViewTimed(v, status)
    BY <1>0, StatusShownView
  <2>4. dashboardView' = IF page = "dashboard" /\ status # dashboardView.lastStatus THEN v ELSE dashboardView
    BY <1>8 DEF DashboardStatusNext, StatusShown
  <2> HIDE DEF v
  <2>5. ViewStaged(dashboardView')
    BY <1>0, <2>3, <2>4
  <2>6. page' = "dashboard" => ViewTimed(dashboardView', status)
    <3>1. CASE page = "dashboard" /\ status # dashboardView.lastStatus
      BY <2>3, <2>4, <3>1
    <3>2. CASE page = "dashboard" /\ status = dashboardView.lastStatus
      BY <2>4, <3>2 DEF FrameInv, ViewTimed
    <3> QED
      BY <2>1, <3>1, <3>2
  <2> QED
    BY <1>0, <2>1, <2>2, <2>5, <2>6 DEF FrameInv
<1>9. ASSUME DashboardLeave PROVE FrameInv'
  <2>1. /\ page' = "none" /\ dashboardView' = initialView /\ UNCHANGED <<rust, app, appStorage>>
        /\ dashboardReq' = [dashboardReq EXCEPT !.sent = Stale(dashboardReq.sent)]
    BY <1>9 DEF DashboardLeave, Leave, appVars
  <2>2. DashboardAsked(dashboardReq', FALSE, rust')
    BY <1>0, <2>1, DataLeft
  <2> QED
    BY <1>0, <2>1, <2>2, InitialViewStaged DEF FrameInv
<1> QED
  BY <1>1, <1>2, <1>3, <1>5, <1>6, <1>7, <1>8, <1>9, <1>10 DEF DashboardNext

\* The picker and the menu are used where no dashboard is open; the storage follows
\* what they change.
LEMMA PickerStep ==
    ASSUME FrameInv, NodePickerNext \/ MenuNext
    PROVE  AppStored(app', appStorage')
<1>0. /\ AppStored(app, appStorage) /\ AppSlice(app)
      /\ appStorage = [customNodes |-> appStorage.customNodes, menuCollapsed |-> appStorage.menuCollapsed,
                       urlNode |-> appStorage.urlNode]
      /\ app.nodes \in Seq(AllNodes) /\ appStorage.customNodes \in Seq(NewNodes)
      /\ filter(app.nodes, NewNodes) = appStorage.customNodes
      /\ app.menu.collapsed = appStorage.menuCollapsed
  BY DEF FrameInv, AppStored
<1> DEFINE a == app'
           st == appStorage'
<1>1. CASE UNCHANGED <<app, appStorage>>
  BY <1>0, <1>1
<1>2. ASSUME NEW n, changeActiveNode(n) PROVE AppStored(a, st)
  <2> DEFINE name == NodeName[n]
  <2>1. a = [app EXCEPT !.activeNode = n] /\ st = [appStorage EXCEPT !.urlNode = name]
    BY <1>2 DEF changeActiveNode
  <2> HIDE DEF a, st, name
  <2>2. AppSlice(a) /\ a.nodes = app.nodes /\ a.menu = app.menu
    BY <1>0, <2>1 DEF AppSlice
  <2>3. /\ st.customNodes = appStorage.customNodes /\ st.menuCollapsed = appStorage.menuCollapsed
        /\ st = [customNodes |-> st.customNodes, menuCollapsed |-> st.menuCollapsed, urlNode |-> st.urlNode]
    BY <1>0, <2>1
  <2> QED
    BY <1>0, <2>2, <2>3 DEF AppStored
<1>3. CASE selectNode
  BY <1>1, <1>2, <1>3 DEF selectNode
<1>4. CASE openNodePicker \/ listenToNodeSearch \/ openNewNode \/ closeNewNode
  BY <1>1, <1>4 DEF openNodePicker, listenToNodeSearch, openNewNode, closeNewNode
<1>5. CASE addNode
  <2>1. PICK n \in NewNodes :
          /\ app' = [app EXCEPT !.nodes = <<n>> \o @]
          /\ appStorage' = [appStorage EXCEPT !.customNodes = <<n>> \o @]
    BY <1>5 DEF addNode
  <2> DEFINE nodes == <<n>> \o app.nodes
             custom == <<n>> \o appStorage.customNodes
  <2>2. nodes \in Seq(AllNodes) /\ custom \in Seq(NewNodes) /\ filter(nodes, NewNodes) = custom
    BY <1>0, StoredMore
  <2>3. a = [app EXCEPT !.nodes = nodes] /\ st = [appStorage EXCEPT !.customNodes = custom]
    BY <2>1
  <2> HIDE DEF a, st, nodes, custom
  <2>4. AppSlice(a) /\ a.nodes = nodes /\ a.menu = app.menu
    BY <1>0, <2>3 DEF AppSlice
  <2>5. /\ st.customNodes = custom /\ st.menuCollapsed = appStorage.menuCollapsed
        /\ st = [customNodes |-> st.customNodes, menuCollapsed |-> st.menuCollapsed, urlNode |-> st.urlNode]
    BY <1>0, <2>3
  <2>6. AppStored(a, st)
    BY <1>0, <2>2, <2>4, <2>5 DEF AppStored
  <2> QED
    BY <2>6 DEF a, st
<1>6. CASE deleteCustomNode
  BY <1>0, <1>6, NodeDeleted DEF deleteCustomNode
<1>7. CASE ReloadApp
  <2> DEFINE nodes == AppConfigs \o appStorage.customNodes
             active == getActiveNode(nodes, appStorage.urlNode)
             details == [status |-> "Pending", node |-> NoEnv]
             collapsed == appStorage.menuCollapsed
             menu == [collapsed |-> collapsed, isMobile |-> FALSE, open |-> TRUE]
  <2>1. /\ a = [nodes |-> nodes, activeNode |-> active, details |-> details, envBuild |-> NoEnv, menu |-> menu]
        /\ st = appStorage
    BY <1>7 DEF ReloadApp, initialApp, getNodes
  <2>2. nodes \in Seq(AllNodes) /\ filter(nodes, NewNodes) = appStorage.customNodes
    BY <1>0, StorageRead
  <2> HIDE DEF collapsed
  <2>3. menu = [collapsed |-> menu.collapsed, isMobile |-> menu.isMobile, open |-> menu.open] /\ menu.collapsed = collapsed
    OBVIOUS
  <2> HIDE DEF a, st, nodes, active, details, menu
  <2>4. AppSlice(a) /\ a.nodes = nodes /\ a.menu = menu
    BY <2>1, <2>3 DEF AppSlice
  <2>5. AppStored(a, st)
    BY <1>0, <2>1, <2>2, <2>3, <2>4 DEF AppStored, collapsed
  <2> QED
    BY <2>5 DEF a, st
<1>8. CASE toggleMenu
  <2>1. CASE app.menu.isMobile
    <3> DEFINE open == ~app.menu.open
               menu == [app.menu EXCEPT !.open = open]
    <3>1. a = [app EXCEPT !.menu = menu] /\ st = appStorage
      BY <1>8, <2>1 DEF toggleMenu
    <3>2. menu = [app.menu EXCEPT !.open = open]
      OBVIOUS
    <3> HIDE DEF a, st, menu, open
    <3>3. menu = [collapsed |-> menu.collapsed, isMobile |-> menu.isMobile, open |-> menu.open]
          /\ menu.collapsed = app.menu.collapsed
      BY <1>0, <3>2 DEF AppSlice
    <3>4. AppSlice(a) /\ a.nodes = app.nodes /\ a.menu = menu
      BY <1>0, <3>1, <3>3 DEF AppSlice
    <3>5. AppStored(a, st)
      BY <1>0, <3>1, <3>3, <3>4 DEF AppStored
    <3> QED
      BY <3>5 DEF a, st
  <2>2. CASE ~app.menu.isMobile
    <3> DEFINE collapsed == ~app.menu.collapsed
               menu == [app.menu EXCEPT !.collapsed = collapsed]
    <3>1. a = [app EXCEPT !.menu = menu] /\ st = [appStorage EXCEPT !.menuCollapsed = collapsed]
      BY <1>8, <2>2 DEF toggleMenu
    <3>2. menu = [app.menu EXCEPT !.collapsed = collapsed]
      OBVIOUS
    <3> HIDE DEF a, st, menu, collapsed
    <3>3. menu = [collapsed |-> menu.collapsed, isMobile |-> menu.isMobile, open |-> menu.open]
          /\ menu.collapsed = collapsed
      BY <1>0, <3>2 DEF AppSlice
    <3>4. AppSlice(a) /\ a.nodes = app.nodes /\ a.menu = menu
      BY <1>0, <3>1, <3>3 DEF AppSlice
    <3>5. /\ st.customNodes = appStorage.customNodes /\ st.menuCollapsed = collapsed
          /\ st = [customNodes |-> st.customNodes, menuCollapsed |-> st.menuCollapsed, urlNode |-> st.urlNode]
      BY <1>0, <3>1
    <3>6. AppStored(a, st)
      BY <1>0, <3>3, <3>4, <3>5 DEF AppStored
    <3> QED
      BY <3>6 DEF a, st
  <2> QED
    BY <2>1, <2>2
<1>9. CASE toggleMobile
  <2> DEFINE mobile == ~app.menu.isMobile
             open == app.menu.isMobile
             menu == [app.menu EXCEPT !.isMobile = mobile, !.open = open]
  <2>1. a = [app EXCEPT !.menu = menu] /\ st = appStorage
    BY <1>0, <1>9 DEF toggleMobile, AppSlice
  <2>2. menu = [app.menu EXCEPT !.isMobile = mobile, !.open = open]
    OBVIOUS
  <2> HIDE DEF a, st, menu, mobile, open
  <2>3. menu = [collapsed |-> menu.collapsed, isMobile |-> menu.isMobile, open |-> menu.open]
        /\ menu.collapsed = app.menu.collapsed
    BY <1>0, <2>2 DEF AppSlice
  <2>4. AppSlice(a) /\ a.nodes = app.nodes /\ a.menu = menu
    BY <1>0, <2>1, <2>3 DEF AppSlice
  <2>5. AppStored(a, st)
    BY <1>0, <2>1, <2>3, <2>4 DEF AppStored
  <2> QED
    BY <2>5 DEF a, st
<1> QED
  BY <1>3, <1>4, <1>5, <1>6, <1>7, <1>8, <1>9 DEF NodePickerNext, MenuNext

LEMMA FrameAlways ==
    SessionInv /\ FrameInv /\ [ToolPagesNext]_toolPagesVars => FrameInv'
<1> SUFFICES ASSUME SessionInv, FrameInv, [ToolPagesNext]_toolPagesVars PROVE FrameInv'
  OBVIOUS
<1>0. ASSUME UNCHANGED <<dashboardView, dashboardReq, session>>, AppStored(app', appStorage'),
             page # "dashboard", page' # "dashboard", page' \in session \cup {"none", "ended"}
      PROVE  FrameInv'
  <2>1. DashboardAsked(dashboardReq, FALSE, rust')
    BY <1>0 DEF FrameInv, DashboardAsked
  <2> QED
    BY <1>0, <2>1 DEF FrameInv
<1>1. CASE UNCHANGED toolPagesVars
  BY <1>1 DEF FrameInv, toolPagesVars, layoutVars, frameVars, appVars, dashboardVars
<1>2. CASE Reload
  <2>1. page # "dashboard" /\ page' = "none" /\ UNCHANGED <<dashboardView, dashboardReq, session, app, appStorage>>
    BY <1>2 DEF Reload, frameVars, appVars, dashboardVars
  <2> QED
    BY <1>0, <2>1 DEF FrameInv
<1>3. CASE ~Framed /\ UNCHANGED <<session, frameVars>> /\ page' \in session \cup {"none", "ended"}
  <2>1. page # "dashboard" /\ page' # "dashboard"
    BY <1>3 DEF SessionInv, Framed
  <2>2. UNCHANGED <<dashboardView, dashboardReq, session, app, appStorage>>
    BY <1>3 DEF frameVars, appVars, dashboardVars
  <2> QED
    BY <1>0, <1>3, <2>1, <2>2 DEF FrameInv
<1>4. CASE FrameNext /\ UNCHANGED session /\ page' \in session \cup {"none", "ended"}
  <2>1. CASE "dashboard" \in session /\ DashboardNext
    BY <1>4, <2>1, DashboardStep
  <2>2. CASE /\ session \cap {"node-picker", "menu"} # {} /\ (NodePickerNext \/ MenuNext)
             /\ UNCHANGED <<layoutVars, dashboardVars>>
    <3>1. "dashboard" \notin session
      BY <2>2, SessionsAssumption DEF SessionInv
    <3>2. page # "dashboard" /\ page' # "dashboard"
      BY <1>4, <3>1 DEF FrameInv
    <3>3. AppStored(app', appStorage')
      BY <2>2, PickerStep
    <3> QED
      BY <1>0, <1>4, <2>2, <3>2, <3>3 DEF dashboardVars
  <2> QED
    BY <1>4, <2>1, <2>2 DEF FrameNext
<1> QED
  BY <1>1, <1>2, <1>3, <1>4 DEF ToolPagesNext

LEMMA FrameStart == ToolPagesInit => FrameInv
<1> SUFFICES ASSUME ToolPagesInit PROVE FrameInv
  OBVIOUS
<1>1. /\ page = "none" /\ dashboardView = initialView /\ dashboardReq = [pending |-> FALSE, sent |-> {}]
      /\ appStorage = [customNodes |-> StoredNodes, menuCollapsed |-> FALSE, urlNode |-> NodeName[rust]]
      /\ app = initialApp(appStorage)
  BY DEF ToolPagesInit, LayoutInit, AppInit, DashboardInit
<1>2. DashboardAsked(dashboardReq, FALSE, rust)
  <2>1. dashboardReq.sent = {} /\ dashboardReq = [pending |-> dashboardReq.pending, sent |-> dashboardReq.sent]
    BY <1>1
  <2> QED
    BY <2>1 DEF DashboardAsked
<1> DEFINE custom == StoredNodes
           collapsed == appStorage.menuCollapsed
           nodes == AppConfigs \o custom
           active == getActiveNode(nodes, appStorage.urlNode)
           details == [status |-> "Pending", node |-> NoEnv]
           menu == [collapsed |-> collapsed, isMobile |-> FALSE, open |-> TRUE]
<1>3. /\ appStorage.customNodes = custom
      /\ appStorage = [customNodes |-> appStorage.customNodes, menuCollapsed |-> appStorage.menuCollapsed,
                       urlNode |-> appStorage.urlNode]
  BY <1>1
<1>4. custom \in Seq(NewNodes)
  BY AppShellAssumption
<1> HIDE DEF custom
<1>5. app = [nodes |-> nodes, activeNode |-> active, details |-> details, envBuild |-> NoEnv, menu |-> menu]
  <2>1. app = initialApp(appStorage)
    BY <1>1
  <2> QED
    BY <1>3, <2>1 DEF initialApp, getNodes
<1>6. nodes \in Seq(AllNodes) /\ filter(nodes, NewNodes) = custom
  BY <1>4, StorageRead
<1> HIDE DEF collapsed
<1>7. menu = [collapsed |-> menu.collapsed, isMobile |-> menu.isMobile, open |-> menu.open] /\ menu.collapsed = collapsed
  OBVIOUS
<1> HIDE DEF nodes, active, details, menu
<1>8. AppSlice(app) /\ app.nodes = nodes /\ app.menu = menu
  BY <1>5, <1>7 DEF AppSlice
<1>9. AppStored(app, appStorage)
  BY <1>3, <1>4, <1>6, <1>7, <1>8 DEF AppStored, collapsed
<1> QED
  BY <1>1, <1>2, <1>9, InitialViewStaged DEF FrameInv

\* The frame: the dashboard's stages fill up in order, what it waits for comes from
\* the node that requests go to, its timer follows the status in the toolbar, and the local
\* storage holds the nodes and the menu that are shown, whatever answers, node
\* changes, deletions by name and reloads follow each other.
THEOREM FrameTheorem == ToolPagesSpec => []FrameSound
  BY FrameStart, FrameAlways, FrameInvSound, SessionStart, SessionStep, PTL DEF ToolPagesSpec

(***************************************************************************)
(* Snarks.                                                                 *)
(***************************************************************************)

\* buildTree: the children of a node.
LEMMA ChildrenInTree ==
    ASSUME NEW i \in Nat \ {0}, NEW n \in Nat
    PROVE  childrenOf(i, n) = IF 2 * i + 1 <= n THEN <<2 * i, 2 * i + 1>>
                              ELSE IF 2 * i <= n THEN <<2 * i>> ELSE <<>>
<1> DEFINE a == 2 * i
           b == 2 * i + 1
           none == <<>>
           one == Append(none, a)
           two == Append(one, b)
<1>0. a \in Nat /\ b \in Nat
  OBVIOUS
<1> HIDE DEF a, b
<1>1. two = <<a, b>> /\ one = <<a>>
  <2>1. one = <<a>>
    OBVIOUS
  <2> HIDE DEF one
  <2>2. two \in Seq(Nat) /\ Len(two) = 2 /\ two[1] = a /\ two[2] = b
    BY <1>0, <2>1
  <2> HIDE DEF two
  <2>3. two = <<a, b>>
    BY <2>2
  <2> QED
    BY <2>1, <2>3
<1>2. none \in Seq(Nat) /\ one \in Seq(Nat)
  BY <1>0
<1>3. filter(none, 1..n) = none
  BY FilterEmpty
<1> HIDE DEF none
<1>4. filter(one, 1..n) = IF a \in 1..n THEN one ELSE none
  <2>1. filter(Append(none, a), 1..n) = IF a \in 1..n THEN Append(filter(none, 1..n), a) ELSE filter(none, 1..n)
    <3> HIDE DEF one
    <3> QED
      BY <1>0, <1>2, FilterAppend
  <2> QED
    BY <1>3, <2>1
<1> HIDE DEF one
<1>5. filter(two, 1..n) = IF b \in 1..n THEN Append(filter(one, 1..n), b) ELSE filter(one, 1..n)
  BY <1>0, <1>2, FilterAppend
<1>6. childrenOf(i, n) = filter(two, 1..n)
  BY <1>1 DEF childrenOf, a, b
<1> HIDE DEF two
<1>7. (a \in 1..n <=> a <= n) /\ (b \in 1..n <=> b <= n) /\ (b <= n => a <= n)
  BY DEF a, b
<1>8. filter(two, 1..n) = IF b <= n THEN two ELSE IF a <= n THEN one ELSE none
  BY <1>4, <1>5, <1>7 DEF two
<1> QED
  BY <1>1, <1>6, <1>8 DEF none, a, b

VisitedStep(f, k, n) ==
    IF k = 0 THEN <<1>>
    ELSE IF k > Len(f[k - 1]) THEN f[k - 1]
    ELSE f[k - 1] \o childrenOf(f[k - 1][k], n)

LEMMA VisitedEquation ==
    ASSUME NEW n \in Nat
    PROVE  \E f : /\ descendants(n) = f[n]
                  /\ \A k \in 0..n : f[k] = VisitedStep(f, k, n)
<1> DEFINE Step(f, k) == IF k = 0 THEN <<1>>
                         ELSE IF k > Len(f[k - 1]) THEN f[k - 1]
                         ELSE f[k - 1] \o childrenOf(f[k - 1][k], n)
           Visited(f, m) == f = [k \in 0..m |-> Step(f, k)]
           Bad == {m \in 0..n : ~ \E f : Visited(f, m)}
<1>1. Bad = {}
  <2> SUFFICES ASSUME Bad # {} PROVE FALSE
    OBVIOUS
  <2>1. PICK m \in Bad : \A j \in Bad : m =< j
    <3> HIDE DEF Visited
    <3>1. Bad \in SUBSET Nat
      OBVIOUS
    <3> QED
      BY <3>1, LeastNatural
  <2>2. CASE m = 0
    <3>1. Visited([k \in 0..0 |-> <<1>>], 0)
      OBVIOUS
    <3> QED
      BY <2>1, <2>2, <3>1
  <2>3. CASE m # 0
    <3>1. PICK f : Visited(f, m - 1)
      <4> HIDE DEF Visited
      <4>1. m - 1 \in 0..n /\ ~ (m =< m - 1)
        BY <2>1, <2>3
      <4> QED
        BY <2>1, <4>1
    <3> DEFINE g == [k \in 0..m |-> IF k = m THEN Step(f, m) ELSE f[k]]
    <3>2. ASSUME NEW k \in 0..m PROVE g[k] = Step(g, k)
      <4>1. CASE k = m
        <5>1. m - 1 \in 0..m /\ m - 1 # m /\ m \in 0..m
          BY <2>1, <2>3
        <5>2. g[m - 1] = f[m - 1] /\ g[m] = Step(f, m)
          BY <5>1
        <5> HIDE DEF g
        <5> QED
          BY <2>3, <4>1, <5>2
      <4>2. CASE k # m
        <5>1. k \in 0..(m - 1) /\ (k # 0 => k - 1 \in 0..(m - 1))
          BY <2>1, <4>2
        <5>2. f[k] = Step(f, k)
          BY <3>1, <5>1
        <5>3. g[k] = f[k] /\ (k # 0 => g[k - 1] = f[k - 1])
          BY <2>1, <4>2, <5>1
        <5> HIDE DEF g
        <5> QED
          BY <5>2, <5>3
      <4> QED
        BY <4>1, <4>2
    <3>3. Visited(g, m)
      <4> DEFINE h == [k \in 0..m |-> Step(g, k)]
      <4>1. DOMAIN g = 0..m /\ DOMAIN h = 0..m
        OBVIOUS
      <4>2. \A k \in 0..m : h[k] = Step(g, k)
        OBVIOUS
      <4>3. g = h
        <5> SUFFICES \A k \in 0..m : g[k] = h[k]
          OBVIOUS
        <5> HIDE DEF g, h, Step
        <5> QED
          BY <3>2, <4>2
      <4> QED
        BY <4>3
    <3> QED
      BY <2>1, <3>3
  <2> QED
    BY <2>2, <2>3
<1> DEFINE visited == CHOOSE f : Visited(f, n)
<1>2. Visited(visited, n)
  <2>1. n \in 0..n
    OBVIOUS
  <2> HIDE DEF Visited
  <2> QED
    BY <1>1, <2>1
<1>3. descendants(n) = visited[n]
  BY DEF descendants
<1>4. \A k \in 0..n : visited[k] = VisitedStep(visited, k, n)
  <2> HIDE DEF visited
  <2> QED
    BY <1>2 DEF VisitedStep
<1> HIDE DEF visited
<1> QED
  BY <1>3, <1>4

Numbers(m) == [i \in 1..m |-> i]

\* One more node visited: the numbers go on without a gap.
LEMMA NumbersGoOn ==
    ASSUME NEW m \in Nat, NEW k \in Nat \ {0}, NEW n \in Nat \ {0},
           m = IF n <= 2 * k - 1 THEN n ELSE 2 * k - 1
    PROVE  (IF k > Len(Numbers(m)) THEN Numbers(m) ELSE Numbers(m) \o childrenOf(Numbers(m)[k], n))
             = Numbers(IF n <= 2 * k + 1 THEN n ELSE 2 * k + 1)
<1> DEFINE s == Numbers(m)
<1>1. s \in Seq(Nat) /\ Len(s) = m /\ (\A i \in 1..m : s[i] = i) /\ DOMAIN s = 1..m
  <2>1. s \in [1..m -> Nat]
    BY DEF Numbers
  <2> QED
    BY <2>1 DEF Numbers
<1> HIDE DEF s
<1>2. CASE k > m
  <2>1. m = n /\ n <= 2 * k + 1
    BY <1>2
  <2> QED
    BY <1>1, <1>2, <2>1 DEF s
<1>3. CASE ~(k > m)
  <2> DEFINE c == childrenOf(k, n)
             q == s \o c
             top == IF n <= 2 * k + 1 THEN n ELSE 2 * k + 1
  <2>1. s[k] = k
    BY <1>1, <1>3
  <2>2. c = IF 2 * k + 1 <= n THEN <<2 * k, 2 * k + 1>> ELSE IF 2 * k <= n THEN <<2 * k>> ELSE <<>>
    BY ChildrenInTree
  <2>3. c \in Seq(Nat) /\ m + Len(c) = top /\ \A i \in 1..Len(c) : c[i] = m + i
    <3>1. CASE 2 * k + 1 <= n
      <4>1. c = <<2 * k, 2 * k + 1>> /\ m = 2 * k - 1 /\ top = 2 * k + 1
        BY <2>2, <3>1
      <4> HIDE DEF c
      <4>2. Len(c) = 2 /\ c[1] = 2 * k /\ c[2] = 2 * k + 1 /\ c \in Seq(Nat)
        BY <4>1
      <4>3. 1..Len(c) = {1, 2}
        BY <4>2
      <4> QED
        BY <4>1, <4>2, <4>3
    <3>2. CASE 2 * k = n
      <4>1. c = <<2 * k>> /\ m = 2 * k - 1 /\ top = 2 * k
        BY <2>2, <3>2
      <4> HIDE DEF c
      <4>2. Len(c) = 1 /\ c[1] = 2 * k /\ c \in Seq(Nat)
        BY <4>1
      <4> QED
        BY <4>1, <4>2
    <3>3. CASE 2 * k > n
      <4>1. c = <<>> /\ m = n /\ top = n
        BY <2>2, <3>3
      <4> HIDE DEF c
      <4> QED
        BY <4>1
    <3> QED
      BY <3>1, <3>2, <3>3
  <2> HIDE DEF c, top
  <2>4. /\ q \in Seq(Nat) /\ Len(q) = Len(s) + Len(c)
        /\ \A i \in 1..(Len(s) + Len(c)) : q[i] = IF i <= Len(s) THEN s[i] ELSE c[i - Len(s)]
    BY <1>1, <2>3, ConcatProperties
  <2> HIDE DEF q
  <2>5. Len(c) \in Nat /\ top \in Nat /\ Len(q) = top /\ DOMAIN q = 1..top
    BY <1>1, <2>3, <2>4
  <2>6. ASSUME NEW i \in 1..top PROVE q[i] = i
    <3>0. i \in 1..(Len(s) + Len(c)) /\ i \in Nat
      BY <1>1, <2>3, <2>5
    <3>1. CASE i <= m
      <4>1. q[i] = s[i] /\ i \in 1..m
        BY <1>1, <2>4, <2>5, <3>0, <3>1
      <4> QED
        BY <1>1, <4>1
    <3>2. CASE i > m
      <4>1. i - m \in 1..Len(c) /\ m + (i - m) = i
        BY <2>3, <2>5, <3>2
      <4>2. q[i] = c[i - m]
        <5>1. Len(s) = m /\ ~(i <= Len(s))
          BY <1>1, <3>0, <3>2
        <5>2. q[i] = IF i <= Len(s) THEN s[i] ELSE c[i - Len(s)]
          BY <2>4, <3>0
        <5> QED
          BY <5>1, <5>2
      <4> QED
        BY <2>3, <4>1, <4>2
    <3> QED
      BY <2>5, <3>1, <3>2
  <2>7. q = Numbers(top)
    BY <2>4, <2>5, <2>6 DEF Numbers
  <2> QED
    BY <1>1, <1>3, <2>1, <2>7 DEF s, q, c, top
<1> QED
  BY <1>2, <1>3

\* Level by level, the nodes of a heap come in the order of their numbers.
LEMMA DescendantsInOrder ==
    ASSUME NEW n \in Nat \ {0}
    PROVE  descendants(n) = Numbers(n)
<1>1. PICK f : /\ descendants(n) = f[n]
               /\ \A k \in 0..n : f[k] = VisitedStep(f, k, n)
  BY VisitedEquation
<1> DEFINE top(k) == IF n <= 2 * k + 1 THEN n ELSE 2 * k + 1
           Bad == {k \in 0..n : f[k] # Numbers(top(k))}
<1>2. Bad = {}
  <2> SUFFICES ASSUME Bad # {} PROVE FALSE
    OBVIOUS
  <2>1. PICK k \in Bad : \A j \in Bad : k =< j
    <3>1. Bad \in SUBSET Nat
      OBVIOUS
    <3> QED
      BY <3>1, LeastNatural
  <2>2. k \in 0..n /\ f[k] # Numbers(top(k))
    BY <2>1
  <2>3. CASE k = 0
    <3>1. f[0] = <<1>>
      BY <1>1, <2>2, <2>3 DEF VisitedStep
    <3>2. top(0) = 1 /\ Numbers(1) = <<1>>
      BY DEF Numbers
    <3> QED
      BY <2>2, <2>3, <3>1, <3>2
  <2>4. CASE k # 0
    <3>1. k - 1 \in 0..n /\ ~(k =< k - 1) /\ k \in Nat \ {0} /\ 2 * (k - 1) + 1 = 2 * k - 1
      BY <2>2, <2>4
    <3>2. f[k - 1] = Numbers(top(k - 1))
      BY <2>1, <3>1
    <3> DEFINE m == top(k - 1)
    <3>3. m \in Nat /\ m = IF n <= 2 * k - 1 THEN n ELSE 2 * k - 1
      BY <3>1
    <3>4. f[k] = IF k > Len(f[k - 1]) THEN f[k - 1] ELSE f[k - 1] \o childrenOf(f[k - 1][k], n)
      BY <1>1, <2>2, <2>4 DEF VisitedStep
    <3> HIDE DEF m
    <3>5. f[k] = Numbers(IF n <= 2 * k + 1 THEN n ELSE 2 * k + 1)
      <4>1. f[k - 1] = Numbers(m)
        BY <3>2 DEF m
      <4>2. (IF k > Len(Numbers(m)) THEN Numbers(m) ELSE Numbers(m) \o childrenOf(Numbers(m)[k], n))
              = Numbers(IF n <= 2 * k + 1 THEN n ELSE 2 * k + 1)
        BY <3>1, <3>3, NumbersGoOn
      <4> QED
        BY <3>4, <4>1, <4>2
    <3> QED
      BY <2>2, <3>5
  <2> QED
    BY <2>3, <2>4
<1>3. n \in 0..n /\ top(n) = n
  OBVIOUS
<1>4. f[n] = Numbers(top(n))
  BY <1>2, <1>3
<1> QED
  BY <1>1, <1>3, <1>4

\* The other pages never touch the loading bar of the section Snarks.
LEMMA StateActionsQuiet == StateActionsNext => loading' = loading
  BY DEF StateActionsNext, StateActionsOpen, StateActionsNodeChange, checkEarliestSlot, GetEarliestSlotSuccess,
         GetEarliestSlotError, getSlot, GetActionsSuccess, GetActionsError, StateActionsSort, StateActionsSearch,
         StateActionsToggleSidePanel, StateActionsClose

LEMMA WalletsQuiet == WalletsNext => loading' = loading
  BY DEF WalletsNext, WalletsOpen, WalletsNodeChange, GetWalletsSuccess, GetWalletsError, GetAllTxsSuccess,
         GetAllTxsError, SendTxs, SendZkApps, SendTxsEnds, SendZkAppsEnds, LoadedO1jsAgain, ToggleRandomWallet, SelectWallet,
         ChangeTransactionBatch, ChangeZkAppsBatch, WalletsClose

LEMMA MempoolQuiet == MempoolNext => loading' = loading
  BY DEF MempoolNext, MempoolOpen, MempoolNodeChange, MempoolTick, GetTxsEnds, MempoolToggleFilter, clearFilters,
         MempoolSearch, MempoolSearchSettles, MempoolRowClick, closeSidePanel, MempoolClose

LEMMA DashboardQuiet == DashboardNext => loading' = loading
<1>1. DashboardNodeChange => loading' = loading
  BY DEF DashboardNodeChange
<1>2. DashboardDeleteNode => loading' = loading
  BY DEF DashboardDeleteNode
<1> QED
  BY <1>1, <1>2 DEF DashboardNext, DashboardOpen, DashboardTick, GetDataSuccess, GetDataError, PeersSort,
                    DashboardStatusNext, StatusShown, DashboardLeave

\* Rows of jobs: what mapWorkPoolResponse makes of an answer, in some order.
JobRows(rows) ==
    rows \in Seq(ToSet(rows)) /\ \A i \in DOMAIN rows : rows[i].id \in Nat \ {0} /\ rows[i].timestamp \in Nat

WorkFits(w) ==
    /\ w = [workPools |-> w.workPools, filteredWorkPools |-> w.filteredWorkPools, activeWorkPool |-> w.activeWorkPool,
            openSidePanel |-> w.openSidePanel, filters |-> w.filters, specs |-> w.specs, detail |-> w.detail,
            sort |-> w.sort]
    /\ JobRows(w.workPools)
    /\ w.sort.sortBy = "timestamp"

\* The details on display and those on their way are of the job that is selected.
JobFits(active, specs, detail, details) ==
    active # NoRow => /\ specs \in {NoDetail, active.id} /\ \A r \in details : r = [id |-> active.id]
                      /\ detail \in {NoDetail, active.id} \/ details # {}

LEMMA JobsSorted ==
    ASSUME NEW rows, JobRows(rows), NEW tableSort, tableSort.sortBy = "timestamp"
    PROVE  JobRows(sort(rows, tableSort))
<1> DEFINE s == sort(rows, tableSort)
           T == ToSet(rows)
<1>1. Comparable(rows, tableSort)
  BY DEF JobRows, Comparable
<1>2. s \in Seq(T) /\ ToSet(s) = ToSet(rows)
  <2>1. rows \in Seq(T)
    BY DEF JobRows
  <2> QED
    BY <1>1, <2>1, SortRows
<1> HIDE DEF s
<1>3. \A r \in T : r.id \in Nat \ {0} /\ r.timestamp \in Nat
  BY DEF JobRows, ToSet
<1>4. \A i \in DOMAIN s : s[i] \in T
  BY <1>2
<1>5. s \in Seq(ToSet(s))
  BY <1>2
<1>6. JobRows(s)
  BY <1>3, <1>4, <1>5 DEF JobRows
<1> QED
  BY <1>6 DEF s

LEMMA JobsAnswered ==
    ASSUME NEW response \in WorkPoolAnswers, NEW hash
    PROVE  JobRows(mapWorkPoolResponse(response, hash))
<1> DEFINE m == mapWorkPoolResponse(response, hash)
           n == Len(response)
<1>1. /\ response \in Seq(ToSet(response))
      /\ \A i \in DOMAIN response : response[i].id \in Nat \ {0} /\ response[i].time \in Nat
  BY WorkPoolAssumption
<1>2. n \in Nat /\ DOMAIN response = 1..n
  BY <1>1
<1>3. m = [i \in 1..n |-> m[i]] /\ \A i \in 1..n : m[i].id = response[i].id /\ m[i].timestamp = response[i].time
  BY <1>2 DEF mapWorkPoolResponse
<1> HIDE DEF m, n
<1>4. DOMAIN m = 1..n
  BY <1>3
<1>5. \A i \in 1..n : m[i] \in ToSet(m)
  BY <1>4 DEF ToSet
<1>6. m \in Seq(ToSet(m))
  BY <1>2, <1>3, <1>5
<1>7. JobRows(m)
  BY <1>1, <1>2, <1>3, <1>4, <1>6 DEF JobRows
<1> QED
  BY <1>7 DEF m

LEMMA NoJobs == JobRows(<<>>)
  BY DEF JobRows

\* A selection takes the job with this id out of the list, and drops the details.
LEMMA JobSelected ==
    ASSUME NEW w, WorkFits(w), NEW id
    PROVE  LET s == SetActiveWorkPoolReduced(w, id)
           IN  /\ WorkFits(s) /\ s.workPools = w.workPools /\ s.specs = NoDetail
               /\ s.activeWorkPool # NoRow => s.activeWorkPool.id = id
               /\ id = NoJobId => s.activeWorkPool = NoRow
<1> DEFINE row == find(w.workPools, "id", id)
           s == SetActiveWorkPoolReduced(w, id)
<1>1. s = [w EXCEPT !.openSidePanel = TRUE, !.activeWorkPool = row, !.specs = NoDetail]
  BY DEF SetActiveWorkPoolReduced
<1>2. /\ row # NoRow => row.id = id
      /\ id = NoJobId => row = NoRow
  <2> DEFINE rows == w.workPools
             T == ToSet(rows)
  <2>1. rows \in Seq(T) /\ \A r \in T : r.id # 0
    BY DEF WorkFits, JobRows, ToSet
  <2> HIDE DEF rows, T
  <2>2. IF \E r \in ToSet(rows) : r["id"] = id
        THEN find(rows, "id", id) \in ToSet(rows) /\ find(rows, "id", id)["id"] = id
        ELSE find(rows, "id", id) = NoRow
    BY <2>1, FindRow
  <2> QED
    BY <2>1, <2>2 DEF rows, T, NoJobId
<1> HIDE DEF s, row
<1>3. /\ s = [workPools |-> s.workPools, filteredWorkPools |-> s.filteredWorkPools, activeWorkPool |-> s.activeWorkPool,
              openSidePanel |-> s.openSidePanel, filters |-> s.filters, specs |-> s.specs, detail |-> s.detail,
              sort |-> s.sort]
      /\ s.workPools = w.workPools /\ s.activeWorkPool = row /\ s.specs = NoDetail /\ s.sort = w.sort
  BY <1>1 DEF WorkFits
<1>4. WorkFits(s)
  BY <1>3 DEF WorkFits
<1> QED
  BY <1>2, <1>3, <1>4 DEF s

DetailLoads == "SNARKS_WORK_POOL_GET_WORK_POOL_DETAIL" \in loading

WorkPoolInv ==
    /\ WorkFits(workPool) /\ workPoolReq = [pool |-> workPoolReq.pool, detail |-> workPoolReq.detail]
    /\ JobFits(workPool.activeWorkPool, workPool.specs, workPool.detail, workPoolReq.detail)
    /\ page \notin {"work-pool", "ended"} => workPool.workPools = <<>> /\ workPoolReq.pool = {}
    /\ DetailLoads => workPoolReq.detail # {}

LEMMA WorkPoolInvSound ==
    WorkPoolInv => WorkPoolDetailsFit /\ WorkPoolClosedEmpty /\ (DetailLoads => workPoolReq.detail # {})
  BY DEF WorkPoolInv, JobFits, WorkPoolDetailsFit, WorkPoolClosedEmpty

LEMMA WorkPoolInitial ==
    /\ WorkFits(initialWorkPool) /\ initialWorkPool.activeWorkPool = NoRow /\ initialWorkPool.workPools = <<>>
    /\ \A details : JobFits(initialWorkPool.activeWorkPool, initialWorkPool.specs, initialWorkPool.detail, details)
<1> DEFINE none == <<>>
           tableSort == [sortBy |-> "timestamp", sortDirection |-> "descending"]
           s == initialWorkPool
<1>1. s = [workPools |-> none, filteredWorkPools |-> none, activeWorkPool |-> NoRow,
           openSidePanel |-> isDesktop, filters |-> none, specs |-> NoDetail, detail |-> NoDetail, sort |-> tableSort]
  BY DEF initialWorkPool
<1>2. JobRows(none) /\ tableSort.sortBy = "timestamp"
  BY NoJobs
<1> HIDE DEF none, tableSort, s
<1>3. WorkFits(s) /\ s.activeWorkPool = NoRow /\ s.workPools = none
  BY <1>1, <1>2 DEF WorkFits
<1> QED
  BY <1>3 DEF JobFits, s, none

\* What the request for details leaves behind.
LEMMA DetailAsked ==
    ASSUME WorkPoolInv, NEW id, getDetail(id)
    PROVE  /\ workPoolReq' = [pool |-> workPoolReq'.pool, detail |-> workPoolReq'.detail]
           /\ workPoolReq'.pool = workPoolReq.pool /\ workPoolReq'.detail = {[id |-> id]}
<1> DEFINE q == workPoolReq'
<1>1. q = [workPoolReq EXCEPT !.detail = {[id |-> id]}]
  BY DEF getDetail, switchMap
<1> HIDE DEF q
<1>2. q = [pool |-> q.pool, detail |-> q.detail] /\ q.pool = workPoolReq.pool /\ q.detail = {[id |-> id]}
  BY <1>1 DEF WorkPoolInv
<1> QED
  BY <1>2 DEF q

LEMMA PoolRequested ==
    ASSUME WorkPoolInv, getWorkPool
    PROVE  /\ workPoolReq' = [pool |-> workPoolReq'.pool, detail |-> workPoolReq'.detail]
           /\ workPoolReq'.detail = workPoolReq.detail /\ (DetailLoads' => DetailLoads)
<1>1. DetailLoads' => DetailLoads
  BY DEF getWorkPool, add, DetailLoads
<1> DEFINE q == workPoolReq'
<1>2. q = workPoolReq \/ q = [workPoolReq EXCEPT !.pool = {[node |-> rust', asks |-> "jobs"]}]
  BY DEF getWorkPool, switchMap
<1> HIDE DEF q
<1>3. q = [pool |-> q.pool, detail |-> q.detail] /\ q.detail = workPoolReq.detail
  BY <1>2 DEF WorkPoolInv
<1> QED
  BY <1>1, <1>3 DEF q

\* A change of the controls leaves the list and its details alone.
LEMMA JobsControlled ==
    ASSUME WorkPoolInv, page = "work-pool", page' = "work-pool", UNCHANGED <<loading, workPoolReq>>,
           WorkFits(workPool'), workPool'.workPools = workPool.workPools,
           \/ workPool'.activeWorkPool = NoRow
           \/ workPool'.activeWorkPool = workPool.activeWorkPool
              /\ workPool'.specs = workPool.specs /\ workPool'.detail = workPool.detail
    PROVE  WorkPoolInv'
<1>1. JobFits(workPool'.activeWorkPool, workPool'.specs, workPool'.detail, workPoolReq.detail)
  BY DEF WorkPoolInv, JobFits
<1>2. DetailLoads' => DetailLoads
  BY DEF DetailLoads
<1> QED
  BY <1>1, <1>2 DEF WorkPoolInv

LEMMA WorkPoolStep == WorkPoolInv /\ page # "ended" /\ WorkPoolNext => WorkPoolInv'
<1> SUFFICES ASSUME WorkPoolInv, page # "ended" PROVE WorkPoolNext => WorkPoolInv'
  OBVIOUS
<1>0. /\ WorkFits(workPool) /\ workPoolReq = [pool |-> workPoolReq.pool, detail |-> workPoolReq.detail]
      /\ JobFits(workPool.activeWorkPool, workPool.specs, workPool.detail, workPoolReq.detail)
      /\ DetailLoads => workPoolReq.detail # {}
  BY DEF WorkPoolInv
<1>1. ASSUME WorkPoolOpen \/ WorkPoolNodeChange PROVE WorkPoolInv'
  <2>1. page' = "work-pool" /\ workPool' = workPool /\ getWorkPool
    BY <1>1 DEF WorkPoolOpen, WorkPoolNodeChange, Enter, On
  <2> QED
    BY <1>0, <2>1, PoolRequested DEF WorkPoolInv
<1>2. ASSUME GetWorkPoolSuccess PROVE WorkPoolInv'
  <2>1. PICK r \in workPoolReq.pool, response \in WorkPoolAnswers :
          LET hash == IF r.asks = "key" THEN SnarkerOf[r.node] ELSE workPoolFx.snarkerHash
              rows == sort(mapWorkPoolResponse(response, hash), workPool.sort)
              reduced == [workPool EXCEPT !.workPools = rows, !.filteredWorkPools = rows]
              row == find(rows, "id", workPoolRoute)
              clicked == page = "work-pool" /\ row # NoRow
                         /\ (workPool.activeWorkPool = NoRow \/ workPool.activeWorkPool.id # row.id)
          IN  /\ workPool' = IF clicked THEN SetActiveWorkPoolReduced(reduced, row.id) ELSE reduced
              /\ workPoolReq' = [pool |-> Completed(workPoolReq.pool, r),
                                 detail |-> IF clicked THEN {[id |-> row.id]} ELSE workPoolReq.detail]
              /\ loading' = (loading \ {"SNARKS_WORK_POOL_INIT"})
                            \cup (IF clicked THEN {"SNARKS_WORK_POOL_GET_WORK_POOL_DETAIL"} ELSE {})
              /\ UNCHANGED page
    BY <1>2 DEF GetWorkPoolSuccess
  <2> DEFINE hash == IF r.asks = "key" THEN SnarkerOf[r.node] ELSE workPoolFx.snarkerHash
             rows == sort(mapWorkPoolResponse(response, hash), workPool.sort)
             reduced == [workPool EXCEPT !.workPools = rows, !.filteredWorkPools = rows]
             row == find(rows, "id", workPoolRoute)
             clicked == page = "work-pool" /\ row # NoRow
                        /\ (workPool.activeWorkPool = NoRow \/ workPool.activeWorkPool.id # row.id)
  <2>2. page = "work-pool" /\ page' = "work-pool"
    BY <2>1 DEF WorkPoolInv
  <2>3. JobRows(rows)
    <3> HIDE DEF hash
    <3>1. JobRows(mapWorkPoolResponse(response, hash))
      BY JobsAnswered
    <3> QED
      BY <1>0, <3>1, JobsSorted DEF WorkFits
  <2>4. WorkFits(reduced) /\ reduced.activeWorkPool = workPool.activeWorkPool /\ reduced.specs = workPool.specs /\ reduced.detail = workPool.detail
    <3>1. reduced = [workPool EXCEPT !.workPools = rows, !.filteredWorkPools = rows]
      OBVIOUS
    <3> HIDE DEF rows, reduced
    <3>2. /\ reduced = [workPools |-> reduced.workPools, filteredWorkPools |-> reduced.filteredWorkPools,
               activeWorkPool |-> reduced.activeWorkPool, openSidePanel |-> reduced.openSidePanel, filters |-> reduced.filters,
               specs |-> reduced.specs, detail |-> reduced.detail, sort |-> reduced.sort]
          /\ reduced.workPools = rows /\ reduced.activeWorkPool = workPool.activeWorkPool /\ reduced.specs = workPool.specs /\ reduced.detail = workPool.detail
          /\ reduced.sort = workPool.sort
      BY <1>0, <3>1 DEF WorkFits
    <3> QED
      BY <1>0, <2>3, <3>2 DEF WorkFits
  <2>5. CASE clicked
    <3> DEFINE id == row.id
    <3>1. /\ workPool' = SetActiveWorkPoolReduced(reduced, id)
          /\ workPoolReq' = [pool |-> Completed(workPoolReq.pool, r), detail |-> {[id |-> id]}]
      BY <2>1, <2>5
    <3> HIDE DEF reduced, id
    <3>2. /\ WorkFits(workPool') /\ workPool'.specs = NoDetail
          /\ workPool'.activeWorkPool # NoRow => workPool'.activeWorkPool.id = id
      BY <2>4, <3>1, JobSelected
    <3>3. workPoolReq'.detail = {[id |-> id]} /\ workPoolReq' = [pool |-> workPoolReq'.pool, detail |-> workPoolReq'.detail]
      BY <3>1
    <3>4. JobFits(workPool'.activeWorkPool, workPool'.specs, workPool'.detail, workPoolReq'.detail)
      BY <3>2, <3>3 DEF JobFits
    <3> QED
      BY <2>2, <3>2, <3>3, <3>4 DEF WorkPoolInv
  <2>6. CASE ~clicked
    <3>1. /\ workPool' = reduced
          /\ workPoolReq' = [pool |-> Completed(workPoolReq.pool, r), detail |-> workPoolReq.detail]
          /\ loading' \subseteq loading
      BY <2>1, <2>6
    <3>2. workPoolReq'.detail = workPoolReq.detail /\ workPoolReq' = [pool |-> workPoolReq'.pool, detail |-> workPoolReq'.detail]
      BY <3>1
    <3>3. DetailLoads' => DetailLoads
      BY <3>1 DEF DetailLoads
    <3> HIDE DEF reduced
    <3>4. JobFits(workPool'.activeWorkPool, workPool'.specs, workPool'.detail, workPoolReq'.detail)
      BY <1>0, <2>4, <3>1, <3>2
    <3> QED
      BY <1>0, <2>2, <2>4, <3>1, <3>2, <3>3, <3>4 DEF WorkPoolInv
  <2> QED
    BY <2>5, <2>6
<1>3. ASSUME GetWorkPoolError PROVE WorkPoolInv'
  <2> DEFINE none == <<>>
             s == [workPool EXCEPT !.workPools = none, !.filteredWorkPools = none]
             q == [workPoolReq EXCEPT !.pool = {}]
  <2>1. workPool' = s /\ workPoolReq' = q /\ loading' \subseteq loading /\ page' = page
    BY <1>3 DEF GetWorkPoolError, remove, catchErrorAndRepeat
  <2>2. JobRows(none)
    BY NoJobs
  <2>3. WorkFits(s) /\ s.workPools = none /\ s.activeWorkPool = workPool.activeWorkPool /\ s.specs = workPool.specs /\ s.detail = workPool.detail
    <3>1. s = [workPool EXCEPT !.workPools = none, !.filteredWorkPools = none]
      OBVIOUS
    <3> HIDE DEF none, s
    <3>2. /\ s = [workPools |-> s.workPools, filteredWorkPools |-> s.filteredWorkPools,
               activeWorkPool |-> s.activeWorkPool, openSidePanel |-> s.openSidePanel, filters |-> s.filters,
               specs |-> s.specs, detail |-> s.detail, sort |-> s.sort]
          /\ s.workPools = none /\ s.activeWorkPool = workPool.activeWorkPool /\ s.specs = workPool.specs /\ s.detail = workPool.detail
          /\ s.sort = workPool.sort
      BY <1>0, <3>1 DEF WorkFits
    <3> QED
      BY <1>0, <2>2, <3>2 DEF WorkFits
  <2>4. q = [pool |-> q.pool, detail |-> q.detail] /\ q.pool = {} /\ q.detail = workPoolReq.detail
    BY <1>0
  <2>5. DetailLoads' => DetailLoads
    BY <2>1 DEF DetailLoads
  <2> HIDE DEF s, q
  <2> QED
    BY <1>0, <2>1, <2>3, <2>4, <2>5 DEF WorkPoolInv
<1>4. ASSUME GetWorkPoolDetailSuccess PROVE WorkPoolInv'
  <2>1. PICK r \in workPoolReq.detail, found \in BOOLEAN :
          /\ workPool' = [workPool EXCEPT !.specs = IF found THEN r.id ELSE NoDetail,
                                          !.detail = IF found THEN r.id ELSE NoDetail]
          /\ workPoolReq' = [workPoolReq EXCEPT !.detail = Completed(@, r)]
          /\ remove({"SNARKS_WORK_POOL_GET_WORK_POOL_DETAIL"})
          /\ UNCHANGED page
    BY <1>4 DEF GetWorkPoolDetailSuccess
  <2> DEFINE d == IF found THEN r.id ELSE NoDetail
             details == workPoolReq.detail \ {r}
             s == workPool'
             q == workPoolReq'
  <2>2. s = [workPool EXCEPT !.specs = d, !.detail = d] /\ q = [workPoolReq EXCEPT !.detail = details]
    BY <2>1 DEF Completed
  <2>3. ~DetailLoads'
    BY <2>1 DEF DetailLoads, remove
  <2>4. JobFits(workPool.activeWorkPool, d, d, details)
    BY <1>0 DEF JobFits
  <2>5. page' = page
    BY <2>1
  <2> HIDE DEF s, q, d, details
  <2>6. /\ s = [workPools |-> s.workPools, filteredWorkPools |-> s.filteredWorkPools, activeWorkPool |-> s.activeWorkPool,
              openSidePanel |-> s.openSidePanel, filters |-> s.filters, specs |-> s.specs, detail |-> s.detail,
              sort |-> s.sort]
        /\ s.workPools = workPool.workPools /\ s.activeWorkPool = workPool.activeWorkPool /\ s.specs = d /\ s.detail = d
        /\ s.sort = workPool.sort
    BY <1>0, <2>2 DEF WorkFits
  <2>7. WorkFits(s)
    BY <1>0, <2>6 DEF WorkFits
  <2>8. q = [pool |-> q.pool, detail |-> q.detail] /\ q.pool = workPoolReq.pool /\ q.detail = details
    BY <1>0, <2>2
  <2> QED
    BY <2>3, <2>4, <2>5, <2>6, <2>7, <2>8 DEF WorkPoolInv, s, q
<1>5. ASSUME WorkPoolRowClick PROVE WorkPoolInv'
  <2>1. PICK row : workPool' = SetActiveWorkPoolReduced(workPool, row.id) /\ getDetail(row.id)
    BY <1>5 DEF WorkPoolRowClick
  <2> DEFINE id == row.id
  <2>2. page = "work-pool" /\ page' = "work-pool"
    BY <1>5 DEF WorkPoolRowClick, On
  <2>3. workPool' = SetActiveWorkPoolReduced(workPool, id) /\ getDetail(id)
    BY <2>1
  <2> HIDE DEF id
  <2>4. /\ WorkFits(workPool') /\ workPool'.specs = NoDetail
        /\ workPool'.activeWorkPool # NoRow => workPool'.activeWorkPool.id = id
    BY <1>0, <2>3, JobSelected
  <2>5. /\ workPoolReq' = [pool |-> workPoolReq'.pool, detail |-> workPoolReq'.detail]
        /\ workPoolReq'.detail = {[id |-> id]}
    BY <2>3, DetailAsked
  <2>6. JobFits(workPool'.activeWorkPool, workPool'.specs, workPool'.detail, workPoolReq'.detail)
    BY <2>4, <2>5 DEF JobFits
  <2> QED
    BY <2>2, <2>4, <2>5, <2>6 DEF WorkPoolInv
<1>6. ASSUME RemoveActiveWorkPool PROVE WorkPoolInv'
  <2>1. page = "work-pool" /\ page' = "work-pool" /\ UNCHANGED <<loading, workPoolReq>>
        /\ workPool' = SetActiveWorkPoolReduced(workPool, NoJobId)
    BY <1>6 DEF RemoveActiveWorkPool, On
  <2>2. WorkFits(workPool') /\ workPool'.workPools = workPool.workPools /\ workPool'.activeWorkPool = NoRow
    BY <1>0, <2>1, JobSelected
  <2> QED
    BY <2>1, <2>2, JobsControlled
<1>7. ASSUME WorkPoolSort PROVE WorkPoolInv'
  <2> DEFINE t == sortTable(workPool.sort, "timestamp")
             filtered == filterWorkPools(sort(workPool.workPools, t), workPool.filters)
             s == workPool'
  <2>1. page = "work-pool" /\ page' = "work-pool" /\ UNCHANGED <<loading, workPoolReq>>
        /\ s = [workPool EXCEPT !.sort = t, !.filteredWorkPools = filtered]
    BY <1>7 DEF WorkPoolSort, On
  <2>2. t.sortBy = "timestamp"
    BY DEF sortTable
  <2> HIDE DEF t, filtered, s
  <2>3. /\ s = [workPools |-> s.workPools, filteredWorkPools |-> s.filteredWorkPools, activeWorkPool |-> s.activeWorkPool,
              openSidePanel |-> s.openSidePanel, filters |-> s.filters, specs |-> s.specs, detail |-> s.detail,
              sort |-> s.sort]
        /\ s.workPools = workPool.workPools /\ s.activeWorkPool = workPool.activeWorkPool /\ s.specs = workPool.specs /\ s.detail = workPool.detail
        /\ s.sort = t
    BY <1>0, <2>1 DEF WorkFits
  <2>4. WorkFits(s)
    BY <1>0, <2>2, <2>3 DEF WorkFits
  <2> QED
    BY <2>1, <2>3, <2>4, JobsControlled DEF s
<1>8. ASSUME WorkPoolToggleFilter PROVE WorkPoolInv'
  <2>1. PICK f : workPool' = [workPool EXCEPT !.filters = toggleItem(workPool.filters, f),
                    !.filteredWorkPools = filterWorkPools(workPool.workPools, toggleItem(workPool.filters, f))]
    BY <1>8 DEF WorkPoolToggleFilter
  <2> DEFINE filters == toggleItem(workPool.filters, f)
             filtered == filterWorkPools(workPool.workPools, filters)
             s == workPool'
  <2>2. page = "work-pool" /\ page' = "work-pool" /\ UNCHANGED <<loading, workPoolReq>>
        /\ s = [workPool EXCEPT !.filters = filters, !.filteredWorkPools = filtered]
    BY <1>8, <2>1 DEF WorkPoolToggleFilter, On
  <2> HIDE DEF filters, filtered, s
  <2>3. /\ s = [workPools |-> s.workPools, filteredWorkPools |-> s.filteredWorkPools, activeWorkPool |-> s.activeWorkPool,
              openSidePanel |-> s.openSidePanel, filters |-> s.filters, specs |-> s.specs, detail |-> s.detail,
              sort |-> s.sort]
        /\ s.workPools = workPool.workPools /\ s.activeWorkPool = workPool.activeWorkPool /\ s.specs = workPool.specs /\ s.detail = workPool.detail
        /\ s.sort = workPool.sort
    BY <1>0, <2>2 DEF WorkFits
  <2>4. WorkFits(s)
    BY <1>0, <2>3 DEF WorkFits
  <2> QED
    BY <2>2, <2>3, <2>4, JobsControlled DEF s
<1>9. ASSUME WorkPoolToggleSidePanel PROVE WorkPoolInv'
  <2> DEFINE open == ~workPool.openSidePanel
             s == workPool'
  <2>1. page = "work-pool" /\ page' = "work-pool" /\ UNCHANGED <<loading, workPoolReq>>
        /\ s = [workPool EXCEPT !.openSidePanel = open, !.activeWorkPool = NoRow]
    BY <1>9 DEF WorkPoolToggleSidePanel, On
  <2> HIDE DEF open, s
  <2>2. /\ s = [workPools |-> s.workPools, filteredWorkPools |-> s.filteredWorkPools, activeWorkPool |-> s.activeWorkPool,
              openSidePanel |-> s.openSidePanel, filters |-> s.filters, specs |-> s.specs, detail |-> s.detail,
              sort |-> s.sort]
        /\ s.workPools = workPool.workPools /\ s.activeWorkPool = NoRow /\ s.sort = workPool.sort
    BY <1>0, <2>1 DEF WorkFits
  <2>3. WorkFits(s)
    BY <1>0, <2>2 DEF WorkFits
  <2> QED
    BY <2>1, <2>2, <2>3, JobsControlled DEF s
<1>10. ASSUME WorkPoolClose PROVE WorkPoolInv'
  <2> DEFINE q == workPoolReq'
  <2>1. /\ page' = "none" /\ workPool' = initialWorkPool /\ q = [workPoolReq EXCEPT !.pool = {}]
        /\ ~DetailLoads'
    BY <1>10 DEF WorkPoolClose, Leave, remove, DetailLoads
  <2> HIDE DEF q
  <2>2. q = [pool |-> q.pool, detail |-> q.detail] /\ q.pool = {}
    BY <1>0, <2>1
  <2> QED
    BY <2>1, <2>2, WorkPoolInitial DEF WorkPoolInv, q
<1>11. ASSUME GetSnarkerPublicKey PROVE WorkPoolInv'
  <2> DEFINE q == workPoolReq'
  <2>1. PICK pool : q = [workPoolReq EXCEPT !.pool = pool]
    BY <1>11 DEF GetSnarkerPublicKey
  <2>2. workPoolReq.pool # {} /\ page' = page /\ workPool' = workPool /\ loading' = loading
    BY <1>11 DEF GetSnarkerPublicKey
  <2> HIDE DEF q
  <2>3. q = [pool |-> q.pool, detail |-> q.detail] /\ q.detail = workPoolReq.detail
    BY <1>0, <2>1
  <2> QED
    BY <1>0, <2>2, <2>3 DEF WorkPoolInv, DetailLoads, q
<1> QED
  BY <1>1, <1>2, <1>3, <1>4, <1>5, <1>6, <1>7, <1>8, <1>9, <1>10, <1>11 DEF WorkPoolNext

\* The bar of the list of jobs has a request, or the flag of one.
ListLoads == "SNARKS_WORK_POOL_INIT" \in loading
ListInv == ListLoads => workPoolReq.pool # {} \/ workPoolFx.pendingRequest

LEMMA ListStep == WorkPoolInv /\ ListInv /\ WorkPoolNext => ListInv'
<1> SUFFICES ASSUME WorkPoolInv, ListInv PROVE WorkPoolNext => ListInv'
  OBVIOUS
<1>0. workPoolReq = [pool |-> workPoolReq.pool, detail |-> workPoolReq.detail]
  BY DEF WorkPoolInv
<1>1. ASSUME WorkPoolOpen \/ WorkPoolNodeChange PROVE ListInv'
  <2>1. getWorkPool
    BY <1>1 DEF WorkPoolOpen, WorkPoolNodeChange
  <2>2. CASE workPoolFx.pendingRequest
    BY <2>1, <2>2 DEF getWorkPool, ListInv
  <2>3. CASE ~workPoolFx.pendingRequest
    <3>1. workPoolReq' = [workPoolReq EXCEPT !.pool = {[node |-> rust', asks |-> "jobs"]}]
      BY <2>1, <2>3 DEF getWorkPool, switchMap
    <3>2. workPoolReq'.pool # {}
      BY <1>0, <3>1
    <3> QED
      BY <3>2 DEF ListInv
  <2> QED
    BY <2>2, <2>3
<1>2. ASSUME GetSnarkerPublicKey PROVE ListInv'
  <2>1. workPoolReq' = [workPoolReq EXCEPT !.pool = {[node |-> rust, asks |-> "key"]}]
    BY <1>2 DEF GetSnarkerPublicKey
  <2>2. workPoolReq'.pool # {}
    BY <1>0, <2>1
  <2> QED
    BY <2>2 DEF ListInv
<1>3. ASSUME GetWorkPoolSuccess \/ GetWorkPoolError \/ WorkPoolClose PROVE ListInv'
  <2>1. CASE GetWorkPoolSuccess
    <3>1. \E flags \in SUBSET {"SNARKS_WORK_POOL_GET_WORK_POOL_DETAIL"} :
            loading' = (loading \ {"SNARKS_WORK_POOL_INIT"}) \cup flags
      BY <2>1 DEF GetWorkPoolSuccess
    <3> QED
      BY <3>1 DEF ListInv, ListLoads
  <2>2. CASE GetWorkPoolError \/ WorkPoolClose
    BY <2>2 DEF GetWorkPoolError, WorkPoolClose, remove, ListInv, ListLoads
  <2> QED
    BY <1>3, <2>1, <2>2
\* The details of a job and the controls of the page leave the list alone.
<1>4. ASSUME \/ GetWorkPoolDetailSuccess \/ WorkPoolRowClick \/ RemoveActiveWorkPool \/ WorkPoolSort
             \/ WorkPoolToggleFilter \/ WorkPoolToggleSidePanel
      PROVE  ListInv'
  <2>1. (ListLoads' => ListLoads) /\ workPoolFx' = workPoolFx
    BY <1>4 DEF GetWorkPoolDetailSuccess, WorkPoolRowClick, RemoveActiveWorkPool, WorkPoolSort, WorkPoolToggleFilter,
                WorkPoolToggleSidePanel, getDetail, add, remove, ListLoads
  <2>2. workPoolReq' = workPoolReq \/ \E details : workPoolReq' = [workPoolReq EXCEPT !.detail = details]
    BY <1>4 DEF GetWorkPoolDetailSuccess, WorkPoolRowClick, RemoveActiveWorkPool, WorkPoolSort, WorkPoolToggleFilter,
                WorkPoolToggleSidePanel, getDetail
  <2>3. workPoolReq'.pool = workPoolReq.pool
    BY <1>0, <2>2
  <2> QED
    BY <2>1, <2>3 DEF ListInv
<1> QED
  BY <1>1, <1>2, <1>3, <1>4 DEF WorkPoolNext

WorkLoads == loading \cap {"SNARKS_WORK_POOL_INIT", "SNARKS_WORK_POOL_GET_WORK_POOL_DETAIL"}

LEMMA WorkPoolKept ==
    ASSUME WorkPoolInv, ListInv, UNCHANGED workPoolVars, WorkLoads' \subseteq WorkLoads,
           page \in {"work-pool", "ended"} => page' \in {"work-pool", "ended"}
    PROVE  WorkPoolInv' /\ ListInv'
<1>1. (DetailLoads' => DetailLoads) /\ (ListLoads' => ListLoads)
  BY DEF WorkLoads, DetailLoads, ListLoads
<1> QED
  BY <1>1 DEF WorkPoolInv, ListInv, workPoolVars

ScanSlice(m) ==
    m = [block |-> m.block, activeJobId |-> m.activeJobId, activeLeaf |-> m.activeLeaf,
         openSidePanel |-> m.openSidePanel, stream |-> m.stream, treeView |-> m.treeView]

\* What mapScanState makes of an answer, and what an error leaves.
LeafsPlaced(trees) == \A leaf \in LeafsOf(trees) : leaf.treeIndex \in Nat /\ leaf.jobIndex \in Nat

BlockFits(b) ==
    /\ \A s \in Snarkers : b.workingSnarkers[s] = WorkingLeafs(b.trees, s)
    /\ \A t \in DOMAIN b.trees : descendants(Len(b.trees[t])) = [j \in DOMAIN b.trees[t] |-> b.trees[t][j].jobIndex]

\* The leaf in the side panel is one of the block with the selected job.
LeafFits(leaf, jobId, block) ==
    leaf \notin {NoRow, EmptyLeaf} => leaf \in LeafsOf(block.trees) /\ leaf.job = jobId

\* The first leaf with a job: the one that find comes to first.
LEMMA FirstLeaf ==
    ASSUME NEW leafs, leafs # {}, \A l \in leafs : l.treeIndex \in Nat /\ l.jobIndex \in Nat
    PROVE  \E l \in leafs : \A k \in leafs :
               l.treeIndex < k.treeIndex \/ (l.treeIndex = k.treeIndex /\ l.jobIndex <= k.jobIndex)
<1> DEFINE trees == {l.treeIndex : l \in leafs}
<1>1. trees \in SUBSET Nat /\ trees # {}
  OBVIOUS
<1>2. PICK t \in trees : \A u \in trees : t =< u
  <2> HIDE DEF trees
  <2> QED
    BY <1>1, LeastNatural
<1> DEFINE jobs == {l.jobIndex : l \in {k \in leafs : k.treeIndex = t}}
<1>3. jobs \in SUBSET Nat /\ jobs # {}
  BY <1>2
<1>4. PICK j \in jobs : \A i \in jobs : j =< i
  <2> HIDE DEF jobs
  <2> QED
    BY <1>3, LeastNatural
<1>5. PICK l \in leafs : l.treeIndex = t /\ l.jobIndex = j
  BY <1>4
<1>6. ASSUME NEW k \in leafs
      PROVE  l.treeIndex < k.treeIndex \/ (l.treeIndex = k.treeIndex /\ l.jobIndex <= k.jobIndex)
  <2>1. t =< k.treeIndex /\ t \in Nat /\ j \in Nat
    BY <1>1, <1>2, <1>3, <1>4
  <2>2. k.treeIndex = t => j =< k.jobIndex
    BY <1>4
  <2> QED
    BY <1>5, <2>1, <2>2
<1> QED
  BY <1>6

\* A tree keeps its leafs in their places.
LEMMA TreesMapped ==
    ASSUME NEW trees \in ScanStates
    PROVE  /\ LeafsPlaced(mapTrees(trees))
           /\ \A t \in DOMAIN mapTrees(trees) :
                LET leafs == mapTrees(trees)[t]
                IN  descendants(Len(leafs)) = [j \in DOMAIN leafs |-> leafs[j].jobIndex]
<1> DEFINE n == Len(trees)
           reversed == Reverse(trees)
           m == mapTrees(trees)
<1>1. /\ trees \in Seq(ToSet(trees))
      /\ \A t \in DOMAIN trees : trees[t] \in Seq(ToSet(trees[t])) /\ trees[t] # <<>>
  BY ScanAssumption
<1>2. n \in Nat /\ DOMAIN trees = 1..n
  BY <1>1
<1>3. /\ DOMAIN reversed = 1..n
      /\ \A t \in 1..n : reversed[t] = trees[(n - t) + 1] /\ (n - t) + 1 \in 1..n
  <2>1. reversed = [t \in 1..n |-> trees[(n - t) + 1]]
    BY DEF Reverse
  <2> HIDE DEF n, reversed
  <2> QED
    BY <1>2, <2>1
<1>4. \A t \in 1..n : \E k \in Nat \ {0} : DOMAIN reversed[t] = 1..k
  <2> SUFFICES ASSUME NEW t \in 1..n PROVE \E k \in Nat \ {0} : DOMAIN reversed[t] = 1..k
    OBVIOUS
  <2> DEFINE tree == trees[(n - t) + 1]
             T == ToSet(tree)
  <2>1. tree \in Seq(T) /\ tree # <<>> /\ reversed[t] = tree
    BY <1>1, <1>2, <1>3
  <2> HIDE DEF tree, T, reversed
  <2>2. Len(tree) \in Nat \ {0} /\ DOMAIN tree = 1..Len(tree)
    BY <2>1
  <2> QED
    BY <2>1, <2>2
<1>5. /\ DOMAIN m = 1..n
      /\ \A t \in 1..n :
           /\ DOMAIN m[t] = DOMAIN reversed[t] /\ m[t] = [j \in DOMAIN reversed[t] |-> m[t][j]]
           /\ \A j \in DOMAIN reversed[t] : m[t][j].treeIndex = t /\ m[t][j].jobIndex = j
  <2> HIDE DEF reversed
  <2>1. m = [t \in 1..n |-> [j \in DOMAIN reversed[t] |->
              [job |-> reversed[t][j].job, snarker |-> reversed[t][j].snarker,
               snark |-> reversed[t][j].snark, treeIndex |-> t, jobIndex |-> j]]]
    BY <1>3 DEF mapTrees, reversed
  <2> HIDE DEF m, n
  <2> QED
    BY <2>1
<1> HIDE DEF m, reversed, n
<1>6. LeafsPlaced(m)
  <2> SUFFICES ASSUME NEW leaf \in LeafsOf(m) PROVE leaf.treeIndex \in Nat /\ leaf.jobIndex \in Nat
    BY DEF LeafsPlaced
  <2>1. PICK t \in 1..n : leaf \in ToSet(m[t])
    BY <1>5 DEF LeafsOf
  <2>2. PICK j \in DOMAIN m[t] : leaf = m[t][j]
    BY <2>1 DEF ToSet
  <2>3. PICK k \in Nat \ {0} : DOMAIN m[t] = 1..k
    BY <1>4, <1>5
  <2>4. leaf.treeIndex = t /\ leaf.jobIndex = j
    BY <1>5, <2>2
  <2> QED
    BY <1>2, <2>2, <2>3, <2>4
<1>7. ASSUME NEW t \in 1..n PROVE descendants(Len(m[t])) = [j \in DOMAIN m[t] |-> m[t][j].jobIndex]
  <2>1. PICK k \in Nat \ {0} : DOMAIN m[t] = 1..k
    BY <1>4, <1>5
  <2>2. Len(m[t]) = k
    BY <1>5, <2>1
  <2>3. descendants(k) = Numbers(k)
    BY DescendantsInOrder
  <2>4. \A j \in 1..k : m[t][j].jobIndex = j
    BY <1>5, <2>1
  <2>5. [j \in DOMAIN m[t] |-> m[t][j].jobIndex] = Numbers(k)
    BY <2>1, <2>4 DEF Numbers
  <2> QED
    BY <2>2, <2>3, <2>5
<1> QED
  BY <1>5, <1>6, <1>7 DEF m

LEMMA BlocksFit ==
    /\ \A trees \in ScanStates : \A height :
         LET b == mapScanState(trees, height) IN BlockFits(b) /\ LeafsPlaced(b.trees)
    /\ BlockFits(errorBlock) /\ LeafsPlaced(errorBlock.trees)
<1>1. ASSUME NEW trees \in ScanStates, NEW height
      PROVE  BlockFits(mapScanState(trees, height)) /\ LeafsPlaced(mapScanState(trees, height).trees)
  <2> DEFINE m == mapTrees(trees)
             b == mapScanState(trees, height)
  <2>1. b.trees = m /\ b.workingSnarkers = [s \in Snarkers |-> WorkingLeafs(m, s)]
    BY DEF mapScanState
  <2>2. /\ LeafsPlaced(m)
        /\ \A t \in DOMAIN m : descendants(Len(m[t])) = [j \in DOMAIN m[t] |-> m[t][j].jobIndex]
    BY TreesMapped
  <2> HIDE DEF m, b
  <2>3. BlockFits(b) /\ LeafsPlaced(b.trees)
    BY <2>1, <2>2 DEF BlockFits
  <2> QED
    BY <2>3 DEF b
<1>2. BlockFits(errorBlock) /\ LeafsPlaced(errorBlock.trees)
  <2> DEFINE b == errorBlock
             none == <<>>
             idle == [s \in Snarkers |-> {}]
  <2>1. b.trees = none /\ b.workingSnarkers = idle
    BY DEF errorBlock
  <2>2. DOMAIN none = {}
    OBVIOUS
  <2>3. \A s \in Snarkers : idle[s] = {}
    OBVIOUS
  <2> HIDE DEF b, none, idle
  <2>4. LeafsOf(b.trees) = {}
    BY <2>1, <2>2 DEF LeafsOf
  <2>5. \A s \in Snarkers : WorkingLeafs(b.trees, s) = {}
    BY <2>4 DEF WorkingLeafs
  <2> QED
    BY <2>1, <2>2, <2>3, <2>4, <2>5 DEF BlockFits, LeafsPlaced, b
<1> QED
  BY <1>1, <1>2

\* A new block keeps the selected job and looks its leaf up again.
LEMMA BlockReduced ==
    ASSUME ScanSlice(scan), NEW block, LeafsPlaced(block.trees)
    PROVE  LET s == GetBlockReduced(block)
           IN  /\ ScanSlice(s) /\ s.block = block /\ s.activeJobId = scan.activeJobId
               /\ LeafFits(s.activeLeaf, s.activeJobId, block)
               /\ scan.activeJobId = NoJob => s.activeLeaf = NoRow
<1> DEFINE leafs == {leaf \in LeafsOf(block.trees) : leaf.job = scan.activeJobId}
           First(l) == \A k \in leafs : l.treeIndex < k.treeIndex
                                        \/ (l.treeIndex = k.treeIndex /\ l.jobIndex <= k.jobIndex)
           leaf == IF scan.activeJobId = NoJob THEN NoRow
                   ELSE IF leafs = {} THEN EmptyLeaf ELSE CHOOSE l \in leafs : First(l)
           s == GetBlockReduced(block)
<1>1. s = [scan EXCEPT !.block = block, !.activeLeaf = leaf]
  BY DEF GetBlockReduced
<1>2. \A l \in leafs : l.treeIndex \in Nat /\ l.jobIndex \in Nat
  BY DEF LeafsPlaced
<1>3. leaf \notin {NoRow, EmptyLeaf} => leaf \in leafs
  <2> SUFFICES ASSUME scan.activeJobId # NoJob, leafs # {} PROVE leaf \in leafs
    OBVIOUS
  <2> HIDE DEF leafs
  <2>1. \E l \in leafs : First(l)
    BY <1>2, FirstLeaf
  <2>2. leaf = CHOOSE l \in leafs : First(l)
    OBVIOUS
  <2> HIDE DEF First, leaf
  <2> QED
    BY <2>1, <2>2
<1>4. scan.activeJobId = NoJob => leaf = NoRow
  OBVIOUS
<1>5. leaf \in leafs => leaf \in LeafsOf(block.trees) /\ leaf.job = scan.activeJobId
  <2> HIDE DEF leaf
  <2> QED
    OBVIOUS
<1> HIDE DEF leaf, leafs, s
<1>6. /\ ScanSlice(s) /\ s.block = block /\ s.activeJobId = scan.activeJobId /\ s.activeLeaf = leaf
  BY <1>1 DEF ScanSlice
<1> QED
  BY <1>3, <1>4, <1>5, <1>6 DEF LeafFits, s

\* The URL's job becomes the active one where there is none.
LEMMA Navigated ==
    ASSUME NEW m, ScanSlice(m), NEW url, m.activeJobId \in {NoJob, url.jobId}
    PROVE  LET s == afterNavigation(m, url)
           IN  /\ ScanSlice(s) /\ s.block = m.block /\ s.activeLeaf = m.activeLeaf
               /\ s.activeJobId = url.jobId
               /\ s.activeJobId = m.activeJobId \/ m.activeJobId = NoJob
<1> DEFINE s == afterNavigation(m, url)
<1>1. CASE url.jobId # NoJob /\ url.jobId # m.activeJobId
  <2>1. s = [m EXCEPT !.activeJobId = url.jobId, !.stream = FALSE]
    BY <1>1 DEF afterNavigation, SetActiveJobIdReduced
  <2> HIDE DEF s
  <2>2. ScanSlice(s) /\ s.block = m.block /\ s.activeLeaf = m.activeLeaf /\ s.activeJobId = url.jobId
    BY <2>1 DEF ScanSlice
  <2> QED
    BY <1>1, <2>2 DEF s
<1>2. CASE ~(url.jobId # NoJob /\ url.jobId # m.activeJobId)
  <2>1. s = m
    BY <1>2 DEF afterNavigation
  <2> QED
    BY <1>2, <2>1
<1> QED
  BY <1>1, <1>2

BlockLoads == "SCAN_STATE_INIT" \in loading

ScanInv ==
    /\ ScanSlice(scan) /\ scanUrl = [height |-> scanUrl.height, jobId |-> scanUrl.jobId]
    /\ scan.block # NoRow => BlockFits(scan.block)
    /\ LeafFits(scan.activeLeaf, scan.activeJobId, scan.block)
    /\ scan.activeJobId \in {NoJob, scanUrl.jobId}
    /\ ScanMarkerSound
    /\ page \notin {"scan-state", "ended"} => scan.activeLeaf = NoRow /\ scan.activeJobId = NoJob /\ scanReq = {}
    /\ BlockLoads => scanReq # {}

LEMMA ScanInvSound ==
    ScanInv => ScanMarkerSound /\ ScanLeafFit /\ ScanCellsInOrder /\ (BlockLoads => scanReq # {})
<1> SUFFICES ASSUME ScanInv
             PROVE  ScanMarkerSound /\ ScanLeafFit /\ ScanCellsInOrder /\ (BlockLoads => scanReq # {})
  OBVIOUS
<1>1. ScanLeafFit
  BY DEF ScanInv, LeafFits, ScanLeafFit
<1>2. ScanCellsInOrder
  BY DEF ScanInv, BlockFits, ScanCellsInOrder
<1> QED
  BY <1>1, <1>2 DEF ScanInv

LEMMA ScanInitial ==
    /\ ScanSlice(initialScan) /\ initialScan.block = NoRow /\ initialScan.activeLeaf = NoRow
    /\ initialScan.activeJobId = NoJob
    /\ initialScanUrl = [height |-> initialScanUrl.height, jobId |-> initialScanUrl.jobId]
  BY DEF ScanSlice, initialScan, initialScanUrl

LEMMA ScanReset ==
    ASSUME scan' = initialScan, scanFx' = [inProgress |-> Null], scanReq' = {}, scanUrl' = initialScanUrl,
           ~BlockLoads'
    PROVE  ScanInv'
<1>1. ScanMarkerSound'
  BY DEF ScanMarkerSound
<1>2. LeafFits(NoRow, NoJob, NoRow)
  BY DEF LeafFits
<1> QED
  BY <1>1, <1>2, ScanInitial DEF ScanInv

\* A block is asked for.
LEMMA BlockAsked ==
    ASSUME ScanInv, NEW height, GetBlock(height)
    PROVE  ScanMarkerSound' /\ (BlockLoads' => scanReq' # {})
<1>1. CASE height = scanFx.inProgress
  BY <1>1 DEF GetBlock, ScanInv, ScanMarkerSound, BlockLoads
<1>2. CASE height # scanFx.inProgress
  <2>1. scanFx' = [inProgress |-> height] /\ scanReq' = {[height |-> height]}
    BY <1>2 DEF GetBlock, switchMap
  <2> QED
    BY <2>1 DEF ScanMarkerSound
<1> QED
  BY <1>1, <1>2

\* A request has ended.
LEMMA BlockEnded ==
    ASSUME ScanInv, NEW r \in scanReq, scanFx' = [inProgress |-> Null], scanReq' \in {Completed(scanReq, r), {}},
           remove({"SCAN_STATE_INIT"})
    PROVE  ScanMarkerSound' /\ ~BlockLoads'
<1>1. scanReq' \subseteq {[height |-> Null]}
  BY DEF ScanInv, ScanMarkerSound, Completed
<1> QED
  BY <1>1 DEF ScanMarkerSound, BlockLoads, remove

\* A step that keeps the block, and either keeps the leaf or drops it.
LEMMA ScanControlled ==
    ASSUME ScanInv, page' = "scan-state", ScanMarkerSound', BlockLoads' => scanReq' # {},
           ScanSlice(scan'), scan'.block = scan.block,
           scanUrl' = [height |-> scanUrl'.height, jobId |-> scanUrl'.jobId],
           \/ scan'.activeLeaf = NoRow /\ scan'.activeJobId \in {NoJob, scanUrl'.jobId}
           \/ scan'.activeLeaf = scan.activeLeaf /\ scan'.activeJobId = scan.activeJobId /\ scanUrl' = scanUrl
    PROVE  ScanInv'
<1>1. LeafFits(scan'.activeLeaf, scan'.activeJobId, scan'.block)
  BY DEF ScanInv, LeafFits
<1>2. scan'.block # NoRow => BlockFits(scan'.block)
  BY DEF ScanInv
<1>3. scan'.activeJobId \in {NoJob, scanUrl'.jobId}
  BY DEF ScanInv
<1> QED
  BY <1>1, <1>2, <1>3 DEF ScanInv

LEMMA ScanStep == ScanInv /\ page # "ended" /\ ScanNext => ScanInv'
<1> SUFFICES ASSUME ScanInv, page # "ended" PROVE ScanNext => ScanInv'
  OBVIOUS
<1>0. /\ ScanSlice(scan) /\ scanUrl = [height |-> scanUrl.height, jobId |-> scanUrl.jobId]
      /\ scan.activeJobId \in {NoJob, scanUrl.jobId}
  BY DEF ScanInv
\* Only the marker of the request and the loading bar change.
<1>a. ASSUME page' = "scan-state", ScanMarkerSound', BlockLoads' => scanReq' # {}, UNCHANGED scanUrl,
             NEW s, s = scan', ScanSlice(s), s.block = scan.block, s.activeLeaf = scan.activeLeaf,
             s.activeJobId = scan.activeJobId
      PROVE  ScanInv'
  BY <1>0, <1>a, ScanControlled
\* Nothing is asked for.
<1>b. ASSUME UNCHANGED <<loading, scanFx, scanReq>>
      PROVE  ScanMarkerSound' /\ (BlockLoads' => scanReq' # {})
  BY <1>b DEF ScanInv, ScanMarkerSound, BlockLoads
<1>1. ASSUME ScanOpen PROVE ScanInv'
  <2>1. PICK height \in {Undefined} \cup Heights, job \in {NoJob, 1} :
          /\ scanUrl' = [height |-> height, jobId |-> job]
          /\ scan' = IF height # Undefined \/ job # NoJob THEN SetActiveJobIdReduced(scan, job) ELSE scan
          /\ scanFx' = [inProgress |-> height]
          /\ scanReq' = {[height |-> height]}
    BY <1>1 DEF ScanOpen, switchMap
  <2>2. page = "none" /\ page' = "scan-state"
    BY <1>1 DEF ScanOpen, Enter
  <2>3. scan.activeLeaf = NoRow /\ scan.activeJobId = NoJob
    BY <2>2 DEF ScanInv
  <2>4. ScanMarkerSound' /\ scanReq' # {}
    BY <2>1 DEF ScanMarkerSound
  <2>5. scanUrl' = [height |-> scanUrl'.height, jobId |-> scanUrl'.jobId] /\ scanUrl'.jobId = job
    BY <2>1
  <2> DEFINE s == [scan EXCEPT !.activeJobId = job, !.stream = FALSE]
  <2>6. scan' \in {scan, s}
    BY <2>1 DEF SetActiveJobIdReduced
  <2>7. ScanSlice(s) /\ s.block = scan.block /\ s.activeLeaf = NoRow /\ s.activeJobId = job
    <3>1. s = [scan EXCEPT !.activeJobId = job, !.stream = FALSE]
      OBVIOUS
    <3> HIDE DEF s
    <3> QED
      BY <1>0, <2>3, <3>1 DEF ScanSlice
  <2> HIDE DEF s
  <2>8. ScanSlice(scan') /\ scan'.block = scan.block /\ scan'.activeLeaf = NoRow /\ scan'.activeJobId \in {NoJob, job}
    BY <1>0, <2>3, <2>6, <2>7
  <2> QED
    BY <2>2, <2>4, <2>5, <2>8, ScanControlled
<1>2. ASSUME ScanTick \/ ScanNodeChange PROVE ScanInv'
  <2>1. page' = "scan-state" /\ GetBlock(Undefined) /\ scan' = scan /\ scanUrl' = scanUrl
    BY <1>2 DEF ScanTick, ScanNodeChange, On
  <2>2. ScanMarkerSound' /\ (BlockLoads' => scanReq' # {})
    BY <2>1, BlockAsked
  <2> QED
    BY <1>0, <1>a, <2>1, <2>2
<1>3. ASSUME ScanGetBlockSuccess PROVE ScanInv'
  <2>1. PICK r \in scanReq, trees \in ScanStates, height \in Heights :
          /\ LET reduced == GetBlockReduced(mapScanState(trees, height))
                 url == [scanUrl EXCEPT !.height = height]
             IN  scan' \in {reduced, afterNavigation(reduced, url)} /\ scanUrl' \in {scanUrl, url}
          /\ scanFx' = [inProgress |-> Null] /\ scanReq' = Completed(scanReq, r)
          /\ remove({"SCAN_STATE_INIT"}) /\ UNCHANGED page
    BY <1>3 DEF ScanGetBlockSuccess
  <2> DEFINE block == mapScanState(trees, height)
             reduced == GetBlockReduced(block)
             url == [scanUrl EXCEPT !.height = height]
             after == afterNavigation(reduced, url)
  <2>2. page' = "scan-state"
    BY <2>1 DEF ScanInv
  <2>3. ScanMarkerSound' /\ ~BlockLoads'
    BY <2>1, BlockEnded
  <2>4. BlockFits(block) /\ LeafsPlaced(block.trees)
    BY BlocksFit
  <2>5. scan' \in {reduced, after} /\ scanUrl' \in {scanUrl, url}
    BY <2>1
  <2>6. url = [height |-> url.height, jobId |-> url.jobId] /\ url.jobId = scanUrl.jobId
    BY <1>0
  <2> HIDE DEF block, url
  <2>7. /\ ScanSlice(reduced) /\ reduced.block = block /\ reduced.activeJobId = scan.activeJobId
        /\ LeafFits(reduced.activeLeaf, reduced.activeJobId, block)
        /\ scan.activeJobId = NoJob => reduced.activeLeaf = NoRow
    BY <1>0, <2>4, BlockReduced
  <2> HIDE DEF reduced
  <2>8. /\ ScanSlice(after) /\ after.block = block /\ after.activeLeaf = reduced.activeLeaf
        /\ after.activeJobId = url.jobId
        /\ after.activeJobId = reduced.activeJobId \/ reduced.activeJobId = NoJob
    BY <1>0, <2>6, <2>7, Navigated
  <2> HIDE DEF after
  <2>9. LeafFits(after.activeLeaf, after.activeJobId, block)
    BY <2>7, <2>8 DEF LeafFits
  <2>10. /\ ScanSlice(scan') /\ scan'.block = block /\ LeafFits(scan'.activeLeaf, scan'.activeJobId, block)
         /\ scan'.activeJobId \in {NoJob, url.jobId}
    BY <1>0, <2>5, <2>6, <2>7, <2>8, <2>9
  <2> QED
    BY <2>2, <2>3, <2>4, <2>5, <2>6, <2>10 DEF ScanInv
<1>4. ASSUME ScanGetBlockError PROVE ScanInv'
  <2>1. /\ scan' = GetBlockReduced(errorBlock) /\ scanFx' = [inProgress |-> Null] /\ scanReq' = {}
        /\ remove({"SCAN_STATE_INIT"}) /\ UNCHANGED <<page, scanUrl>>
    BY <1>4 DEF ScanGetBlockError, catchErrorAndRepeat
  <2>2. PICK r \in scanReq : TRUE
    BY <1>4 DEF ScanGetBlockError
  <2>3. page' = "scan-state"
    BY <2>1, <2>2 DEF ScanInv
  <2>4. ScanMarkerSound' /\ ~BlockLoads'
    BY <2>1, <2>2, BlockEnded
  <2>5. /\ ScanSlice(scan') /\ scan'.block = errorBlock /\ scan'.activeJobId = scan.activeJobId
        /\ LeafFits(scan'.activeLeaf, scan'.activeJobId, errorBlock)
    BY <1>0, <2>1, BlocksFit, BlockReduced
  <2> QED
    BY <1>0, <2>1, <2>3, <2>4, <2>5, BlocksFit DEF ScanInv
<1>5. ASSUME getHeight \/ checkLatestHeight PROVE ScanInv'
  <2>1. PICK height, stream : GetBlock(height) /\ scan' = [scan EXCEPT !.stream = stream]
    <3>1. CASE getHeight
      <4>1. PICK height \in Heights \cup {Null} : GetBlock(height) /\ scan' = [scan EXCEPT !.stream = height = Null]
        BY <3>1 DEF getHeight
      <4> QED
        BY <4>1
    <3>2. CASE checkLatestHeight
      BY <3>2 DEF checkLatestHeight
    <3> QED
      BY <1>5, <3>1, <3>2
  <2>2. page' = "scan-state" /\ scanUrl' = scanUrl
    BY <1>5 DEF getHeight, checkLatestHeight, On
  <2>3. ScanMarkerSound' /\ (BlockLoads' => scanReq' # {})
    BY <2>1, BlockAsked
  <2> DEFINE s == scan'
  <2>4. s = [scan EXCEPT !.stream = stream]
    BY <2>1
  <2> HIDE DEF s
  <2>5. ScanSlice(s) /\ s.block = scan.block /\ s.activeLeaf = scan.activeLeaf /\ s.activeJobId = scan.activeJobId
    BY <1>0, <2>4 DEF ScanSlice
  <2> QED
    BY <1>a, <2>2, <2>3, <2>5 DEF s
<1>6. ASSUME ScanToggleStream \/ ScanToggleTreeView PROVE ScanInv'
  <2> DEFINE s == scan'
             stream == ~scan.stream
             view == ~scan.treeView
  <2>1. /\ page' = "scan-state" /\ scanUrl' = scanUrl /\ UNCHANGED <<loading, scanFx, scanReq>>
        /\ s = [scan EXCEPT !.stream = stream] \/ s = [scan EXCEPT !.treeView = view]
    BY <1>6 DEF ScanToggleStream, ScanToggleTreeView, On
  <2> HIDE DEF s, stream, view
  <2>2. ScanSlice(s) /\ s.block = scan.block /\ s.activeLeaf = scan.activeLeaf /\ s.activeJobId = scan.activeJobId
    BY <1>0, <2>1 DEF ScanSlice
  <2> QED
    BY <1>a, <1>b, <2>1, <2>2 DEF s
<1>7. ASSUME ScanSetActiveLeaf PROVE ScanInv'
  <2>1. PICK leaf \in LeafsOf(scan.block.trees) :
          LET url == [height |-> scan.block.height, jobId |-> leaf.job]
          IN  /\ scan' = afterNavigation(SetActiveLeafReduced(scan, leaf), url)
              /\ scanUrl' = url
    BY <1>7 DEF ScanSetActiveLeaf
  <2> DEFINE url == [height |-> scan.block.height, jobId |-> leaf.job]
             job == IF leaf # NoRow THEN leaf.job ELSE NoJob
             open == IF leaf # NoRow THEN TRUE ELSE scan.openSidePanel
             stream == IF leaf # NoRow THEN FALSE ELSE scan.stream
             m == SetActiveLeafReduced(scan, leaf)
             s == afterNavigation(m, url)
  <2>2. /\ page' = "scan-state" /\ UNCHANGED <<loading, scanFx, scanReq>> /\ scan.block # NoRow
        /\ scan' = s /\ scanUrl' = url
    BY <1>7, <2>1 DEF ScanSetActiveLeaf, On
  <2>3. url = [height |-> url.height, jobId |-> url.jobId] /\ url.jobId = leaf.job
    OBVIOUS
  <2>4. m = [scan EXCEPT !.openSidePanel = open, !.activeLeaf = leaf, !.activeJobId = job, !.stream = stream]
    BY <1>0 DEF SetActiveLeafReduced, ScanSlice
  <2>5. job \in {NoJob, leaf.job} /\ (leaf = NoRow \/ job = leaf.job)
    OBVIOUS
  <2> HIDE DEF url, job, open, stream, m
  <2>6. ScanSlice(m) /\ m.block = scan.block /\ m.activeLeaf = leaf /\ m.activeJobId = job
    BY <1>0, <2>4 DEF ScanSlice
  <2>7. /\ ScanSlice(s) /\ s.block = m.block /\ s.activeLeaf = m.activeLeaf /\ s.activeJobId = url.jobId
    BY <2>3, <2>5, <2>6, Navigated
  <2> HIDE DEF s
  <2>8. LeafFits(s.activeLeaf, s.activeJobId, s.block)
    BY <2>3, <2>6, <2>7 DEF LeafFits
  <2>9. BlockFits(s.block)
    BY <2>2, <2>6, <2>7 DEF ScanInv
  <2> QED
    BY <1>b, <2>2, <2>3, <2>7, <2>8, <2>9 DEF ScanInv
<1>8. ASSUME removeActiveJobId PROVE ScanInv'
  <2> DEFINE s == scan'
  <2>1. /\ page' = "scan-state" /\ UNCHANGED <<loading, scanFx, scanReq>>
        /\ scanUrl' = [height |-> scan.block.height, jobId |-> NoJob]
    BY <1>8 DEF removeActiveJobId, On
  <2>2. s = [scan EXCEPT !.activeLeaf = NoRow, !.activeJobId = NoJob]
    <3>1. s = [scan EXCEPT !.openSidePanel = scan.openSidePanel, !.activeLeaf = NoRow, !.activeJobId = NoJob,
                           !.stream = scan.stream]
      BY <1>0, <1>8 DEF removeActiveJobId, SetActiveLeafReduced, ScanSlice
    <3> HIDE DEF s
    <3> QED
      BY <1>0, <3>1 DEF ScanSlice
  <2> HIDE DEF s
  <2>3. ScanSlice(s) /\ s.block = scan.block /\ s.activeLeaf = NoRow /\ s.activeJobId = NoJob
    BY <1>0, <2>2 DEF ScanSlice
  <2>4. scanUrl' = [height |-> scanUrl'.height, jobId |-> scanUrl'.jobId]
    BY <2>1
  <2> QED
    BY <1>b, <2>1, <2>3, <2>4, ScanControlled DEF s
<1>9. ASSUME ScanToggleSidePanel PROVE ScanInv'
  <2> DEFINE s == scan'
             open == ~scan.openSidePanel
  <2>1. /\ page' = "scan-state" /\ UNCHANGED <<loading, scanFx, scanReq>>
        /\ scanUrl' \in {scanUrl, [height |-> scan.block.height, jobId |-> NoJob]}
        /\ s = [scan EXCEPT !.openSidePanel = open, !.activeJobId = NoJob, !.activeLeaf = NoRow]
    BY <1>9 DEF ScanToggleSidePanel, On
  <2> HIDE DEF s, open
  <2>2. ScanSlice(s) /\ s.block = scan.block /\ s.activeLeaf = NoRow /\ s.activeJobId = NoJob
    BY <1>0, <2>1 DEF ScanSlice
  <2>3. scanUrl' = [height |-> scanUrl'.height, jobId |-> scanUrl'.jobId]
    BY <1>0, <2>1
  <2> QED
    BY <1>b, <2>1, <2>2, <2>3, ScanControlled DEF s
<1>10. ASSUME ScanClose PROVE ScanInv'
  BY <1>10, ScanReset DEF ScanClose, remove, BlockLoads
<1> QED
  BY <1>1, <1>2, <1>3, <1>4, <1>5, <1>6, <1>7, <1>8, <1>9, <1>10 DEF ScanNext

LEMMA ScanKept ==
    ASSUME ScanInv, UNCHANGED scanVars, BlockLoads' => BlockLoads,
           page \in {"scan-state", "ended"} => page' \in {"scan-state", "ended"}
    PROVE  ScanInv'
  BY DEF ScanInv, scanVars, ScanMarkerSound

\* The two pages share the loading bar, each with a type of its own.
LEMMA WorkPoolLoads == WorkPoolNext /\ BlockLoads' => BlockLoads
<1> USE DEF BlockLoads, add, remove
<1>1. WorkPoolOpen /\ BlockLoads' => BlockLoads  BY DEF WorkPoolOpen, getWorkPool
<1>2. WorkPoolNodeChange /\ BlockLoads' => BlockLoads  BY DEF WorkPoolNodeChange, getWorkPool
<1>3. GetWorkPoolSuccess /\ BlockLoads' => BlockLoads  BY DEF GetWorkPoolSuccess
<1>4. GetWorkPoolError /\ BlockLoads' => BlockLoads  BY DEF GetWorkPoolError
<1>5. GetWorkPoolDetailSuccess /\ BlockLoads' => BlockLoads  BY DEF GetWorkPoolDetailSuccess
<1>6. WorkPoolRowClick /\ BlockLoads' => BlockLoads  BY DEF WorkPoolRowClick, getDetail
<1>7. WorkPoolClose /\ BlockLoads' => BlockLoads  BY DEF WorkPoolClose
<1>8. RemoveActiveWorkPool /\ BlockLoads' => BlockLoads  BY DEF RemoveActiveWorkPool
<1>9. WorkPoolSort /\ BlockLoads' => BlockLoads  BY DEF WorkPoolSort
<1>10. WorkPoolToggleFilter /\ BlockLoads' => BlockLoads  BY DEF WorkPoolToggleFilter
<1>11. WorkPoolToggleSidePanel /\ BlockLoads' => BlockLoads  BY DEF WorkPoolToggleSidePanel
<1>12. GetSnarkerPublicKey /\ BlockLoads' => BlockLoads  BY DEF GetSnarkerPublicKey
<1> QED
  BY <1>1, <1>2, <1>3, <1>4, <1>5, <1>6, <1>7, <1>8, <1>9, <1>10, <1>11, <1>12 DEF WorkPoolNext

LEMMA ScanLoads == ScanNext => WorkLoads' \subseteq WorkLoads
<1> USE DEF WorkLoads, add, remove
<1>1. ScanOpen => WorkLoads' \subseteq WorkLoads  BY DEF ScanOpen
<1>2. ScanTick => WorkLoads' \subseteq WorkLoads  BY DEF ScanTick, GetBlock
<1>3. ScanNodeChange => WorkLoads' \subseteq WorkLoads  BY DEF ScanNodeChange, GetBlock
<1>4. ScanGetBlockSuccess => WorkLoads' \subseteq WorkLoads  BY DEF ScanGetBlockSuccess
<1>5. ScanGetBlockError => WorkLoads' \subseteq WorkLoads  BY DEF ScanGetBlockError
<1>6. getHeight => WorkLoads' \subseteq WorkLoads  BY DEF getHeight, GetBlock
<1>7. checkLatestHeight => WorkLoads' \subseteq WorkLoads  BY DEF checkLatestHeight, GetBlock
<1>8. ScanToggleStream => WorkLoads' \subseteq WorkLoads  BY DEF ScanToggleStream
<1>9. ScanSetActiveLeaf => WorkLoads' \subseteq WorkLoads  BY DEF ScanSetActiveLeaf
<1>10. removeActiveJobId => WorkLoads' \subseteq WorkLoads  BY DEF removeActiveJobId
<1>11. ScanToggleSidePanel => WorkLoads' \subseteq WorkLoads  BY DEF ScanToggleSidePanel
<1>12. ScanToggleTreeView => WorkLoads' \subseteq WorkLoads  BY DEF ScanToggleTreeView
<1>13. ScanClose => WorkLoads' \subseteq WorkLoads  BY DEF ScanClose
<1> QED
  BY <1>1, <1>2, <1>3, <1>4, <1>5, <1>6, <1>7, <1>8, <1>9, <1>10, <1>11, <1>12, <1>13 DEF ScanNext

SnarksInv == WorkPoolInv /\ ListInv /\ ScanInv

LEMMA SnarksAlways ==
    SessionInv /\ SnarksInv /\ [ToolPagesNext]_toolPagesVars => SnarksInv'
<1> SUFFICES ASSUME SessionInv, SnarksInv, [ToolPagesNext]_toolPagesVars PROVE SnarksInv'
  OBVIOUS
<1>0. WorkPoolInv /\ ListInv /\ ScanInv
  BY DEF SnarksInv
\* A step of another page.
<1>1. ASSUME NEW p, p \notin {"work-pool", "scan-state"}, Apart(p), page # "ended",
             UNCHANGED <<loading, workPoolVars, scanVars>>
      PROVE  SnarksInv'
  <2>1. /\ page = "work-pool" => page' \in {"work-pool", "ended"}
        /\ page = "scan-state" => page' \in {"scan-state", "ended"}
    BY <1>1 DEF Apart
  <2>2. WorkLoads' \subseteq WorkLoads /\ (BlockLoads' => BlockLoads)
    BY <1>1 DEF WorkLoads, BlockLoads
  <2> QED
    BY <1>0, <1>1, <2>1, <2>2, WorkPoolKept, ScanKept DEF SnarksInv
<1>2. CASE UNCHANGED toolPagesVars
  <2>1. UNCHANGED <<page, loading, workPoolVars, scanVars>>
    BY <1>2 DEF toolPagesVars, layoutVars, sectionVars
  <2>2. WorkLoads' \subseteq WorkLoads /\ (BlockLoads' => BlockLoads)
    BY <2>1 DEF WorkLoads, BlockLoads
  <2> QED
    BY <1>0, <2>1, <2>2, WorkPoolKept, ScanKept DEF SnarksInv
<1>3. CASE Reload
  <2>1. page' = "none" /\ loading' = {} /\ workPool' = initialWorkPool /\ workPoolReq' = [pool |-> {}, detail |-> {}]
    BY <1>3 DEF Reload
  <2>2. ScanInv'
    BY <1>3, ScanReset DEF Reload, BlockLoads
  <2>3. ~DetailLoads' /\ workPoolReq' = [pool |-> workPoolReq'.pool, detail |-> workPoolReq'.detail]
        /\ workPoolReq'.pool = {}
    BY <2>1 DEF DetailLoads
  <2>4. WorkPoolInv' /\ ListInv'
    BY <2>1, <2>3, WorkPoolInitial DEF WorkPoolInv, ListInv, ListLoads
  <2> QED
    BY <2>2, <2>4 DEF SnarksInv
<1>4. CASE page # "ended" /\ SectionNext
  <2>1. CASE WorkPoolNext /\ UNCHANGED scanVars
    <3>1. WorkPoolInv' /\ ListInv'
      BY <1>0, <1>4, <2>1, WorkPoolStep, ListStep
    <3>2. ScanInv'
      BY <1>0, <1>4, <2>1, WorkPoolApart, WorkPoolLoads, ScanKept DEF Apart
    <3> QED
      BY <3>1, <3>2 DEF SnarksInv
  <2>2. CASE ScanNext /\ UNCHANGED workPoolVars
    <3>1. ScanInv'
      BY <1>0, <1>4, <2>2, ScanStep
    <3>2. WorkPoolInv' /\ ListInv'
      BY <1>0, <1>4, <2>2, ScanApart, ScanLoads, WorkPoolKept DEF Apart
    <3> QED
      BY <3>1, <3>2 DEF SnarksInv
  <2>3. CASE StateActionsNext /\ UNCHANGED <<workPoolVars, scanVars>>
    BY <1>1, <1>4, <2>3, StateActionsApart, StateActionsQuiet
  <2>4. CASE WalletsNext /\ UNCHANGED <<workPoolVars, scanVars>>
    BY <1>1, <1>4, <2>4, WalletsApart, WalletsQuiet
  <2>5. CASE MempoolNext /\ UNCHANGED <<workPoolVars, scanVars>>
    BY <1>1, <1>4, <2>5, MempoolApart, MempoolQuiet
  <2>6. CASE PickNode
    BY <1>1, <1>4, <2>6, PickNodeApart DEF PickNode, sectionVars
  <2> QED
    BY <1>4, <2>1, <2>2, <2>3, <2>4, <2>5, <2>6 DEF SectionNext
<1>5. CASE Framed /\ FrameNext /\ UNCHANGED sectionVars
  <2>1. page \in {"none", "dashboard"} /\ page' \in {"none", "dashboard"} /\ loading' = loading
    BY <1>5, DashboardApart, DashboardQuiet DEF SessionInv, FrameNext, layoutVars
  <2>2. WorkLoads' \subseteq WorkLoads /\ (BlockLoads' => BlockLoads)
    BY <2>1 DEF WorkLoads, BlockLoads
  <2> QED
    BY <1>0, <1>5, <2>1, <2>2, WorkPoolKept, ScanKept DEF SnarksInv, sectionVars
<1> QED
  BY <1>2, <1>3, <1>4, <1>5 DEF ToolPagesNext

\* The pages of the section Snarks, for every pool of jobs, every scan state and every
\* order of answers, failures, clicks, navigations and node changes: the details beside
\* a selected job are that job's or have its own on their way, the leaf is that of the
\* selected job in the block on display, the cell highlighted in the chart is the leaf
\* that is selected however many leafs a tree has, and what is loading has a request
\* on its way; the list of jobs has one unless a flag left set holds it back.
THEOREM SnarksTheorem == ToolPagesSpec => []SnarksSound
<1>1. ToolPagesInit => SnarksInv
  <2> SUFFICES ASSUME ToolPagesInit PROVE SnarksInv
    OBVIOUS
  <2>1. /\ workPool = initialWorkPool /\ workPoolReq = [pool |-> {}, detail |-> {}] /\ page = "none" /\ loading = {}
        /\ scan = initialScan /\ scanFx = [inProgress |-> Null] /\ scanReq = {} /\ scanUrl = initialScanUrl
    BY DEF ToolPagesInit, WorkPoolInit, ScanInit, LayoutInit
  <2>2. WorkPoolInv /\ ListInv
    <3>1. ~DetailLoads /\ workPoolReq = [pool |-> workPoolReq.pool, detail |-> workPoolReq.detail] /\ workPoolReq.pool = {}
      BY <2>1 DEF DetailLoads
    <3> QED
      BY <2>1, <3>1, WorkPoolInitial DEF WorkPoolInv, ListInv, ListLoads
  <2>3. ScanInv
    <3>1. ScanMarkerSound /\ ~BlockLoads
      BY <2>1 DEF ScanMarkerSound, BlockLoads
    <3>2. LeafFits(NoRow, NoJob, NoRow)
      BY DEF LeafFits
    <3> QED
      BY <2>1, <3>1, <3>2, ScanInitial DEF ScanInv
  <2> QED
    BY <2>2, <2>3 DEF SnarksInv
<1>2. SnarksInv => SnarksSound
  BY WorkPoolInvSound, ScanInvSound
     DEF SnarksInv, SnarksSound, SnarksLoadingHasRequest, DetailLoads, BlockLoads, ListInv, ListLoads
<1> QED
  BY <1>1, <1>2, SessionStart, SessionStep, SnarksAlways, PTL DEF ToolPagesSpec
(***************************************************************************)
(* State: Actions.  The calls of an action and of a group are sums.         *)
(***************************************************************************)

First(s) == CHOOSE x \in s : TRUE

\* The equation that SumFunctionOnSet solves, on the sets of D.
Sums(f, g, D) ==
    g = [s \in D |-> IF s = {} THEN 0 ELSE f[First(s)] + g[s \ {First(s)}]]

LEMMA SumChoice ==
    ASSUME NEW f, NEW S
    PROVE  SumFunctionOnSet(f, S) = (CHOOSE g : Sums(f, g, SUBSET S))[S]
BY DEF SumFunctionOnSet, FoldFunctionOnSet, MapThenFoldSet, Sums, First

\* It has a solution on the subsets of a finite set.
LEMMA SumsExist ==
    ASSUME NEW f, NEW S, IsFiniteSet(S)
    PROVE  \E g : Sums(f, g, SUBSET S)
<1> DEFINE D(n) == {s \in SUBSET S : Cardinality(s) =< n}
           Bad == {n \in Nat : ~ \E g : Sums(f, g, D(n))}
<1>1. \A s \in SUBSET S : IsFiniteSet(s) /\ Cardinality(s) \in Nat
  BY FS_Subset, FS_CardinalityType
<1>2. ASSUME NEW s \in SUBSET S, s # {}
      PROVE  /\ First(s) \in s /\ s \ {First(s)} \in SUBSET S
             /\ Cardinality(s \ {First(s)}) = Cardinality(s) - 1
  <2>1. First(s) \in s
    BY <1>2 DEF First
  <2> QED
    BY <1>1, <2>1, FS_RemoveElement
<1>3. Bad = {}
  <2> SUFFICES ASSUME Bad # {} PROVE FALSE
    OBVIOUS
  <2>1. PICK m \in Bad : \A n \in Bad : m =< n
    <3>1. Bad \in SUBSET Nat
      OBVIOUS
    <3> HIDE DEF Bad
    <3> QED
      BY <3>1, LeastNatural
  <2>2. m \in Nat /\ ~ \E g : Sums(f, g, D(m))
    OBVIOUS
  <2>3. CASE m = 0
    <3>1. \A s \in D(0) : s = {}
      BY <1>1, FS_EmptySet
    <3> DEFINE g == [s \in D(0) |-> 0]
    <3> HIDE DEF D
    <3>2. Sums(f, g, D(0))
      BY <3>1 DEF Sums
    <3> QED
      BY <2>2, <2>3, <3>2
  <2>4. CASE m # 0
    <3>1. m - 1 \in Nat /\ m - 1 \notin Bad
      <4>1. m - 1 \in Nat /\ ~ (m =< m - 1)
        BY <2>2, <2>4
      <4> HIDE DEF Bad
      <4> QED
        BY <2>1, <4>1
    <3>2. PICK h : Sums(f, h, D(m - 1))
      BY <3>1
    <3> DEFINE g == [s \in D(m) |-> IF s = {} THEN 0 ELSE f[First(s)] + h[s \ {First(s)}]]
    <3>3. ASSUME NEW s \in D(m), s # {}
          PROVE  s \ {First(s)} \in D(m - 1) /\ s \ {First(s)} \in D(m)
      BY <1>1, <1>2, <2>2, <3>3
    <3>4. D(m - 1) \subseteq D(m)
      BY <1>1, <2>2
    <3> HIDE DEF D
    <3>5. \A s \in D(m - 1) : g[s] = h[s]
      BY <3>2, <3>4 DEF Sums
    <3>6. \A s \in D(m) : g[s] = IF s = {} THEN 0 ELSE f[First(s)] + g[s \ {First(s)}]
      BY <3>3, <3>5
    <3>7. Sums(f, g, D(m))
      <4> DEFINE k == [s \in D(m) |-> IF s = {} THEN 0 ELSE f[First(s)] + g[s \ {First(s)}]]
      <4>1. DOMAIN g = D(m) /\ g = [s \in D(m) |-> g[s]]
        OBVIOUS
      <4> HIDE DEF g
      <4>2. g = k
        BY <3>6, <4>1
      <4> QED
        BY <4>2 DEF Sums
    <3> QED
      BY <2>2, <3>7
  <2> QED
    BY <2>3, <2>4
<1>4. D(Cardinality(S)) = SUBSET S
  BY FS_Subset
<1>5. Cardinality(S) \in Nat
  BY FS_CardinalityType
<1> HIDE DEF D
<1> QED
  BY <1>3, <1>4, <1>5

\* A sum of natural numbers is one, and the sum over nothing is zero.
LEMMA SumNatural ==
    ASSUME NEW S, IsFiniteSet(S), NEW f, \A x \in S : f[x] \in Nat
    PROVE  SumFunctionOnSet(f, S) \in Nat /\ (S = {} => SumFunctionOnSet(f, S) = 0)
<1> DEFINE G == CHOOSE g : Sums(f, g, SUBSET S)
           Bad == {n \in Nat : \E s \in SUBSET S : Cardinality(s) = n /\ G[s] \notin Nat}
<1>1. SumFunctionOnSet(f, S) = G[S] /\ Sums(f, G, SUBSET S)
  BY SumChoice, SumsExist
<1> HIDE DEF G
<1>2. \A s \in SUBSET S : G[s] = IF s = {} THEN 0 ELSE f[First(s)] + G[s \ {First(s)}]
  BY <1>1 DEF Sums
<1>3. \A s \in SUBSET S : IsFiniteSet(s) /\ Cardinality(s) \in Nat
  BY FS_Subset, FS_CardinalityType
<1>4. Bad = {}
  <2> SUFFICES ASSUME Bad # {} PROVE FALSE
    OBVIOUS
  <2>1. PICK m \in Bad : \A n \in Bad : m =< n
    <3>1. Bad \in SUBSET Nat
      OBVIOUS
    <3> HIDE DEF Bad
    <3> QED
      BY <3>1, LeastNatural
  <2>2. PICK s \in SUBSET S : Cardinality(s) = m /\ G[s] \notin Nat
    BY <2>1
  <2>3. s # {}
    <3>1. G[{}] = 0
      BY <1>2
    <3> QED
      BY <2>2, <3>1
  <2> DEFINE x == First(s)
             r == s \ {x}
  <2>4. x \in s
    BY <2>3 DEF First
  <2>5. G[s] = f[x] + G[r]
    BY <1>2, <2>3
  <2>6. r \in SUBSET S /\ Cardinality(r) = m - 1 /\ m \in Nat /\ Cardinality(r) \in Nat
    BY <1>3, <2>2, <2>4, FS_RemoveElement
  <2> HIDE DEF x, r
  <2>7. m - 1 \notin Bad
    BY <2>1, <2>6
  <2>8. G[r] \in Nat
    BY <2>6, <2>7
  <2> QED
    BY <2>2, <2>4, <2>5, <2>8
<1>5. G[S] \in Nat
  BY <1>3, <1>4
<1> QED
  BY <1>1, <1>2, <1>5

LEMMA SumFunctionNatural ==
    ASSUME NEW f, IsFiniteSet(DOMAIN f), \A x \in DOMAIN f : f[x] \in Nat
    PROVE  SumFunction(f) \in Nat
BY SumNatural DEF SumFunction

\* A function has finitely many values on a finite set.
LEMMA FinitelyMany ==
    ASSUME NEW f, IsFiniteSet(DOMAIN f)
    PROVE  IsFiniteSet({f[x] : x \in DOMAIN f})
<1> DEFINE T == {f[x] : x \in DOMAIN f}
<1>1. f \in [DOMAIN f -> T] \/ f # [x \in DOMAIN f |-> f[x]]
  OBVIOUS
<1> DEFINE g == [x \in DOMAIN f |-> f[x]]
<1>2. g \in Surjection(DOMAIN f, T)
  BY DEF Surjection
<1> HIDE DEF g, T
<1>3. IsFiniteSet(T)
  BY <1>2, FS_Surjection
<1> QED
  BY <1>3 DEF T

\* Finitely many numbers have a largest one.
LEMMA LargestNatural ==
    ASSUME NEW S \in SUBSET Nat, IsFiniteSet(S), S # {}
    PROVE  Max(S) \in S /\ \A n \in S : n =< Max(S)
<1> DEFINE Bounded(s) == \E n \in Nat : \A m \in s : m =< n
           Bad == {n \in Nat : \E s \in SUBSET S : Cardinality(s) = n /\ ~Bounded(s)}
<1>1. \A s \in SUBSET S : IsFiniteSet(s) /\ Cardinality(s) \in Nat
  BY FS_Subset, FS_CardinalityType
<1>2. Bad = {}
  <2> SUFFICES ASSUME Bad # {} PROVE FALSE
    OBVIOUS
  <2>1. PICK m \in Bad : \A n \in Bad : m =< n
    <3>1. Bad \in SUBSET Nat
      OBVIOUS
    <3> HIDE DEF Bad
    <3> QED
      BY <3>1, LeastNatural
  <2>2. PICK s \in SUBSET S : Cardinality(s) = m /\ ~Bounded(s)
    BY <2>1
  <2>3. PICK x \in s : TRUE
    BY <2>2
  <2> DEFINE r == s \ {x}
  <2>4. r \in SUBSET S /\ Cardinality(r) = m - 1 /\ m \in Nat /\ Cardinality(r) \in Nat
    BY <1>1, <2>2, <2>3, FS_RemoveElement
  <2>5. m - 1 \notin Bad
    BY <2>1, <2>4
  <2>6. Bounded(r)
    <3> HIDE DEF Bounded, r
    <3> QED
      BY <2>4, <2>5
  <2>7. PICK n \in Nat : \A k \in r : k =< n
    BY <2>6
  <2>8. x \in Nat
    OBVIOUS
  <2>9. n + x \in Nat /\ \A k \in s : k =< n + x
    BY <2>7, <2>8
  <2> QED
    BY <2>2, <2>9
<1>3. Bounded(S)
  <2> HIDE DEF Bounded
  <2> QED
    BY <1>1, <1>2
<1>4. PICK top \in Nat : \A m \in S : m =< top
  BY <1>3
<1> DEFINE D == {top - k : k \in S}
<1>5. D \in SUBSET Nat /\ D # {}
  <2>1. \A k \in S : top - k \in Nat
    BY <1>4
  <2> QED
    BY <2>1
<1>6. PICK d \in D : \A e \in D : d =< e
  <2> HIDE DEF D
  <2> QED
    BY <1>5, LeastNatural
<1>7. PICK m \in S : d = top - m
  BY <1>6
<1>8. \A k \in S : m >= k
  BY <1>6, <1>7
<1>9. Max(S) \in S /\ \A k \in S : Max(S) >= k
  BY <1>8 DEF Max
<1> QED
  BY <1>9

\* Every element of a finite set is listed at most once.
LEMMA SetListed ==
    ASSUME NEW S, IsFiniteSet(S)
    PROVE  SetToSeq(S) \in Seq(S) /\ \A i, j \in DOMAIN SetToSeq(S) : SetToSeq(S)[i] = SetToSeq(S)[j] => i = j
<1> DEFINE n == Cardinality(S)
           l == SetToSeq(S)
<1>1. n \in Nat /\ ExistsBijection(1..n, S)
  BY FS_CardinalityType
<1>2. PICK f : f \in Bijection(1..n, S)
  BY <1>1 DEF ExistsBijection
<1>3. f \in [1..n -> S] /\ IsInjective(f)
  BY <1>2 DEF Bijection, Injection, IsInjective
<1>4. l = CHOOSE g \in [1..n -> S] : IsInjective(g)
  BY DEF SetToSeq
<1> HIDE DEF l, n
<1>5. l \in [1..n -> S] /\ IsInjective(l)
  BY <1>3, <1>4
<1>6. l \in Seq(S)
  BY <1>1, <1>5
<1> QED
  BY <1>5, <1>6 DEF IsInjective, l

ActionNames == Seq(STRING)

\* The groups of some of the actions: an action is in one of them, and begins with
\* the name of its group.
GroupsApart(groups, names) ==
    /\ groups \in SUBSET [groupName: ActionNames, actions: SUBSET names] /\ IsFiniteSet(groups)
    /\ \A g \in groups : g.actions # {} /\ \A a \in g.actions : IsPrefix(g.groupName, a)
    /\ \A g, h \in groups : g # h => g.actions \cap h.actions = {}

\* Only what no group has yet is grouped, so the groups stay apart.
LEMMA GroupsAdded ==
    ASSUME NEW names \in SUBSET ActionNames, NEW groups, GroupsApart(groups, names), NEW more,
           more \in SUBSET [groupName: ActionNames, actions: SUBSET names], IsFiniteSet(more),
           \A g \in more : /\ g.actions # {} /\ \A a \in g.actions : IsPrefix(g.groupName, a)
                           /\ g.actions \cap UNION {h.actions : h \in groups} = {},
           \A g, h \in more : g # h => g.actions \cap h.actions = {}
    PROVE  GroupsApart(groups \cup more, names)
<1>1. IsFiniteSet(groups \cup more)
  BY FS_Union DEF GroupsApart
<1>2. ASSUME NEW g \in groups, NEW h \in more PROVE g.actions \cap h.actions = {}
  <2>1. g.actions \subseteq UNION {k.actions : k \in groups}
    OBVIOUS
  <2> QED
    BY <2>1
<1> QED
  BY <1>1, <1>2 DEF GroupsApart

LEMMA PrefixesGrouped ==
    ASSUME NEW names \in SUBSET ActionNames, IsFiniteSet(names), NEW groups, GroupsApart(groups, names),
           NEW n \in Nat
    PROVE  GroupsApart(withPrefixes(groups, n, names), names)
<1> DEFINE G(a) == [groupName |-> SubSeq(a, 1, n), actions |-> freeOf(SubSeq(a, 1, n), names, groups)]
           long == {b \in names : Len(b) >= n}
           all == {G(a) : a \in long}
           more == {g \in all : Cardinality(g.actions) > 1}
<1>1. withPrefixes(groups, n, names) = groups \cup more
  BY DEF withPrefixes
<1>2. ASSUME NEW a \in long
      PROVE  /\ SubSeq(a, 1, n) \in ActionNames /\ Len(SubSeq(a, 1, n)) = n
             /\ freeOf(SubSeq(a, 1, n), names, groups) \in SUBSET names
  <2>1. a \in Seq(STRING) /\ Len(a) \in Nat /\ Len(a) >= n
    BY DEF ActionNames
  <2>2. SubSeq(a, 1, n) \in Seq(STRING) /\ Len(SubSeq(a, 1, n)) = n
    BY <2>1
  <2> QED
    BY <2>2 DEF ActionNames, freeOf
<1>3. more \in SUBSET [groupName: ActionNames, actions: SUBSET names]
  <2>1. \A a \in long : G(a) \in [groupName: ActionNames, actions: SUBSET names]
    BY <1>2
  <2> HIDE DEF G, long
  <2> QED
    BY <2>1
<1>4. IsFiniteSet(more)
  <2> DEFINE f == [a \in long |-> G(a)]
  <2>1. IsFiniteSet(long)
    BY FS_Subset
  <2>2. IsFiniteSet({f[a] : a \in DOMAIN f})
    <3>1. DOMAIN f = long
      OBVIOUS
    <3> HIDE DEF f
    <3> QED
      BY <2>1, <3>1, FinitelyMany
  <2>3. {f[a] : a \in DOMAIN f} = all
    <3> HIDE DEF G, long
    <3> QED
      OBVIOUS
  <2>4. more \in SUBSET all
    OBVIOUS
  <2> HIDE DEF f, all, more
  <2> QED
    BY <2>2, <2>3, <2>4, FS_Subset
<1>5. ASSUME NEW g \in more
      PROVE  \E a \in long : g = G(a) /\ g.groupName = SubSeq(a, 1, n)
                             /\ g.actions = freeOf(SubSeq(a, 1, n), names, groups)
  OBVIOUS
<1>6. ASSUME NEW g \in more
      PROVE  /\ g.actions # {} /\ \A a \in g.actions : IsPrefix(g.groupName, a)
             /\ g.actions \cap UNION {h.actions : h \in groups} = {}
  <2>1. PICK a \in long : g.groupName = SubSeq(a, 1, n) /\ g.actions = freeOf(SubSeq(a, 1, n), names, groups)
    BY <1>5
  <2>2. g.actions # {}
    <3>1. Cardinality(g.actions) > 1
      OBVIOUS
    <3>2. Cardinality({}) = 0
      BY FS_EmptySet
    <3> HIDE DEF more
    <3>3. ASSUME g.actions = {} PROVE FALSE
      <4>1. Cardinality(g.actions) = 0
        BY <3>2, <3>3
      <4> QED
        BY <3>1, <4>1
    <3> QED
      BY <3>3
  <2> HIDE DEF more, long
  <2>3. \A b \in g.actions : IsPrefix(g.groupName, b)
    BY <2>1 DEF freeOf
  <2>4. g.actions \cap UNION {h.actions : h \in groups} = {}
    BY <2>1 DEF freeOf
  <2> QED
    BY <2>2, <2>3, <2>4
<1>7. ASSUME NEW g \in more, NEW h \in more, NEW b, b \in g.actions, b \in h.actions PROVE g = h
  <2>1. PICK a \in long : g = G(a) /\ g.groupName = SubSeq(a, 1, n)
                             /\ g.actions = freeOf(SubSeq(a, 1, n), names, groups)
    BY <1>5
  <2>2. PICK c \in long : h = G(c) /\ h.groupName = SubSeq(c, 1, n)
                             /\ h.actions = freeOf(SubSeq(c, 1, n), names, groups)
    BY <1>5
  <2>3. Len(SubSeq(a, 1, n)) = n /\ Len(SubSeq(c, 1, n)) = n
    BY <1>2
  <2> DEFINE p == SubSeq(a, 1, n)
             q == SubSeq(c, 1, n)
  <2>4. IsPrefix(p, b) /\ IsPrefix(q, b) /\ p \in Seq(STRING) /\ q \in Seq(STRING) /\ Len(p) = n /\ Len(q) = n
    BY <1>2, <1>7, <2>1, <2>2, <2>3 DEF freeOf, ActionNames
  <2>5. g = [groupName |-> p, actions |-> freeOf(p, names, groups)] /\ h = [groupName |-> q, actions |-> freeOf(q, names, groups)]
    BY <2>1, <2>2
  <2> HIDE DEF p, q
  <2>6. SubSeq(p, 1, n) = SubSeq(b, 1, n) /\ SubSeq(q, 1, n) = SubSeq(b, 1, n)
    BY <2>4 DEF IsPrefix
  <2>7. SubSeq(p, 1, n) = p /\ SubSeq(q, 1, n) = q
    BY <2>4
  <2> QED
    BY <2>5, <2>6, <2>7
<1> HIDE DEF more
<1> QED
  BY <1>1, <1>3, <1>4, <1>6, <1>7, GroupsAdded

LEMMA NamesGrouped ==
    ASSUME NEW names \in SUBSET ActionNames, IsFiniteSet(names)
    PROVE  GroupsApart(getGroupNames(names), names)
<1> DEFINE lengths == {Len(a) : a \in names} \cup {0}
           n == Max(lengths)
           none == {}
           Groups(f) == f = [k \in 0..n |-> IF k = 0 THEN none ELSE withPrefixes(f[k - 1], n + 1 - k, names)]
           grouped == CHOOSE f : Groups(f)
           last == grouped[n]
           alone == {[groupName |-> a, actions |-> {a}] : a \in freeOf(<<>>, names, last)}
<1>1. getGroupNames(names) = last \cup alone
  BY DEF getGroupNames
<1>2. n \in Nat
  <2> DEFINE f == [a \in names |-> Len(a)]
  <2>1. \A a \in names : Len(a) \in Nat
    BY DEF ActionNames
  <2>2. IsFiniteSet({f[a] : a \in DOMAIN f})
    <3>1. DOMAIN f = names
      OBVIOUS
    <3> HIDE DEF f
    <3> QED
      BY <3>1, FinitelyMany
  <2>3. {f[a] : a \in DOMAIN f} = {Len(a) : a \in names}
    OBVIOUS
  <2> HIDE DEF f
  <2>4. IsFiniteSet(lengths)
    BY <2>2, <2>3, FS_AddElement
  <2>5. lengths \in SUBSET Nat /\ lengths # {}
    BY <2>1
  <2> HIDE DEF lengths
  <2>6. n \in lengths
    BY <2>4, <2>5, LargestNatural
  <2> QED
    BY <2>5, <2>6
<1> HIDE DEF n
<1> DEFINE Apt(groups) == GroupsApart(groups, names)
           X == {groups \in SUBSET [groupName: ActionNames, actions: SUBSET names] : Apt(groups)}
           G == [p \in (1..n) \X X |-> withPrefixes(p[2], n + 1 - p[1], names)]
<1>3. none \in X
  <2>1. IsFiniteSet({})
    BY FS_EmptySet
  <2> QED
    BY <2>1 DEF GroupsApart
<1>4. G \in [(1..n) \X X -> X]
  <2>1. ASSUME NEW i \in 1..n, NEW groups \in X PROVE withPrefixes(groups, n + 1 - i, names) \in X
    <3>1. n + 1 - i \in Nat
      BY <1>2
    <3>2. GroupsApart(withPrefixes(groups, n + 1 - i, names), names)
      BY <3>1, PrefixesGrouped
    <3> QED
      BY <3>2 DEF GroupsApart
  <2> HIDE DEF X
  <2>2. \A p \in (1..n) \X X : withPrefixes(p[2], n + 1 - p[1], names) \in X
    BY <2>1
  <2> QED
    BY <2>2
<1> HIDE DEF X
<1>5. PICK f : f \in [0..n -> X] /\ f[0] = none /\ \A i \in 1..n : f[i] = G[<<i, f[i - 1]>>]
  <2> HIDE DEF G, none
  <2>1. \E f : Iterates(f, n, X, none, G)
    BY <1>2, <1>3, <1>4, RecursiveValues
  <2> QED
    BY <2>1 DEF Iterates
<1> HIDE DEF none
<1>6. ASSUME NEW i \in 1..n PROVE f[i] = withPrefixes(f[i - 1], n + 1 - i, names)
  <2>1. i - 1 \in 0..n
    BY <1>2
  <2>2. <<i, f[i - 1]>> \in (1..n) \X X
    BY <1>5, <2>1
  <2> QED
    BY <1>5, <2>2
<1>7. Groups(f)
  <2> DEFINE E(k) == IF k = 0 THEN none ELSE withPrefixes(f[k - 1], n + 1 - k, names)
  <2>1. ASSUME NEW k \in 0..n PROVE f[k] = E(k)
    <3>1. CASE k = 0
      <4>1. f[0] = none
        BY <1>5
      <4> QED
        BY <3>1, <4>1
    <3>2. CASE k # 0
      <4>1. k \in 1..n
        BY <1>2, <3>2
      <4> QED
        BY <1>6, <3>2, <4>1
    <3> QED
      BY <3>1, <3>2
  <2> HIDE DEF E
  <2>2. f = [k \in 0..n |-> E(k)]
    BY <1>5, <2>1
  <2> QED
    BY <2>2, Zenon DEF E
<1>8. Groups(grouped)
  <2> HIDE DEF Groups
  <2> QED
    BY <1>7
<1> HIDE DEF grouped
<1>9. \A k \in 0..n : grouped[k] = IF k = 0 THEN none ELSE withPrefixes(grouped[k - 1], n + 1 - k, names)
  BY <1>8
<1> HIDE DEF Groups, G
<1> DEFINE Bad == {k \in 0..n : ~Apt(grouped[k])}
<1>10. Bad = {}
  <2> SUFFICES ASSUME Bad # {} PROVE FALSE
    OBVIOUS
  <2>1. PICK k \in Bad : \A m \in Bad : k =< m
    <3>1. Bad \in SUBSET Nat
      BY <1>2
    <3> HIDE DEF Bad
    <3> QED
      BY <3>1, LeastNatural
  <2>2. k \in 0..n /\ ~Apt(grouped[k])
    OBVIOUS
  <2>3. CASE k = 0
    <3>1. grouped[0] = none
      BY <1>2, <1>9
    <3>2. Apt(none)
      BY <1>3 DEF X
    <3> QED
      BY <2>2, <2>3, <3>1, <3>2
  <2>4. CASE k # 0
    <3>1. k - 1 \in 0..n /\ ~ (k =< k - 1) /\ n + 1 - k \in Nat
      BY <1>2, <2>2, <2>4
    <3>2. Apt(grouped[k - 1])
      <4> HIDE DEF Apt
      <4> QED
        BY <2>1, <3>1
    <3>3. grouped[k] = withPrefixes(grouped[k - 1], n + 1 - k, names)
      BY <1>9, <2>2, <2>4
    <3>4. GroupsApart(withPrefixes(grouped[k - 1], n + 1 - k, names), names)
      BY <3>1, <3>2, PrefixesGrouped
    <3> QED
      BY <2>2, <3>3, <3>4
  <2> QED
    BY <2>3, <2>4
<1>11. GroupsApart(last, names)
  <2>1. n \in 0..n
    BY <1>2
  <2> HIDE DEF Apt
  <2>2. Apt(grouped[n])
    BY <1>10, <2>1
  <2> QED
    BY <2>2 DEF Apt
<1> HIDE DEF last
<1> DEFINE free == freeOf(<<>>, names, last)
           S(a) == [groupName |-> a, actions |-> {a}]
<1>12. free \in SUBSET names /\ \A a \in free : a \notin UNION {h.actions : h \in last}
  BY DEF freeOf
<1> HIDE DEF free
<1>13. alone = {S(a) : a \in free}
  BY DEF free
<1> HIDE DEF alone
<1>14. alone \in SUBSET [groupName: ActionNames, actions: SUBSET names]
  <2>1. \A a \in free : S(a) \in [groupName: ActionNames, actions: SUBSET names]
    BY <1>12
  <2> HIDE DEF S
  <2> QED
    BY <1>13, <2>1
<1>15. IsFiniteSet(alone)
  <2> DEFINE g == [a \in free |-> S(a)]
  <2>1. IsFiniteSet(free)
    BY <1>12, FS_Subset
  <2>2. DOMAIN g = free /\ {g[a] : a \in DOMAIN g} = alone
    <3> HIDE DEF S
    <3> QED
      BY <1>13
  <2> HIDE DEF g
  <2> QED
    BY <2>1, <2>2, FinitelyMany
<1>16. ASSUME NEW g \in alone
       PROVE  /\ g.actions # {} /\ \A a \in g.actions : IsPrefix(g.groupName, a)
              /\ g.actions \cap UNION {h.actions : h \in last} = {}
  <2>1. PICK a \in free : g.groupName = a /\ g.actions = {a}
    BY <1>13
  <2>2. IsPrefix(a, a)
    <3>1. a \in Seq(STRING)
      BY <1>12 DEF ActionNames
    <3>2. Len(a) =< Len(a)
      BY <3>1
    <3> QED
      BY <3>2 DEF IsPrefix
  <2> QED
    BY <1>12, <2>1, <2>2
<1>17. ASSUME NEW g \in alone, NEW h \in alone, g # h PROVE g.actions \cap h.actions = {}
  <2>1. PICK a \in free : g = S(a)
    BY <1>13
  <2>2. PICK b \in free : h = S(b)
    BY <1>13
  <2>3. a # b
    BY <1>17, <2>1, <2>2
  <2> QED
    BY <2>1, <2>2, <2>3
<1>18. GroupsApart(last \cup alone, names)
  BY <1>11, <1>14, <1>15, <1>16, <1>17, GroupsAdded
<1> QED
  BY <1>1, <1>18

ActionRows == [fullTitle: ActionNames, display: BOOLEAN]

GroupRows == [groupName: ActionNames, display: BOOLEAN, count: Nat, totalTime: Nat, meanTime: Nat,
              actions: SUBSET ActionRows]

TitlesOf(g) == {a.fullTitle : a \in g.actions}

\* Every action of an answer is in one group and on display.
GroupsFit(rows) ==
    /\ rows \in Seq(GroupRows) /\ Distinct(rows, "actions")
    /\ \A g \in ToSet(rows) : /\ g.actions # {} /\ \A a \in g.actions : a.display
                              /\ \A t \in TitlesOf(g) : IsPrefix(g.groupName, t)
    /\ \A g, h \in ToSet(rows) : g # h => TitlesOf(g) \cap TitlesOf(h) = {}

LEMMA MeanNatural ==
    ASSUME NEW d \in Nat, NEW c \in Nat
    PROVE  getMeanTime(d, c) \in Nat
<1>1. c # 0 => d \div c \in Nat
  OBVIOUS
<1> QED
  BY <1>1 DEF getMeanTime

LEMMA GroupMapped ==
    ASSUME NEW response \in ActionsAnswers, NEW g \in [groupName: ActionNames, actions: SUBSET DOMAIN response]
    PROVE  LET m == mapGroup(g, response)
           IN  /\ m \in GroupRows /\ m.groupName = g.groupName /\ TitlesOf(m) = g.actions
               /\ (g.actions # {} => m.actions # {}) /\ \A a \in m.actions : a.display
<1> DEFINE calls(a) == [i \in DOMAIN response[a] |-> response[a][i].calls]
           durations(a) == [i \in DOMAIN response[a] |-> response[a][i].duration]
           counts == [a \in g.actions |-> SumFunction(calls(a))]
           times == [a \in g.actions |-> SumFunction(durations(a))]
           count == SumFunction(counts)
           totalTime == SumFunction(times)
           rows == {[fullTitle |-> a, display |-> TRUE] : a \in g.actions}
           m == mapGroup(g, response)
<1>1. /\ IsFiniteSet(DOMAIN response) /\ DOMAIN response \subseteq Seq(STRING)
      /\ \A name \in DOMAIN response : response[name] \in Seq([calls: Nat, duration: Nat])
  BY StateActionsAssumption
<1>2. ASSUME NEW a \in g.actions PROVE SumFunction(calls(a)) \in Nat /\ SumFunction(durations(a)) \in Nat
  <2>1. response[a] \in Seq([calls: Nat, duration: Nat])
    BY <1>1
  <2>2. DOMAIN response[a] = 1..Len(response[a]) /\ Len(response[a]) \in Nat
    BY <2>1
  <2>3. IsFiniteSet(DOMAIN response[a])
    BY <2>2, FS_Interval
  <2>4. \A i \in DOMAIN response[a] : response[a][i].calls \in Nat /\ response[a][i].duration \in Nat
    <3> DEFINE rs == response[a]
    <3>1. rs \in Seq([calls: Nat, duration: Nat])
      BY <2>1
    <3> HIDE DEF rs
    <3>2. \A i \in DOMAIN rs : rs[i] \in [calls: Nat, duration: Nat]
      <4> DEFINE R == [calls: Nat, duration: Nat]
      <4>1. rs \in Seq(R)
        BY <3>1
      <4> HIDE DEF R
      <4>2. \A i \in DOMAIN rs : rs[i] \in R
        BY <4>1
      <4> QED
        BY <4>2 DEF R
    <3>3. \A i \in DOMAIN rs : rs[i].calls \in Nat /\ rs[i].duration \in Nat
      BY <3>2
    <3> QED
      BY <3>3 DEF rs
  <2>5. DOMAIN calls(a) = DOMAIN response[a] /\ \A i \in DOMAIN calls(a) : calls(a)[i] \in Nat
    BY <2>4
  <2>6. DOMAIN durations(a) = DOMAIN response[a] /\ \A i \in DOMAIN durations(a) : durations(a)[i] \in Nat
    BY <2>4
  <2> HIDE DEF calls, durations
  <2>7. SumFunction(calls(a)) \in Nat
    BY <2>3, <2>5, SumFunctionNatural
  <2>8. SumFunction(durations(a)) \in Nat
    BY <2>3, <2>6, SumFunctionNatural
  <2> QED
    BY <2>7, <2>8
<1>3. m = [groupName |-> g.groupName, display |-> TRUE, count |-> count, totalTime |-> totalTime,
           meanTime |-> getMeanTime(totalTime, count), actions |-> rows]
  BY DEF mapGroup
<1> HIDE DEF m, calls, durations
<1>4. count \in Nat /\ totalTime \in Nat
  <2>1. IsFiniteSet(g.actions)
    BY <1>1, FS_Subset
  <2>2. DOMAIN counts = g.actions /\ \A a \in g.actions : counts[a] \in Nat
    BY <1>2
  <2>3. DOMAIN times = g.actions /\ \A a \in g.actions : times[a] \in Nat
    BY <1>2
  <2> HIDE DEF counts, times
  <2>4. count \in Nat
    BY <2>1, <2>2, SumFunctionNatural
  <2>5. totalTime \in Nat
    BY <2>1, <2>3, SumFunctionNatural
  <2> QED
    BY <2>4, <2>5
<1> HIDE DEF count, totalTime
<1>5. getMeanTime(totalTime, count) \in Nat
  BY <1>4, MeanNatural
<1>6. rows \in SUBSET ActionRows /\ {a.fullTitle : a \in rows} = g.actions /\ (g.actions # {} => rows # {})
      /\ \A a \in rows : a.display
  <2> DEFINE R(a) == [fullTitle |-> a, display |-> TRUE]
  <2>1. \A a \in g.actions : R(a) \in ActionRows /\ R(a).fullTitle = a /\ R(a).display
    BY <1>1 DEF ActionRows, ActionNames
  <2>2. rows = {R(a) : a \in g.actions}
    OBVIOUS
  <2> HIDE DEF R, rows
  <2> QED
    BY <2>1, <2>2
<1> HIDE DEF rows
<1>7. m \in GroupRows
  BY <1>3, <1>4, <1>5, <1>6 DEF GroupRows
<1>8. m.groupName = g.groupName /\ m.actions = rows
  BY <1>3
<1> QED
  BY <1>6, <1>7, <1>8 DEF TitlesOf, m

LEMMA AnswerGrouped ==
    ASSUME NEW response \in ActionsAnswers
    PROVE  GroupsFit(mapActions(response))
<1> DEFINE names == DOMAIN response
           groups == getGroupNames(names)
           S == {mapGroup(g, response) : g \in groups}
           rows == mapActions(response)
<1>1. IsFiniteSet(names) /\ names \in SUBSET ActionNames
  BY StateActionsAssumption DEF ActionNames
<1>2. GroupsApart(groups, names)
  BY <1>1, NamesGrouped
<1> HIDE DEF groups
<1>3. ASSUME NEW g \in groups
      PROVE  LET m == mapGroup(g, response)
             IN  /\ m \in GroupRows /\ m.groupName = g.groupName /\ TitlesOf(m) = g.actions
                 /\ m.actions # {} /\ \A a \in m.actions : a.display
  <2>1. g \in [groupName: ActionNames, actions: SUBSET DOMAIN response] /\ g.actions # {}
    BY <1>2 DEF GroupsApart
  <2> QED
    BY <2>1, GroupMapped
<1>4. IsFiniteSet(S)
  <2> DEFINE f == [g \in groups |-> mapGroup(g, response)]
  <2>1. DOMAIN f = groups /\ {f[g] : g \in DOMAIN f} = S
    OBVIOUS
  <2>2. IsFiniteSet(groups)
    BY <1>2 DEF GroupsApart
  <2> HIDE DEF f, S
  <2> QED
    BY <2>1, <2>2, FinitelyMany
<1>5. rows = SetToSeq(S)
  BY DEF mapActions, groups
<1> HIDE DEF rows
<1>6. rows \in Seq(S) /\ \A i, j \in DOMAIN rows : rows[i] = rows[j] => i = j
  <2> HIDE DEF S
  <2> QED
    BY <1>4, <1>5, SetListed
<1>7. \A r \in S : \E g \in groups : r = mapGroup(g, response)
  OBVIOUS
<1>8. S \subseteq GroupRows
  BY <1>3
<1> HIDE DEF S
<1>9. ToSet(rows) \subseteq S /\ \A i \in DOMAIN rows : rows[i] \in S
  <2>1. \A i \in DOMAIN rows : rows[i] \in S
    BY <1>6
  <2> QED
    BY <2>1 DEF ToSet
<1>10. ASSUME NEW r \in S, NEW q \in S, r # q PROVE TitlesOf(r) \cap TitlesOf(q) = {}
  <2>1. PICK g \in groups : r = mapGroup(g, response)
    BY <1>7
  <2>2. PICK h \in groups : q = mapGroup(h, response)
    BY <1>7
  <2>3. g # h
    BY <1>10, <2>1, <2>2
  <2>4. TitlesOf(r) = g.actions /\ TitlesOf(q) = h.actions
    BY <1>3, <2>1, <2>2
  <2> QED
    BY <1>2, <2>3, <2>4 DEF GroupsApart
<1>11. ASSUME NEW r \in S
       PROVE  /\ r.actions # {} /\ \A a \in r.actions : a.display
              /\ \A t \in TitlesOf(r) : IsPrefix(r.groupName, t)
  <2>1. PICK g \in groups : r = mapGroup(g, response)
    BY <1>7
  <2>2. \A a \in g.actions : IsPrefix(g.groupName, a)
    BY <1>2 DEF GroupsApart
  <2> QED
    BY <1>3, <2>1, <2>2
<1>12. Distinct(rows, "actions")
  <2> SUFFICES ASSUME NEW i \in DOMAIN rows, NEW j \in DOMAIN rows, rows[i].actions = rows[j].actions PROVE i = j
    BY DEF Distinct
  <2>1. rows[i] \in S /\ rows[j] \in S
    BY <1>9
  <2>2. TitlesOf(rows[i]) = TitlesOf(rows[j]) /\ TitlesOf(rows[i]) # {}
    BY <1>11, <2>1 DEF TitlesOf
  <2>3. rows[i] = rows[j]
    BY <1>10, <2>1, <2>2
  <2> QED
    BY <1>6, <2>3
<1>13. rows \in Seq(GroupRows)
  BY <1>6, <1>8
<1> QED
  BY <1>9, <1>10, <1>11, <1>12, <1>13 DEF GroupsFit, rows

ActionsSorts ==
    [sortBy: {"totalTime", "meanTime", "count"}, sortDirection: {"ascending", "descending"}]

LEMMA GroupsComparable ==
    ASSUME NEW rows \in Seq(GroupRows), NEW s \in ActionsSorts
    PROVE  Comparable(rows, s)
<1>1. \A g \in GroupRows : g.totalTime \in Nat /\ g.meanTime \in Nat /\ g.count \in Nat
  BY DEF GroupRows
<1>2. s.sortBy \in {"totalTime", "meanTime", "count"}
  BY DEF ActionsSorts
<1>3. \A i \in DOMAIN rows : rows[i] \in GroupRows
  OBVIOUS
<1>4. \A g \in GroupRows : g[s.sortBy] \in Int
  BY <1>1, <1>2
<1> QED
  BY <1>3, <1>4 DEF Comparable

LEMMA GroupsSorted ==
    ASSUME NEW rows, GroupsFit(rows), NEW s \in ActionsSorts
    PROVE  GroupsFit(sort(rows, s)) /\ SortedBy(sort(rows, s), s)
<1>1. rows \in Seq(GroupRows) /\ Distinct(rows, "actions")
  BY DEF GroupsFit
<1>2. Comparable(rows, s)
  BY <1>1, GroupsComparable
<1>3. sort(rows, s) \in Seq(GroupRows) /\ ToSet(sort(rows, s)) = ToSet(rows) /\ SortedBy(sort(rows, s), s)
  BY <1>1, <1>2, SortRows
<1>4. Distinct(sort(rows, s), "actions")
  BY <1>1, <1>2, SortDistinct
<1> QED
  BY <1>3, <1>4 DEF GroupsFit

LEMMA GroupsOnce == ASSUME NEW rows, GroupsFit(rows), NEW i \in DOMAIN rows, NEW j \in DOMAIN rows
                    PROVE  /\ i # j => TitlesOf(rows[i]) \cap TitlesOf(rows[j]) = {}
                           /\ \A t \in TitlesOf(rows[i]) : IsPrefix(rows[i].groupName, t)
<1>1. rows[i] \in ToSet(rows) /\ rows[j] \in ToSet(rows)
  BY DEF ToSet
<1>2. i # j => rows[i] # rows[j]
  BY DEF GroupsFit, Distinct
<1> QED
  BY <1>1, <1>2 DEF GroupsFit

\* The groups as the search leaves them.
PlainOf(g) == <<g.groupName, TitlesOf(g)>>

Matching(a, word) == word = "" \/ word \in ToSet(a.fullTitle)

FoundFit(found, groups, word) ==
    /\ found \in Seq(GroupRows)
    /\ {PlainOf(g) : g \in ToSet(found)} = {PlainOf(g) : g \in ToSet(groups)}
    /\ \A g \in ToSet(found) : /\ \A a \in g.actions : a.display = Matching(a, word)
                               /\ g.display = \E a \in g.actions : a.display

SearchedGroup(g, word) ==
    IF word = "" THEN [g EXCEPT !.display = TRUE]
    ELSE LET Found(a) == word \in ToSet(a.fullTitle)
         IN  [g EXCEPT !.actions = {[a EXCEPT !.display = Found(a)] : a \in @},
                       !.display = \E a \in g.actions : Found(a)]

LEMMA GroupSearched ==
    ASSUME NEW g \in GroupRows, g.actions # {}, \A a \in g.actions : a.display, NEW word
    PROVE  LET f == SearchedGroup(g, word)
           IN  /\ f \in GroupRows /\ PlainOf(f) = PlainOf(g)
               /\ f.count = g.count /\ f.totalTime = g.totalTime /\ f.meanTime = g.meanTime
               /\ \A a \in f.actions : a.display = Matching(a, word)
               /\ f.display = \E a \in f.actions : a.display
<1> DEFINE f == SearchedGroup(g, word)
<1>1. CASE word = ""
  <2>1. f = [g EXCEPT !.display = TRUE]
    BY <1>1 DEF SearchedGroup
  <2> HIDE DEF f
  <2>2. /\ f \in GroupRows /\ f.groupName = g.groupName /\ f.actions = g.actions /\ f.display = TRUE
        /\ f.count = g.count /\ f.totalTime = g.totalTime /\ f.meanTime = g.meanTime
    BY <2>1 DEF GroupRows
  <2>3. ASSUME NEW a \in f.actions PROVE a.display = Matching(a, word) /\ a.display
    <3>1. a \in ActionRows /\ a.display /\ a.display \in BOOLEAN
      BY <2>2 DEF GroupRows, ActionRows
    <3>2. Matching(a, word)
      BY <1>1 DEF Matching
    <3> QED
      BY <3>1, <3>2 DEF Matching
  <2>4. \E a \in f.actions : a.display
    BY <2>2, <2>3
  <2> QED
    BY <2>2, <2>3, <2>4 DEF PlainOf, TitlesOf, f
<1>2. CASE word # ""
  <2> DEFINE Found(a) == word \in ToSet(a.fullTitle)
             R(a) == [a EXCEPT !.display = Found(a)]
             rows == {R(a) : a \in g.actions}
             some == \E a \in g.actions : Found(a)
  <2>1. f = [g EXCEPT !.actions = rows, !.display = some]
    BY <1>2 DEF SearchedGroup
  <2>2. ASSUME NEW a \in g.actions PROVE R(a) \in ActionRows /\ R(a).fullTitle = a.fullTitle /\ R(a).display = Found(a)
    <3>1. a \in ActionRows
      BY DEF GroupRows
    <3>2. Found(a) \in BOOLEAN
      OBVIOUS
    <3> HIDE DEF Found
    <3> QED
      BY <3>1, <3>2 DEF ActionRows
  <2>3. some \in BOOLEAN
    OBVIOUS
  <2> HIDE DEF f, R, some
  <2>4. rows \in SUBSET ActionRows /\ {a.fullTitle : a \in rows} = {a.fullTitle : a \in g.actions}
    BY <2>2
  <2>5. \A a \in rows : a.display = Found(a)
    <3> SUFFICES ASSUME NEW b \in g.actions PROVE R(b).display = Found(R(b))
      OBVIOUS
    <3> QED
      BY <2>2
  <2>6. some = \E a \in rows : a.display
    <3>1. \A a \in g.actions : R(a).display = Found(a)
      BY <2>2
    <3>2. (\E a \in rows : a.display) <=> some
      BY <3>1 DEF some
    <3> QED
      BY <3>2 DEF some
  <2> HIDE DEF rows
  <2>7. /\ f \in GroupRows /\ f.groupName = g.groupName /\ f.actions = rows /\ f.display = some
        /\ f.count = g.count /\ f.totalTime = g.totalTime /\ f.meanTime = g.meanTime
    BY <2>1, <2>3, <2>4 DEF GroupRows
  <2>8. \A a \in rows : Matching(a, word) = Found(a)
    <3> SUFFICES ASSUME NEW a \in rows PROVE Matching(a, word) = Found(a)
      OBVIOUS
    <3>1. Matching(a, word) <=> Found(a)
      BY <1>2 DEF Matching
    <3>2. Matching(a, word) \in BOOLEAN /\ Found(a) \in BOOLEAN
      BY DEF Matching
    <3> QED
      BY <3>1, <3>2
  <2>9. \A a \in f.actions : a.display = Matching(a, word)
    BY <2>5, <2>7, <2>8
  <2>10. PlainOf(f) = PlainOf(g)
    BY <2>4, <2>7 DEF PlainOf, TitlesOf
  <2>11. f.display = \E a \in f.actions : a.display
    BY <2>6, <2>7
  <2> QED
    BY <2>7, <2>9, <2>10, <2>11 DEF f
<1> QED
  BY <1>1, <1>2

\* A search keeps the groups and their order, whatever column they are sorted by.
LEMMA GroupsSearched ==
    ASSUME NEW groups, GroupsFit(groups), NEW word
    PROVE  LET found == searchActionsInGroups(word, groups)
           IN  /\ FoundFit(found, groups, word)
               /\ \A s \in ActionsSorts : SortedBy(groups, s) => SortedBy(found, s)
<1> DEFINE found == searchActionsInGroups(word, groups)
<1>1. found = [i \in DOMAIN groups |-> SearchedGroup(groups[i], word)]
  BY DEF searchActionsInGroups, SearchedGroup
<1>2. groups \in Seq(GroupRows) /\ \A g \in ToSet(groups) : g.actions # {} /\ \A a \in g.actions : a.display
  BY DEF GroupsFit
<1> HIDE DEF found
<1> DEFINE F(i) == SearchedGroup(groups[i], word)
<1>3. ASSUME NEW i \in DOMAIN groups
      PROVE  /\ F(i) \in GroupRows /\ PlainOf(F(i)) = PlainOf(groups[i])
             /\ F(i).count = groups[i].count /\ F(i).totalTime = groups[i].totalTime /\ F(i).meanTime = groups[i].meanTime
             /\ \A a \in F(i).actions : a.display = Matching(a, word)
             /\ F(i).display = \E a \in F(i).actions : a.display
  <2>1. groups[i] \in GroupRows /\ groups[i] \in ToSet(groups)
    BY <1>2 DEF ToSet
  <2>2. groups[i].actions # {} /\ \A a \in groups[i].actions : a.display
    BY <1>2, <2>1
  <2> QED
    BY <2>1, <2>2, GroupSearched
<1>4. DOMAIN found = DOMAIN groups /\ \A i \in DOMAIN groups : found[i] = F(i)
  BY <1>1
<1> HIDE DEF F
<1>5. found \in Seq(GroupRows)
  <2>1. DOMAIN groups = 1..Len(groups) /\ Len(groups) \in Nat
    BY <1>2
  <2>2. found = [i \in 1..Len(groups) |-> F(i)]
    BY <1>1, <2>1 DEF F
  <2>3. \A i \in 1..Len(groups) : F(i) \in GroupRows
    BY <1>3, <2>1
  <2> HIDE DEF GroupRows
  <2> QED
    BY <2>1, <2>2, <2>3
<1>6. {PlainOf(g) : g \in ToSet(found)} = {PlainOf(g) : g \in ToSet(groups)}
  <2>1. \A i \in DOMAIN groups : PlainOf(found[i]) = PlainOf(groups[i])
    BY <1>3, <1>4
  <2>2. {PlainOf(g) : g \in ToSet(found)} = {PlainOf(found[i]) : i \in DOMAIN groups}
    BY <1>4 DEF ToSet
  <2>3. {PlainOf(g) : g \in ToSet(groups)} = {PlainOf(groups[i]) : i \in DOMAIN groups}
    BY DEF ToSet
  <2> QED
    BY <2>1, <2>2, <2>3
<1>7. ASSUME NEW g \in ToSet(found)
      PROVE  (\A a \in g.actions : a.display = Matching(a, word)) /\ g.display = \E a \in g.actions : a.display
  <2>1. PICK i \in DOMAIN groups : g = F(i)
    BY <1>4 DEF ToSet
  <2> QED
    BY <1>3, <2>1
<1>8. FoundFit(found, groups, word)
  BY <1>5, <1>6, <1>7 DEF FoundFit
<1>9. ASSUME NEW s \in ActionsSorts, SortedBy(groups, s) PROVE SortedBy(found, s)
  <2>1. s.sortBy \in {"totalTime", "meanTime", "count"}
    BY DEF ActionsSorts
  <2>2. ASSUME NEW i \in DOMAIN groups PROVE found[i][s.sortBy] = groups[i][s.sortBy]
    <3>1. found[i].totalTime = groups[i].totalTime /\ found[i].meanTime = groups[i].meanTime
          /\ found[i].count = groups[i].count
      BY <1>3, <1>4
    <3> QED
      BY <2>1, <3>1
  <2> QED
    BY <1>4, <1>9, <2>2 DEF SortedBy
<1> QED
  BY <1>8, <1>9 DEF found

LEMMA FoundSorted ==
    ASSUME NEW groups, NEW word, NEW found, FoundFit(found, groups, word), NEW s \in ActionsSorts
    PROVE  FoundFit(sort(found, s), groups, word) /\ SortedBy(sort(found, s), s)
<1>1. found \in Seq(GroupRows)
  BY DEF FoundFit
<1>2. Comparable(found, s)
  BY <1>1, GroupsComparable
<1>3. sort(found, s) \in Seq(GroupRows) /\ ToSet(sort(found, s)) = ToSet(found) /\ SortedBy(sort(found, s), s)
  BY <1>1, <1>2, SortRows
<1> QED
  BY <1>3 DEF FoundFit

ActionsSlice(a) ==
    a = [groups |-> a.groups, filteredGroups |-> a.filteredGroups, openSidePanel |-> a.openSidePanel,
         activeSlot |-> a.activeSlot, earliestSlot |-> a.earliestSlot, activeSearch |-> a.activeSearch,
         slotOf |-> a.slotOf, currentSort |-> a.currentSort]

ActionsFit(a) ==
    /\ ActionsSlice(a) /\ a.currentSort \in ActionsSorts /\ GroupsFit(a.groups)
    /\ FoundFit(a.filteredGroups, a.groups, a.activeSearch) /\ SortedBy(a.filteredGroups, a.currentSort)

ActionsAsked(q) ==
    /\ q = [earliest |-> q.earliest, actions |-> q.actions, force |-> q.force]
    /\ q.actions = {} \/ \E slot : q.actions = {[slot |-> slot]}

ActionsInv ==
    /\ ActionsFit(stateActions) /\ ActionsAsked(stateActionsReq) /\ SlotActionsFit
    /\ page \notin {"state-actions", "ended"} =>
         stateActions = initialStateActions /\ stateActionsReq = initialStateActionsReq

LEMMA ActionsInvSound == ActionsInv => ActionsSound
<1> SUFFICES ASSUME ActionsInv PROVE ActionsSound
  OBVIOUS
<1> DEFINE groups == stateActions.groups
           found == stateActions.filteredGroups
           word == stateActions.activeSearch
<1>1. GroupsFit(groups) /\ FoundFit(found, groups, word) /\ SortedBy(found, stateActions.currentSort) /\ SlotActionsFit
  BY DEF ActionsInv, ActionsFit
<1>2. ActionsFound
  BY <1>1 DEF ActionsFound, FoundFit, PlainOf, TitlesOf, Matching
<1>3. ActionsGrouped
  <2>1. \A i, j \in DOMAIN groups : /\ i # j => TitlesOf(groups[i]) \cap TitlesOf(groups[j]) = {}
                                    /\ \A t \in TitlesOf(groups[i]) : IsPrefix(groups[i].groupName, t)
    <3> HIDE DEF groups
    <3> QED
      BY <1>1, GroupsOnce
  <2> QED
    BY <2>1 DEF ActionsGrouped, TitlesOf
<1> QED
  BY <1>1, <1>2, <1>3 DEF ActionsSound

LEMMA ActionsInitial ==
    ActionsFit(initialStateActions) /\ ActionsAsked(initialStateActionsReq)
    /\ initialStateActions.activeSlot = NoSlot /\ initialStateActionsReq.actions = {}
<1> DEFINE none == <<>>
           s == [sortBy |-> "totalTime", sortDirection |-> "descending"]
<1>1. none \in Seq(GroupRows) /\ ToSet(none) = {} /\ DOMAIN none = {}
  BY DEF ToSet
<1>2. s \in ActionsSorts
  BY DEF ActionsSorts
<1> HIDE DEF none
<1>3. GroupsFit(none)
  BY <1>1 DEF GroupsFit, Distinct
<1>4. FoundFit(none, none, "") /\ SortedBy(none, s)
  BY <1>1 DEF FoundFit, SortedBy
<1>5. initialStateActions =
        [groups |-> none, filteredGroups |-> none, openSidePanel |-> isDesktop, activeSlot |-> NoSlot,
         earliestSlot |-> NoSlot, activeSearch |-> "", slotOf |-> NoSlot, currentSort |-> s]
  BY DEF initialStateActions, none
<1> HIDE DEF s
<1>6. ActionsFit(initialStateActions) /\ initialStateActions.activeSlot = NoSlot
  BY <1>2, <1>3, <1>4, <1>5 DEF ActionsFit, ActionsSlice
<1>7. ActionsAsked(initialStateActionsReq) /\ initialStateActionsReq.actions = {}
  BY DEF ActionsAsked, initialStateActionsReq
<1> QED
  BY <1>6, <1>7

LEMMA SlotAsked ==
    ASSUME NEW q, ActionsAsked(q), NEW slot
    PROVE  ActionsAsked(getActions(q, slot)) /\ getActions(q, slot).actions = {[slot |-> slot]}
<1>1. getActions(q, slot) = [q EXCEPT !.actions = {[slot |-> slot]}]
  BY DEF getActions, switchMap
<1> DEFINE one == {[slot |-> slot]}
<1>2. \E x : one = {[slot |-> x]}
  OBVIOUS
<1> HIDE DEF one
<1>3. [q EXCEPT !.actions = one] = [earliest |-> q.earliest, actions |-> one, force |-> q.force]
  BY DEF ActionsAsked
<1>4. ActionsAsked([q EXCEPT !.actions = one]) /\ [q EXCEPT !.actions = one].actions = one
  BY <1>2, <1>3 DEF ActionsAsked
<1> QED
  BY <1>1, <1>4 DEF one

LEMMA AskedKept ==
    ASSUME NEW q, ActionsAsked(q), NEW v
    PROVE  /\ ActionsAsked([q EXCEPT !.force = v]) /\ [q EXCEPT !.force = v].actions = q.actions
           /\ ActionsAsked([q EXCEPT !.earliest = v]) /\ [q EXCEPT !.earliest = v].actions = q.actions
<1>1. [q EXCEPT !.force = v] = [earliest |-> q.earliest, actions |-> q.actions, force |-> v]
  BY DEF ActionsAsked
<1>2. [q EXCEPT !.earliest = v] = [earliest |-> v, actions |-> q.actions, force |-> q.force]
  BY DEF ActionsAsked
<1> QED
  BY <1>1, <1>2 DEF ActionsAsked

\* The fields that are not about the groups may be set to anything.
LEMMA SlotSet ==
    ASSUME NEW a, ActionsFit(a), NEW v
    PROVE  LET b == [a EXCEPT !.activeSlot = v]
           IN  ActionsFit(b) /\ b.activeSlot = v /\ b.slotOf = a.slotOf
<1> DEFINE b == [a EXCEPT !.activeSlot = v]
<1>1. b =
        [groups |-> a.groups, filteredGroups |-> a.filteredGroups, openSidePanel |-> a.openSidePanel,
         activeSlot |-> v, earliestSlot |-> a.earliestSlot, activeSearch |-> a.activeSearch,
         slotOf |-> a.slotOf, currentSort |-> a.currentSort]
  BY DEF ActionsFit, ActionsSlice
<1> HIDE DEF b
<1>2. ActionsFit(b) /\ b.activeSlot = v /\ b.slotOf = a.slotOf
  BY <1>1 DEF ActionsFit, ActionsSlice
<1> QED
  BY <1>2 DEF b

LEMMA EarliestSet ==
    ASSUME NEW a, ActionsFit(a), NEW v
    PROVE  LET b == [a EXCEPT !.earliestSlot = v]
           IN  ActionsFit(b) /\ b.activeSlot = a.activeSlot /\ b.slotOf = a.slotOf
<1> DEFINE b == [a EXCEPT !.earliestSlot = v]
<1>1. b =
        [groups |-> a.groups, filteredGroups |-> a.filteredGroups, openSidePanel |-> a.openSidePanel,
         activeSlot |-> a.activeSlot, earliestSlot |-> v, activeSearch |-> a.activeSearch,
         slotOf |-> a.slotOf, currentSort |-> a.currentSort]
  BY DEF ActionsFit, ActionsSlice
<1> HIDE DEF b
<1>2. ActionsFit(b) /\ b.activeSlot = a.activeSlot /\ b.slotOf = a.slotOf
  BY <1>1 DEF ActionsFit, ActionsSlice
<1> QED
  BY <1>2 DEF b

LEMMA PanelSet ==
    ASSUME NEW a, ActionsFit(a), NEW v
    PROVE  LET b == [a EXCEPT !.openSidePanel = v]
           IN  ActionsFit(b) /\ b.activeSlot = a.activeSlot /\ b.slotOf = a.slotOf
<1> DEFINE b == [a EXCEPT !.openSidePanel = v]
<1>1. b =
        [groups |-> a.groups, filteredGroups |-> a.filteredGroups, openSidePanel |-> v,
         activeSlot |-> a.activeSlot, earliestSlot |-> a.earliestSlot, activeSearch |-> a.activeSearch,
         slotOf |-> a.slotOf, currentSort |-> a.currentSort]
  BY DEF ActionsFit, ActionsSlice
<1> HIDE DEF b
<1>2. ActionsFit(b) /\ b.activeSlot = a.activeSlot /\ b.slotOf = a.slotOf
  BY <1>1 DEF ActionsFit, ActionsSlice
<1> QED
  BY <1>2 DEF b

LEMMA ActionsReduced ==
    ASSUME ActionsFit(stateActions), NEW slot, NEW response \in ActionsAnswers
    PROVE  LET a == GetActionsReduced(slot, response)
           IN  ActionsFit(a) /\ a.slotOf = slot /\ a.activeSlot = stateActions.activeSlot
<1> DEFINE s == stateActions.currentSort
           word == stateActions.activeSearch
           groups == sort(mapActions(response), s)
           found == searchActionsInGroups(word, groups)
           a == GetActionsReduced(slot, response)
<1>1. s \in ActionsSorts
  BY DEF ActionsFit
<1>2. GroupsFit(groups) /\ SortedBy(groups, s)
  <2> DEFINE rows == mapActions(response)
  <2>1. GroupsFit(rows)
    BY AnswerGrouped
  <2> HIDE DEF rows, s
  <2>2. GroupsFit(sort(rows, s)) /\ SortedBy(sort(rows, s), s)
    BY <1>1, <2>1, GroupsSorted
  <2> QED
    BY <2>2 DEF rows
<1>3. FoundFit(found, groups, word) /\ SortedBy(found, s)
  <2> HIDE DEF groups, word, s
  <2> QED
    BY <1>1, <1>2, GroupsSearched
<1>4. a = [stateActions EXCEPT !.groups = groups, !.slotOf = slot, !.filteredGroups = found]
  BY DEF GetActionsReduced
<1> HIDE DEF a, groups, found
<1>5. a = [groups |-> groups, filteredGroups |-> found, openSidePanel |-> stateActions.openSidePanel,
           activeSlot |-> stateActions.activeSlot, earliestSlot |-> stateActions.earliestSlot,
           activeSearch |-> stateActions.activeSearch, slotOf |-> slot, currentSort |-> stateActions.currentSort]
  BY <1>4 DEF ActionsFit, ActionsSlice
<1>6. ActionsFit(a) /\ a.slotOf = slot /\ a.activeSlot = stateActions.activeSlot
  BY <1>1, <1>2, <1>3, <1>5 DEF ActionsFit, ActionsSlice
<1> QED
  BY <1>6 DEF a

LEMMA ActionsSearched ==
    ASSUME ActionsFit(stateActions), NEW word
    PROVE  LET a == SearchReduced(word)
           IN  ActionsFit(a) /\ a.slotOf = stateActions.slotOf /\ a.activeSlot = stateActions.activeSlot
<1> DEFINE s == stateActions.currentSort
           groups == stateActions.groups
           found == sort(searchActionsInGroups(word, groups), s)
           a == SearchReduced(word)
<1>1. s \in ActionsSorts /\ GroupsFit(groups)
  BY DEF ActionsFit
<1>2. FoundFit(found, groups, word) /\ SortedBy(found, s)
  <2> HIDE DEF groups, s
  <2> DEFINE rows == searchActionsInGroups(word, groups)
  <2>1. FoundFit(rows, groups, word)
    BY <1>1, GroupsSearched
  <2> HIDE DEF rows
  <2>2. FoundFit(sort(rows, s), groups, word) /\ SortedBy(sort(rows, s), s)
    BY <1>1, <2>1, FoundSorted
  <2> QED
    BY <2>2 DEF rows
<1>3. a = [stateActions EXCEPT !.activeSearch = word, !.filteredGroups = found]
  BY DEF SearchReduced
<1> HIDE DEF a, found
<1>4. a = [groups |-> stateActions.groups, filteredGroups |-> found, openSidePanel |-> stateActions.openSidePanel,
           activeSlot |-> stateActions.activeSlot, earliestSlot |-> stateActions.earliestSlot,
           activeSearch |-> word, slotOf |-> stateActions.slotOf, currentSort |-> stateActions.currentSort]
  BY <1>3 DEF ActionsFit, ActionsSlice
<1>5. ActionsFit(a) /\ a.slotOf = stateActions.slotOf /\ a.activeSlot = stateActions.activeSlot
  BY <1>1, <1>2, <1>4 DEF ActionsFit, ActionsSlice
<1> QED
  BY <1>5 DEF a

LEMMA SortSet ==
    ASSUME NEW b, ActionsSlice(b), NEW v, NEW w
    PROVE  [b EXCEPT !.currentSort = v, !.filteredGroups = w] =
           [groups |-> b.groups, filteredGroups |-> w, openSidePanel |-> b.openSidePanel,
            activeSlot |-> b.activeSlot, earliestSlot |-> b.earliestSlot,
            activeSearch |-> b.activeSearch, slotOf |-> b.slotOf, currentSort |-> v]
<1> DEFINE c == [b EXCEPT !.currentSort = v, !.filteredGroups = w]
<1>1. c = [b EXCEPT !.currentSort = v, !.filteredGroups = w]
  OBVIOUS
<1> HIDE DEF c
<1>2. c = [groups |-> b.groups, filteredGroups |-> w, openSidePanel |-> b.openSidePanel,
           activeSlot |-> b.activeSlot, earliestSlot |-> b.earliestSlot,
           activeSearch |-> b.activeSearch, slotOf |-> b.slotOf, currentSort |-> v]
  BY <1>1 DEF ActionsSlice
<1> QED
  BY <1>2 DEF c

LEMMA ActionsOrdered ==
    ASSUME ActionsFit(stateActions), NEW column \in {"totalTime", "meanTime", "count"}
    PROVE  LET s == sortTable(stateActions.currentSort, column)
               a == [stateActions EXCEPT !.currentSort = s, !.filteredGroups = sort(@, s)]
           IN  ActionsFit(a) /\ a.slotOf = stateActions.slotOf /\ a.activeSlot = stateActions.activeSlot
<1> DEFINE s == sortTable(stateActions.currentSort, column)
           found == sort(stateActions.filteredGroups, s)
           a == [stateActions EXCEPT !.currentSort = s, !.filteredGroups = found]
<1>1. s \in ActionsSorts
  <2> DEFINE c == stateActions.currentSort
             d == IF column # c.sortBy THEN c.sortDirection
                  ELSE IF c.sortDirection = "ascending" THEN "descending" ELSE "ascending"
  <2>1. c.sortDirection \in {"ascending", "descending"}
    BY DEF ActionsFit, ActionsSorts
  <2>2. s = [sortBy |-> column, sortDirection |-> d]
    BY DEF sortTable
  <2> HIDE DEF c, s
  <2>3. d \in {"ascending", "descending"}
    BY <2>1
  <2> HIDE DEF d
  <2> QED
    BY <2>2, <2>3 DEF ActionsSorts
<1> HIDE DEF s
<1>2. FoundFit(found, stateActions.groups, stateActions.activeSearch) /\ SortedBy(found, s)
  BY <1>1, FoundSorted DEF ActionsFit
<1>3. [stateActions EXCEPT !.currentSort = s, !.filteredGroups = sort(@, s)] = a
  BY DEF ActionsFit, ActionsSlice
<1> HIDE DEF found
<1>4. a = [groups |-> stateActions.groups, filteredGroups |-> found, openSidePanel |-> stateActions.openSidePanel,
           activeSlot |-> stateActions.activeSlot, earliestSlot |-> stateActions.earliestSlot,
           activeSearch |-> stateActions.activeSearch, slotOf |-> stateActions.slotOf, currentSort |-> s]
  BY SortSet DEF ActionsFit
<1> HIDE DEF a
<1>5. ActionsFit(a) /\ a.slotOf = stateActions.slotOf /\ a.activeSlot = stateActions.activeSlot
  BY <1>1, <1>2, <1>4 DEF ActionsFit, ActionsSlice
<1> QED
  BY <1>3, <1>5 DEF s

\* A step that keeps the slots and the requests for actions keeps them together.
LEMMA ActionsControlled ==
    ASSUME ActionsInv, page = "state-actions", page' = page, ActionsFit(stateActions'), ActionsAsked(stateActionsReq'),
           stateActions'.activeSlot = stateActions.activeSlot, stateActions'.slotOf = stateActions.slotOf,
           stateActionsReq'.actions = stateActionsReq.actions
    PROVE  ActionsInv'
<1>1. SlotActionsFit'
  BY DEF ActionsInv, SlotActionsFit
<1> QED
  BY <1>1 DEF ActionsInv

\* The page is taken to a slot, whose actions are asked for.
LEMMA ActionsTaken ==
    ASSUME NEW slot, page' = "state-actions", ActionsFit(stateActions'), ActionsAsked(stateActionsReq'),
           stateActions'.activeSlot = slot, stateActionsReq'.actions = {[slot |-> slot]}
    PROVE  ActionsInv'
<1>1. {r.slot : r \in stateActionsReq'.actions} = {slot}
  OBVIOUS
<1>2. SlotActionsFit'
  BY <1>1 DEF SlotActionsFit
<1> QED
  BY <1>2 DEF ActionsInv

LEMMA ActionsStep == ActionsInv /\ page # "ended" /\ StateActionsNext => ActionsInv'
<1> SUFFICES ASSUME ActionsInv, page # "ended", StateActionsNext PROVE ActionsInv'
  OBVIOUS
<1>0. /\ ActionsFit(stateActions) /\ ActionsAsked(stateActionsReq) /\ SlotActionsFit
      /\ page # "state-actions" => stateActions = initialStateActions /\ stateActionsReq = initialStateActionsReq
  BY DEF ActionsInv
<1>1. CASE StateActionsOpen
  <2>1. page = "none" /\ page' = "state-actions"
    BY <1>1 DEF StateActionsOpen, Enter
  <2>2. PICK slot \in Slots \cup {NoSlot} :
          /\ stateActions' = [stateActions EXCEPT !.activeSlot = slot]
          /\ stateActionsReq' = [IF slot = NoSlot THEN stateActionsReq ELSE getActions(stateActionsReq, slot)
                                 EXCEPT !.force = TRUE]
    BY <1>1 DEF StateActionsOpen
  <2>3. ActionsFit(stateActions') /\ stateActions'.activeSlot = slot
    BY <1>0, <2>2, SlotSet
  <2> DEFINE q == IF slot = NoSlot THEN stateActionsReq ELSE getActions(stateActionsReq, slot)
             yes == TRUE
  <2>4. stateActionsReq' = [q EXCEPT !.force = yes]
    BY <2>2
  <2>5. ActionsAsked(q) /\ (slot # NoSlot => q.actions = {[slot |-> slot]})
    BY <1>0, SlotAsked
  <2> HIDE DEF q, yes
  <2>6. ActionsAsked(stateActionsReq') /\ stateActionsReq'.actions = q.actions
    BY <2>4, <2>5, AskedKept
  <2>7. CASE slot = NoSlot
    <3>1. SlotActionsFit'
      BY <2>3, <2>7 DEF SlotActionsFit
    <3> QED
      BY <2>1, <2>3, <2>6, <3>1 DEF ActionsInv
  <2>8. CASE slot # NoSlot
    BY <2>1, <2>3, <2>5, <2>6, <2>8, ActionsTaken
  <2> QED
    BY <2>7, <2>8
<1>2. CASE StateActionsNodeChange
  <2> DEFINE yes == TRUE
  <2>1. /\ page = "state-actions" /\ page' = page /\ stateActions' = stateActions
        /\ stateActionsReq' = [stateActionsReq EXCEPT !.force = yes]
    BY <1>2 DEF StateActionsNodeChange, On
  <2> HIDE DEF yes
  <2>2. ActionsAsked(stateActionsReq') /\ stateActionsReq'.actions = stateActionsReq.actions
    BY <1>0, <2>1, AskedKept
  <2> QED
    BY <1>0, <2>1, <2>2, ActionsControlled
<1>3. CASE checkEarliestSlot
  <2> DEFINE no == FALSE
             asked == switchMap(stateActionsReq.earliest, [force |-> stateActionsReq.force, activeSlot |-> stateActions.activeSlot])
             q == [stateActionsReq EXCEPT !.force = no]
  <2>1. page = "state-actions" /\ page' = page /\ stateActions' = stateActions
    BY <1>3 DEF checkEarliestSlot, On
  <2>2. stateActionsReq' = [q EXCEPT !.earliest = asked]
    BY <1>3 DEF checkEarliestSlot, switchMap
  <2> HIDE DEF no, asked
  <2>3. ActionsAsked(q) /\ q.actions = stateActionsReq.actions
    BY <1>0, AskedKept
  <2> HIDE DEF q
  <2>4. ActionsAsked(stateActionsReq') /\ stateActionsReq'.actions = stateActionsReq.actions
    BY <2>2, <2>3, AskedKept
  <2> QED
    BY <1>0, <2>1, <2>4, ActionsControlled
<1>4. CASE GetEarliestSlotSuccess
  <2>1. PICK r \in stateActionsReq.earliest, slot \in Slots :
          LET req == [stateActionsReq EXCEPT !.earliest = Completed(@, r)]
              taken == r.force \/ r.activeSlot = NoSlot \/ r.activeSlot > slot
          IN  /\ stateActions' = [stateActions EXCEPT !.earliestSlot = slot, !.activeSlot = IF taken THEN slot ELSE @]
              /\ stateActionsReq' = IF taken THEN getActions(req, slot) ELSE req
    BY <1>4 DEF GetEarliestSlotSuccess
  <2>2. page' = page /\ page = "state-actions"
    <3>1. stateActionsReq.earliest # {}
      BY <2>1
    <3>2. initialStateActionsReq.earliest = {}
      BY DEF initialStateActionsReq
    <3> QED
      BY <1>0, <1>4, <3>1, <3>2 DEF GetEarliestSlotSuccess
  <2> DEFINE rest == Completed(stateActionsReq.earliest, r)
             req == [stateActionsReq EXCEPT !.earliest = rest]
             taken == r.force \/ r.activeSlot = NoSlot \/ r.activeSlot > slot
             to == IF taken THEN slot ELSE stateActions.activeSlot
             a == [stateActions EXCEPT !.earliestSlot = slot]
  <2>3. stateActions' = [a EXCEPT !.activeSlot = to] /\ stateActionsReq' = IF taken THEN getActions(req, slot) ELSE req
    <3>1. a.activeSlot = stateActions.activeSlot
      BY <1>0, EarliestSet
    <3>2. stateActionsReq' = IF taken THEN getActions(req, slot) ELSE req
      BY <2>1
    <3>3. stateActions' = [stateActions EXCEPT !.earliestSlot = slot, !.activeSlot = to]
      BY <2>1
    <3> HIDE DEF taken, req
    <3>4. stateActions' = [a EXCEPT !.activeSlot = to]
      BY <3>3
    <3> QED
      BY <3>2, <3>4
  <2> HIDE DEF rest, taken
  <2>4. ActionsFit(a) /\ a.activeSlot = stateActions.activeSlot /\ a.slotOf = stateActions.slotOf
    BY <1>0, EarliestSet
  <2>5. ActionsAsked(req) /\ req.actions = stateActionsReq.actions
    BY <1>0, AskedKept
  <2> HIDE DEF a, req
  <2>6. ActionsFit(stateActions') /\ stateActions'.activeSlot = to /\ stateActions'.slotOf = stateActions.slotOf
    <3>1. stateActions' = [a EXCEPT !.activeSlot = to]
      BY <2>3
    <3> HIDE DEF to
    <3>2. /\ ActionsFit([a EXCEPT !.activeSlot = to]) /\ [a EXCEPT !.activeSlot = to].activeSlot = to
          /\ [a EXCEPT !.activeSlot = to].slotOf = a.slotOf
      BY <2>4, SlotSet
    <3> QED
      BY <2>4, <3>1, <3>2
  <2>7. CASE taken
    <3>1. ActionsAsked(stateActionsReq') /\ stateActionsReq'.actions = {[slot |-> slot]}
      BY <2>3, <2>5, <2>7, SlotAsked
    <3>2. stateActions'.activeSlot = slot
      BY <2>6, <2>7
    <3> QED
      BY <2>2, <2>6, <3>1, <3>2, ActionsTaken
  <2>8. CASE ~taken
    <3>1. stateActionsReq' = req /\ stateActions'.activeSlot = stateActions.activeSlot
      BY <2>3, <2>6, <2>8
    <3> QED
      BY <2>2, <2>5, <2>6, <3>1, ActionsControlled
  <2> QED
    BY <2>7, <2>8
<1>5. CASE GetEarliestSlotError
  <2> DEFINE none == catchErrorAndRepeat(stateActionsReq.earliest)
             slot == NoSlot
  <2>1. /\ stateActionsReq.earliest # {} /\ page' = page /\ stateActions' = [stateActions EXCEPT !.earliestSlot = slot]
        /\ stateActionsReq' = [stateActionsReq EXCEPT !.earliest = none]
    BY <1>5 DEF GetEarliestSlotError
  <2>2. page = "state-actions"
    BY <1>0, <2>1 DEF initialStateActionsReq
  <2> HIDE DEF none, slot
  <2>3. ActionsAsked(stateActionsReq') /\ stateActionsReq'.actions = stateActionsReq.actions
    BY <1>0, <2>1, AskedKept
  <2>4. /\ ActionsFit(stateActions') /\ stateActions'.activeSlot = stateActions.activeSlot
        /\ stateActions'.slotOf = stateActions.slotOf
    BY <1>0, <2>1, EarliestSet
  <2> QED
    BY <2>1, <2>2, <2>3, <2>4, ActionsControlled
<1>6. CASE getSlot
  <2>1. page = "state-actions" /\ page' = page
    BY <1>6 DEF getSlot, On
  <2>2. PICK slot \in Slots : /\ stateActions' = [stateActions EXCEPT !.activeSlot = slot]
                              /\ stateActionsReq' = getActions(stateActionsReq, slot)
    BY <1>6 DEF getSlot
  <2>3. ActionsFit(stateActions') /\ stateActions'.activeSlot = slot
    BY <1>0, <2>2, SlotSet
  <2>4. ActionsAsked(stateActionsReq') /\ stateActionsReq'.actions = {[slot |-> slot]}
    BY <1>0, <2>2, SlotAsked
  <2> QED
    BY <2>1, <2>3, <2>4, ActionsTaken
<1>7. CASE GetActionsSuccess
  <2>1. PICK r \in stateActionsReq.actions, response \in ActionsAnswers :
          /\ stateActions' = GetActionsReduced(r.slot, response)
          /\ stateActionsReq' = [stateActionsReq EXCEPT !.actions = Completed(@, r)]
    BY <1>7 DEF GetActionsSuccess
  <2>2. page' = page /\ page = "state-actions"
    <3>1. stateActionsReq.actions # {}
      BY <2>1
    <3> QED
      BY <1>0, <1>7, <3>1 DEF GetActionsSuccess, initialStateActionsReq
  <2> DEFINE slot == r.slot
  <2>3. ActionsFit(stateActions') /\ stateActions'.slotOf = slot /\ stateActions'.activeSlot = stateActions.activeSlot
    <3> HIDE DEF slot
    <3>1. stateActions' = GetActionsReduced(slot, response)
      BY <2>1 DEF slot
    <3> QED
      BY <1>0, <3>1, ActionsReduced
  <2>4. PICK s : stateActionsReq.actions = {[slot |-> s]}
    BY <1>0, <2>1 DEF ActionsAsked
  <2>5. Completed(stateActionsReq.actions, r) = {} /\ r.slot = s
    BY <2>1, <2>4 DEF Completed
  <2> DEFINE none == {}
  <2>6. stateActionsReq' = [stateActionsReq EXCEPT !.actions = none]
    BY <2>1, <2>5
  <2>7. ActionsAsked(stateActionsReq') /\ stateActionsReq'.actions = none
    <3>1. stateActionsReq' = [earliest |-> stateActionsReq.earliest, actions |-> none, force |-> stateActionsReq.force]
      BY <1>0, <2>6 DEF ActionsAsked
    <3> QED
      BY <3>1 DEF ActionsAsked
  <2>8. stateActions.activeSlot # NoSlot => stateActions.activeSlot = slot
    <3>1. {q.slot : q \in stateActionsReq.actions} = {s}
      BY <2>4
    <3> QED
      BY <1>0, <2>2, <2>5, <3>1 DEF SlotActionsFit
  <2>9. SlotActionsFit'
    BY <2>3, <2>7, <2>8 DEF SlotActionsFit
  <2> QED
    BY <2>2, <2>3, <2>7, <2>9 DEF ActionsInv
<1>8. CASE GetActionsError
  <2>1. /\ page' = "ended" /\ stateActions' = stateActions
        /\ stateActionsReq' = [stateActionsReq EXCEPT !.actions = {}]
    BY <1>8 DEF GetActionsError, Throws, catchErrorAndRepeat
  <2>2. stateActionsReq' = [earliest |-> stateActionsReq.earliest, actions |-> {}, force |-> stateActionsReq.force]
    BY <1>0, <2>1 DEF ActionsAsked
  <2>3. ActionsAsked(stateActionsReq')
    BY <2>2 DEF ActionsAsked
  <2>4. SlotActionsFit'
    BY <2>1 DEF SlotActionsFit
  <2> QED
    BY <1>0, <2>1, <2>3, <2>4 DEF ActionsInv
<1>9. CASE StateActionsSort
  <2>1. page = "state-actions" /\ page' = page /\ stateActionsReq' = stateActionsReq
    BY <1>9 DEF StateActionsSort, On
  <2>2. PICK column \in {"totalTime", "meanTime", "count"} :
          LET s == sortTable(stateActions.currentSort, column)
          IN  stateActions' = [stateActions EXCEPT !.currentSort = s, !.filteredGroups = sort(@, s)]
    BY <1>9 DEF StateActionsSort
  <2>3. /\ ActionsFit(stateActions') /\ stateActions'.slotOf = stateActions.slotOf
        /\ stateActions'.activeSlot = stateActions.activeSlot
    BY <1>0, <2>2, ActionsOrdered
  <2> QED
    BY <1>0, <2>1, <2>3, ActionsControlled
<1>10. CASE StateActionsSearch
  <2>1. page = "state-actions" /\ page' = page /\ stateActionsReq' = stateActionsReq
    BY <1>10 DEF StateActionsSearch, On
  <2>2. PICK toSearch : stateActions' = SearchReduced(toSearch)
    BY <1>10 DEF StateActionsSearch
  <2>3. /\ ActionsFit(stateActions') /\ stateActions'.slotOf = stateActions.slotOf
        /\ stateActions'.activeSlot = stateActions.activeSlot
    BY <1>0, <2>2, ActionsSearched
  <2> QED
    BY <1>0, <2>1, <2>3, ActionsControlled
<1>11. CASE StateActionsToggleSidePanel
  <2> DEFINE open == ~stateActions.openSidePanel
  <2>1. /\ page = "state-actions" /\ page' = page /\ stateActionsReq' = stateActionsReq
        /\ stateActions' = [stateActions EXCEPT !.openSidePanel = open]
    BY <1>11 DEF StateActionsToggleSidePanel, On
  <2> HIDE DEF open
  <2>2. /\ ActionsFit(stateActions') /\ stateActions'.slotOf = stateActions.slotOf
        /\ stateActions'.activeSlot = stateActions.activeSlot
    BY <1>0, <2>1, PanelSet
  <2> QED
    BY <1>0, <2>1, <2>2, ActionsControlled
<1>12. CASE StateActionsClose
  <2>1. page' = "none" /\ stateActions' = initialStateActions /\ stateActionsReq' = initialStateActionsReq
    BY <1>12 DEF StateActionsClose, Leave
  <2>2. SlotActionsFit'
    BY <2>1 DEF SlotActionsFit
  <2> QED
    BY <2>1, <2>2, ActionsInitial DEF ActionsInv
<1> QED
  BY <1>1, <1>2, <1>3, <1>4, <1>5, <1>6, <1>7, <1>8, <1>9, <1>10, <1>11, <1>12 DEF StateActionsNext

LEMMA ActionsKept ==
    ASSUME ActionsInv, UNCHANGED stateActionsVars, page' # "state-actions" \/ page = "state-actions",
           page = "state-actions" => page' \in {"state-actions", "ended"}, page # "ended"
    PROVE  ActionsInv'
<1>1. stateActions' = stateActions /\ stateActionsReq' = stateActionsReq
  BY DEF stateActionsVars
<1>2. SlotActionsFit'
  BY <1>1 DEF ActionsInv, SlotActionsFit
<1> QED
  BY <1>1, <1>2 DEF ActionsInv

LEMMA ActionsAlways ==
    SessionInv /\ ActionsInv /\ [ToolPagesNext]_toolPagesVars => ActionsInv'
<1> SUFFICES ASSUME SessionInv, ActionsInv, [ToolPagesNext]_toolPagesVars PROVE ActionsInv'
  OBVIOUS
<1>1. ASSUME NEW p, p # "state-actions", Apart(p), page # "ended", UNCHANGED stateActionsVars PROVE ActionsInv'
  BY <1>1, ActionsKept DEF Apart
<1>2. CASE UNCHANGED toolPagesVars
  <2>1. UNCHANGED <<page, stateActions, stateActionsReq>>
    BY <1>2 DEF toolPagesVars, layoutVars, sectionVars, stateActionsVars
  <2> QED
    BY <2>1 DEF ActionsInv, SlotActionsFit
<1>3. CASE Reload
  <2>1. page' = "none" /\ stateActions' = initialStateActions /\ stateActionsReq' = initialStateActionsReq
    BY <1>3 DEF Reload
  <2>2. SlotActionsFit'
    BY <2>1 DEF SlotActionsFit
  <2> QED
    BY <2>1, <2>2, ActionsInitial DEF ActionsInv
<1>4. CASE page # "ended" /\ SectionNext
  <2>1. CASE WorkPoolNext /\ UNCHANGED stateActionsVars
    BY <1>1, <1>4, <2>1, WorkPoolApart
  <2>2. CASE ScanNext /\ UNCHANGED stateActionsVars
    BY <1>1, <1>4, <2>2, ScanApart
  <2>3. CASE StateActionsNext
    BY <1>4, <2>3, ActionsStep
  <2>4. CASE WalletsNext /\ UNCHANGED stateActionsVars
    BY <1>1, <1>4, <2>4, WalletsApart
  <2>5. CASE MempoolNext /\ UNCHANGED stateActionsVars
    BY <1>1, <1>4, <2>5, MempoolApart
  <2>6. CASE PickNode
    BY <1>1, <1>4, <2>6, PickNodeApart DEF PickNode, sectionVars
  <2> QED
    BY <1>4, <2>1, <2>2, <2>3, <2>4, <2>5, <2>6 DEF SectionNext
<1>5. CASE Framed /\ FrameNext /\ UNCHANGED sectionVars
  <2>1. page \in {"none", "dashboard"} /\ page' \in {"none", "dashboard"}
    BY <1>5, DashboardApart DEF SessionInv, FrameNext, layoutVars
  <2> QED
    BY <1>5, <2>1, ActionsKept DEF sectionVars
<1> QED
  BY <1>2, <1>3, <1>4, <1>5 DEF ToolPagesNext

\* The page of the actions shows those of the slot in its toolbar, or waits for them
\* alone; each action is counted in one group, with whose name it begins; and the
\* list is what the last search finds in the last answer, in the order the toolbar
\* says, whatever slots, answers, searches, sortings, failures and reloads came before.
THEOREM ActionsTheorem == ToolPagesSpec => []ActionsSound
<1>1. ToolPagesInit => ActionsInv
  <2> SUFFICES ASSUME ToolPagesInit PROVE ActionsInv
    OBVIOUS
  <2>1. stateActions = initialStateActions /\ stateActionsReq = initialStateActionsReq /\ page = "none"
    BY DEF ToolPagesInit, StateActionsInit, LayoutInit
  <2>2. SlotActionsFit
    BY <2>1 DEF SlotActionsFit
  <2> QED
    BY <2>1, <2>2, ActionsInitial DEF ActionsInv
<1> QED
  BY <1>1, SessionStart, SessionStep, ActionsAlways, ActionsInvSound, PTL DEF ToolPagesSpec
=============================================================================
