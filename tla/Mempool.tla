-------------------------------- MODULE Mempool --------------------------------
(***************************************************************************)
(* The page "Mempool": the transactions in the pool of the active node,    *)
(* asked for every three seconds, the filters, the search and the details  *)
(* of one transaction.                                                     *)
(***************************************************************************)
EXTENDS RustService

CONSTANTS PoolAnswers,    \* /transaction-pool: sequences of transactions
          PoolSearches    \* what the user may search for: hashes and senders

ASSUME MempoolAssumption == \A a \in PoolAnswers : a \in Seq(ToSet(a))

VARIABLES mempool,       \* the slice mempool
          mempoolReq,    \* the request getTxs$ is subscribed to
          mempoolView    \* fromRoute of the table; the search field and its debounce

mempoolVars == <<mempool, mempoolReq, mempoolView>>

noFilters == [delegation |-> TRUE, payment |-> TRUE, zkApp |-> TRUE, search |-> ""]

initialMempool ==
    [allTxs |-> <<>>, txs |-> <<>>, activeTx |-> NoRow, emptyInDatabase |-> FALSE, isLoading |-> TRUE,
     filters |-> noFilters]

initialMempoolView == [fromRoute |-> NoId, search |-> "", debounced |-> FALSE]
-----------------------------------------------------------------------------
\* Every signed command becomes a payment, a delegation too.
mapTxPoolResponse(response) ==
    [i \in DOMAIN response |->
        [txHash |-> response[i].hash, sender |-> response[i].feePayer,
         kind |-> IF response[i].data = "Signed_command" THEN "payment" ELSE "zkApp"]]

\* A search is for a part of the hash or of the sender; here it names one of
\* them.  Up to two characters are no search.
filterTxs(txs, filters) ==
    filter(txs, {tx \in ToSet(txs) :
        filters[tx.kind] /\ (filters.search = "" \/ filters.search \in {tx.txHash, tx.sender})})

getTxsSuccessReduced(txs) ==
    [mempool EXCEPT !.emptyInDatabase = txs = <<>>, !.isLoading = FALSE, !.allTxs = txs,
                    !.txs = filterTxs(txs, mempool.filters)]

\* listenToTxsChanges, scrollToElement: with a list that is not empty the table
\* clicks on the row it remembers, if it is there, and forgets it.
rowClicked(state, fromRoute) ==
    IF fromRoute = NoId \/ state.txs = <<>> THEN NoRow ELSE find(state.txs, "txHash", fromRoute)

\* onRowClick, setActiveTx: a row chosen while none was is remembered once more,
\* and so is chosen again by the first list after its panel has been closed.
txsShown(state, view) ==
    LET row == rowClicked(state, view.fromRoute)
        forgets == [view EXCEPT !.fromRoute = IF state.txs = <<>> THEN @ ELSE NoId]
    IN  IF row = NoRow \/ (state.activeTx # NoRow /\ state.activeTx.txHash = row.txHash)
        THEN mempool' = state /\ mempoolView' = forgets
        ELSE /\ mempool' = [state EXCEPT !.activeTx = row]
             /\ mempoolView' = IF state.activeTx = NoRow THEN [forgets EXCEPT !.fromRoute = row.txHash] ELSE forgets

filtersShown_FieldLeft(view, filters) == view

\* listenToFilters: the search field takes the value of the store over, which
\* starts its debounce; what was typed and not yet dispatched is lost.
filtersShown(view, filters) ==
    IF filters.search = view.search THEN view
    ELSE [view EXCEPT !.search = filters.search, !.debounced = TRUE]

changeFilters(view, filters) ==
    txsShown([mempool EXCEPT !.filters = filters, !.txs = filterTxs(mempool.allTxs, filters)],
             filtersShown(view, filters))

getTxs == mempoolReq' = switchMap(mempoolReq, [node |-> rust'])
-----------------------------------------------------------------------------
\* The route may name a transaction.
MempoolOpen ==
    /\ Enter("mempool") /\ UNCHANGED <<loading, rust, mempool>> /\ getTxs
    /\ \E id \in {NoId} \cup UNION {{tx.hash : tx \in ToSet(a)} : a \in PoolAnswers} :
         mempoolView' = [initialMempoolView EXCEPT !.fromRoute = id]

\* The transactions of the old node stay until the new one answers.
MempoolNodeChange ==
    On("mempool") /\ changeRustNode /\ getTxs /\ UNCHANGED <<loading, mempool, mempoolView>>

MempoolTick == On("mempool") /\ UNCHANGED <<loading, rust, mempool, mempoolView>> /\ getTxs

\* An error counts as an empty pool.  The chosen transaction stays, also when it
\* has left the pool.
GetTxsEnds ==
    /\ On("mempool") /\ UNCHANGED <<loading, rust>>
    /\ \/ \E r \in mempoolReq, response \in PoolAnswers :
            /\ mempoolReq' = Completed(mempoolReq, r)
            /\ txsShown(getTxsSuccessReduced(mapTxPoolResponse(response)), mempoolView)
       \/ /\ mempoolReq # {} /\ mempoolReq' = catchErrorAndRepeat(mempoolReq)
          /\ txsShown(getTxsSuccessReduced(<<>>), mempoolView)

MempoolToggleFilter ==
    /\ On("mempool") /\ UNCHANGED <<loading, rust, mempoolReq>>
    /\ \E kind \in {"delegation", "payment", "zkApp"} :
         changeFilters(mempoolView, [mempool.filters EXCEPT ![kind] = ~@])

clearFilters ==
    On("mempool") /\ changeFilters(mempoolView, noFilters) /\ UNCHANGED <<loading, rust, mempoolReq>>

\* The user types into the search field.
MempoolSearch ==
    /\ On("mempool") /\ UNCHANGED <<loading, rust, mempool, mempoolReq>>
    /\ \E term \in (PoolSearches \cup {""}) \ {mempoolView.search} :
         mempoolView' = [mempoolView EXCEPT !.search = term, !.debounced = TRUE]

\* 200 ms after the field has changed last.
MempoolSearchSettles ==
    /\ On("mempool") /\ mempoolView.debounced /\ UNCHANGED <<loading, rust, mempoolReq>>
    /\ changeFilters([mempoolView EXCEPT !.debounced = FALSE],
                     [mempool.filters EXCEPT !.search = mempoolView.search])

MempoolRowClick ==
    /\ On("mempool") /\ UNCHANGED <<loading, rust, mempoolReq>>
    /\ \E row \in Clickable(mempool.txs, "txHash", mempool.activeTx) :
         mempool' = [mempool EXCEPT !.activeTx = row]
    /\ mempoolView' = IF mempool.activeTx = NoRow THEN [mempoolView EXCEPT !.fromRoute = mempool'.activeTx.txHash]
                                                  ELSE mempoolView

\* The table goes on remembering the row.
closeSidePanel ==
    /\ On("mempool") /\ mempool.activeTx # NoRow /\ mempool' = [mempool EXCEPT !.activeTx = NoRow]
    /\ UNCHANGED <<loading, rust, mempoolReq, mempoolView>>

MempoolClose ==
    /\ Leave("mempool") /\ UNCHANGED <<loading, rust>> /\ mempoolReq' = {}
    /\ mempool' = initialMempool /\ mempoolView' = initialMempoolView
-----------------------------------------------------------------------------
MempoolInit == mempool = initialMempool /\ mempoolReq = {} /\ mempoolView = initialMempoolView

MempoolNext ==
    \/ MempoolOpen \/ MempoolNodeChange \/ MempoolTick \/ GetTxsEnds \/ MempoolToggleFilter \/ clearFilters
    \/ MempoolSearch \/ MempoolSearchSettles \/ MempoolRowClick \/ closeSidePanel \/ MempoolClose

\* Answers, filters and searches in any order leave in the table the transactions
\* of the last answer that the filters let pass, and nothing else.
MempoolFiltered ==
    LET Passes(tx) == /\ tx.kind = "payment" => mempool.filters.payment
                      /\ tx.kind = "zkApp" => mempool.filters.zkApp
                      /\ mempool.filters.search \in {"", tx.txHash, tx.sender}
    IN  /\ ToSet(mempool.txs) = {tx \in ToSet(mempool.allTxs) : Passes(tx)}
        /\ mempool.txs # <<>> => ~mempool.emptyInDatabase /\ ~mempool.isLoading

\* Only the active node is asked: no answer of the node picked before comes after
\* the change, whatever the timer asked for in between.
MempoolAsksActive == \A r \in mempoolReq : page \in {"mempool", "ended"} /\ r.node = rust

\* Once the search field has settled it shows the search the table is filtered
\* by, whether the user typed it, cleared the filters or did both.
MempoolSearchShown ==
    page = "mempool" /\ ~mempoolView.debounced => mempoolView.search = mempool.filters.search

\* The table shows the pool of the active node under the filters and the search that
\* the controls show.
MempoolSound == MempoolFiltered /\ MempoolAsksActive /\ MempoolSearchShown
=============================================================================
