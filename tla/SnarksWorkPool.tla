---------------------------- MODULE SnarksWorkPool ----------------------------
(***************************************************************************)
(* The page "Snarks > Work Pool": the SNARK jobs of the active node, the   *)
(* filters and the details of one job.  The list is fetched when the page  *)
(* opens and when the node changes, never by a timer.                      *)
(***************************************************************************)
EXTENDS RustService

CONSTANTS WorkPoolAnswers,  \* what a node may answer: sequences of jobs
          SnarkerOf         \* the key of each node's SNARK worker, NoKey without one

\* Jobs have an id and a time.
ASSUME WorkPoolAssumption ==
    \A answer \in WorkPoolAnswers :
        /\ answer \in Seq(ToSet(answer))
        /\ \A i \in DOMAIN answer : answer[i].id \in Nat \ {0} /\ answer[i].time \in Nat

VARIABLES workPool,       \* the slice snarks.workPool
          workPoolFx,     \* pendingRequest of the effects, snarkerHash of the service
          workPoolReq,    \* the requests of getWorkPool$ and getActiveWorkPoolDetail$
          workPoolRoute   \* the job of the URL that waits for a first list

workPoolVars == <<workPool, workPoolFx, workPoolReq, workPoolRoute>>

NoKey == "none"
NoJobId == 0
NoDetail == 0

initialWorkPool ==
    [workPools |-> <<>>, filteredWorkPools |-> <<>>, activeWorkPool |-> NoRow,
     openSidePanel |-> isDesktop, filters |-> <<>>, specs |-> NoDetail, detail |-> NoDetail,
     sort |-> [sortBy |-> "timestamp", sortDirection |-> "descending"]]

initialWorkPoolFx == [pendingRequest |-> FALSE, snarkerHash |-> NoKey]
-----------------------------------------------------------------------------
Origin(part, snarkerHash) ==
    IF part = NoRow THEN "undefined"
    ELSE IF snarkerHash \in {part.snarker, part.sender} THEN "Local" ELSE "Remote"

\* Latencies and dates are left out.
mapWorkPoolResponse(response, snarkerHash) ==
    [i \in DOMAIN response |->
        [id |-> response[i].id, timestamp |-> response[i].time,
         commitmentOrigin |-> Origin(response[i].commitment, snarkerHash),
         snarkOrigin |-> Origin(response[i].snark, snarkerHash)]]

\* "local" wins over "remote".
filterWorkPools(workPools, filters) ==
    LET From(origin) == SelectSeq(workPools, LAMBDA w : origin \in {w.snarkOrigin, w.commitmentOrigin})
    IN  IF filters = <<>> THEN workPools
        ELSE IF "local" \in ToSet(filters) THEN From("Local") ELSE From("Remote")

toggleItem(items, item) ==
    IF item \in ToSet(items) THEN SelectSeq(items, LAMBDA x : x # item) ELSE Append(items, item)

SetActiveWorkPoolReduced(state, id) ==
    [state EXCEPT !.openSidePanel = TRUE, !.activeWorkPool = find(state.workPools, "id", id),
                  !.specs = NoDetail]

\* getActiveWorkPoolDetail$: asks for the job that is active, by switchMap.
getDetail(id) ==
    /\ workPoolReq' = [workPoolReq EXCEPT !.detail = switchMap(@, [id |-> id])]
    /\ add("SNARKS_WORK_POOL_GET_WORK_POOL_DETAIL")

\* SnarksWorkPoolInit, SnarksWorkPoolGetWorkPool: the second is dropped while a
\* request is pending, also when that one was sent to another node.
getWorkPool ==
    /\ add("SNARKS_WORK_POOL_INIT")
    /\ IF workPoolFx.pendingRequest THEN UNCHANGED <<workPoolFx, workPoolReq>>
       ELSE /\ workPoolFx' = [workPoolFx EXCEPT !.pendingRequest = TRUE]
            /\ workPoolReq' = [workPoolReq EXCEPT !.pool = switchMap(@, [node |-> rust', asks |-> "jobs"])]

WorkPoolOpen ==
    /\ Enter("work-pool") /\ UNCHANGED <<rust, workPool>> /\ getWorkPool
    /\ workPoolRoute' \in {NoJobId, 1}

WorkPoolNodeChange ==
    On("work-pool") /\ changeRustNode /\ getWorkPool /\ UNCHANGED <<workPool, workPoolRoute>>

\* Until a SNARK worker is known, the answer with the jobs is followed by a request for
\* the key of the worker, sent to the node that is active by then.
GetSnarkerPublicKey ==
    /\ workPoolFx.snarkerHash = NoKey /\ UNCHANGED <<page, loading, rust, workPool, workPoolFx, workPoolRoute>>
    /\ \E r \in workPoolReq.pool :
         r.asks = "jobs" /\ workPoolReq' = [workPoolReq EXCEPT !.pool = {[node |-> rust, asks |-> "key"]}]

\* The key of the SNARK worker is kept for good; the filters are ignored for a new
\* list.  With the first list the table selects the job of the URL.
GetWorkPoolSuccess ==
    \E r \in workPoolReq.pool, response \in WorkPoolAnswers :
        LET hash == IF r.asks = "key" THEN SnarkerOf[r.node] ELSE workPoolFx.snarkerHash
            rows == sort(mapWorkPoolResponse(response, hash), workPool.sort)
            reduced == [workPool EXCEPT !.workPools = rows, !.filteredWorkPools = rows]
            row == find(rows, "id", workPoolRoute)
            clicked == page = "work-pool" /\ row # NoRow
                       /\ (workPool.activeWorkPool = NoRow \/ workPool.activeWorkPool.id # row.id)
        IN  /\ r.asks = "key" \/ workPoolFx.snarkerHash # NoKey
            /\ workPoolFx' = [pendingRequest |-> FALSE, snarkerHash |-> hash]
            /\ workPool' = IF clicked THEN SetActiveWorkPoolReduced(reduced, row.id) ELSE reduced
            /\ workPoolReq' = [pool |-> Completed(workPoolReq.pool, r),
                               detail |-> IF clicked THEN {[id |-> row.id]} ELSE workPoolReq.detail]
            /\ loading' = (loading \ {"SNARKS_WORK_POOL_INIT"})
                          \cup (IF clicked THEN {"SNARKS_WORK_POOL_GET_WORK_POOL_DETAIL"} ELSE {})
            /\ workPoolRoute' = IF rows = <<>> THEN workPoolRoute ELSE NoJobId
            /\ UNCHANGED <<page, rust>>

\* An error counts as an empty list.
GetWorkPoolError ==
    /\ workPoolReq.pool # {}
    /\ workPool' = [workPool EXCEPT !.workPools = <<>>, !.filteredWorkPools = <<>>]
    /\ workPoolFx' = [workPoolFx EXCEPT !.pendingRequest = FALSE]
    /\ workPoolReq' = [workPoolReq EXCEPT !.pool = catchErrorAndRepeat(@)]
    /\ remove({"SNARKS_WORK_POOL_INIT"}) /\ UNCHANGED <<page, rust, workPoolRoute>>

GetWorkPoolDetailSuccess ==
    \E r \in workPoolReq.detail, found \in BOOLEAN :
        /\ workPool' = [workPool EXCEPT !.specs = IF found THEN r.id ELSE NoDetail,
                                        !.detail = IF found THEN r.id ELSE NoDetail]
        /\ workPoolReq' = [workPoolReq EXCEPT !.detail = Completed(@, r)]
        /\ remove({"SNARKS_WORK_POOL_GET_WORK_POOL_DETAIL"})
        /\ UNCHANGED <<page, rust, workPoolFx, workPoolRoute>>

WorkPoolRowClick ==
    /\ On("work-pool") /\ UNCHANGED <<rust, workPoolFx, workPoolRoute>>
    /\ \E row \in Clickable(workPool.filteredWorkPools, "id", workPool.activeWorkPool) :
         workPool' = SetActiveWorkPoolReduced(workPool, row.id) /\ getDetail(row.id)

\* removeActiveWorkPool: no details are asked for, those on their way stay so.
RemoveActiveWorkPool ==
    /\ On("work-pool") /\ UNCHANGED <<loading, rust, workPoolFx, workPoolReq, workPoolRoute>>
    /\ workPool.activeWorkPool # NoRow
    /\ workPool' = SetActiveWorkPoolReduced(workPool, NoJobId)

\* Only the filtered list is sorted.
WorkPoolSort ==
    /\ On("work-pool") /\ UNCHANGED <<loading, rust, workPoolFx, workPoolReq, workPoolRoute>>
    /\ LET s == sortTable(workPool.sort, "timestamp")
       IN  workPool' = [workPool EXCEPT !.sort = s,
               !.filteredWorkPools = filterWorkPools(sort(workPool.workPools, s), workPool.filters)]

WorkPoolToggleFilter ==
    /\ On("work-pool") /\ UNCHANGED <<loading, rust, workPoolFx, workPoolReq, workPoolRoute>>
    /\ \E f \in {"local", "remote"} :
         LET filters == toggleItem(workPool.filters, f)
         IN  workPool' = [workPool EXCEPT !.filters = filters,
                                !.filteredWorkPools = filterWorkPools(workPool.workPools, filters)]

WorkPoolToggleSidePanel ==
    /\ On("work-pool") /\ UNCHANGED <<loading, rust, workPoolFx, workPoolReq, workPoolRoute>>
    /\ workPool' = [workPool EXCEPT !.openSidePanel = ~@, !.activeWorkPool = NoRow]

\* Close cancels the list but leaves pendingRequest set; it does not reach the
\* details, which come into the closed slice.
WorkPoolClose ==
    /\ Leave("work-pool")
    /\ remove({"SNARKS_WORK_POOL_INIT", "SNARKS_WORK_POOL_GET_WORK_POOL_DETAIL"})
    /\ workPool' = initialWorkPool /\ workPoolRoute' = NoJobId
    /\ workPoolReq' = [workPoolReq EXCEPT !.pool = {}]
    /\ UNCHANGED <<rust, workPoolFx>>
-----------------------------------------------------------------------------
WorkPoolInit ==
    /\ workPool = initialWorkPool /\ workPoolRoute = NoJobId
    /\ workPoolFx = initialWorkPoolFx
    /\ workPoolReq = [pool |-> {}, detail |-> {}]

WorkPoolNext ==
    \/ WorkPoolOpen \/ WorkPoolNodeChange \/ GetSnarkerPublicKey \/ GetWorkPoolSuccess
    \/ GetWorkPoolError \/ GetWorkPoolDetailSuccess \/ WorkPoolRowClick \/ RemoveActiveWorkPool
    \/ WorkPoolSort \/ WorkPoolToggleFilter \/ WorkPoolToggleSidePanel \/ WorkPoolClose

\* What the side panel shows beside a selected job is that job's: no other job's
\* specification ever, also none of an answer to a page closed since; another job's
\* detail, which the selection of a job does not clear, only while its own is on its
\* way.
WorkPoolDetailsFit ==
    LET id == workPool.activeWorkPool.id
    IN  workPool.activeWorkPool # NoRow =>
            /\ workPool.specs \in {NoDetail, id}
            /\ workPool.detail \in {NoDetail, id} \/ workPoolReq.detail = {[id |-> id]}

\* A closed work pool has no list: an answer to a list left behind is dropped.
WorkPoolClosedEmpty ==
    page \notin {"work-pool", "ended"} => workPool.workPools = <<>> /\ workPoolReq.pool = {}
=============================================================================
