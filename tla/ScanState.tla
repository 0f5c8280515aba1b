------------------------------- MODULE ScanState -------------------------------
(***************************************************************************)
(* The page "Snarks > Scan State": the trees of SNARK jobs of a block,     *)
(* followed live or stopped at a height, with one job selected.            *)
(***************************************************************************)
EXTENDS RustService

CONSTANTS Heights,       \* heights of blocks, positive
          ScanStates,    \* scan states of a block: sequences of trees, a tree is a
                         \* sequence of leafs in the order of a heap
          Snarkers       \* keys of the SNARK workers of the configured nodes

\* A tree of a scan state has at least its root.
ASSUME ScanAssumption ==
    /\ Heights \subseteq Nat \ {0}
    /\ \A trees \in ScanStates :
         /\ trees \in Seq(ToSet(trees))
         /\ \A t \in DOMAIN trees : trees[t] \in Seq(ToSet(trees[t])) /\ trees[t] # <<>>

VARIABLES scan,      \* the slice snarks.scanState
          scanFx,    \* inProgressGettingHeight of the effects
          scanReq,   \* the request of getScanState$
          scanUrl    \* height and job in the URL

scanVars == <<scan, scanFx, scanReq, scanUrl>>

Undefined == 0    \* heightOrHash of a request for the latest block
Null == -1        \* what "see latest height" asks for; no request in progress
NoJob == 0        \* jobs are positive

initialScan ==
    [block |-> NoRow, activeJobId |-> NoJob, activeLeaf |-> NoRow, openSidePanel |-> isDesktop,
     stream |-> TRUE, treeView |-> FALSE]

initialScanUrl == [height |-> Undefined, jobId |-> NoJob]
-----------------------------------------------------------------------------
\* Leafs get their place.  The numbers of the leafs by status and kind are left
\* out.
mapTrees(trees) ==
    LET reversed == Reverse(trees)
    IN  [t \in DOMAIN reversed |-> [j \in DOMAIN reversed[t] |->
            [job |-> reversed[t][j].job, snarker |-> reversed[t][j].snarker,
             snark |-> reversed[t][j].snark, treeIndex |-> t, jobIndex |-> j]]]

LeafsOf(trees) == UNION {ToSet(trees[t]) : t \in DOMAIN trees}

WorkingLeafs(trees, s) == {leaf \in LeafsOf(trees) : leaf.snarker = s /\ ~leaf.snark}

\* The service keeps its list of SNARK workers and deals out the leafs anew.
mapScanState(trees, height) ==
    [height |-> height, trees |-> mapTrees(trees),
     workingSnarkers |-> [s \in Snarkers |-> WorkingLeafs(mapTrees(trees), s)]]

errorBlock == [height |-> 0, trees |-> <<>>, workingSnarkers |-> [s \in Snarkers |-> {}]]

\* {...undefined}: the selected job is not in the block.
EmptyLeaf == [job |-> NoJob, treeIndex |-> 0]

GetBlockReduced_KeepsLeaf(block) == [scan EXCEPT !.block = block]

GetBlockReduced(block) ==
    LET leafs == {leaf \in LeafsOf(block.trees) : leaf.job = scan.activeJobId}
    IN  [scan EXCEPT !.block = block,
                     !.activeLeaf = IF scan.activeJobId = NoJob THEN NoRow
                                    ELSE IF leafs = {} THEN EmptyLeaf
                                    ELSE CHOOSE l \in leafs : \A k \in leafs :
                                            l.treeIndex < k.treeIndex
                                            \/ (l.treeIndex = k.treeIndex /\ l.jobIndex <= k.jobIndex)]

SetActiveJobIdReduced(state, jobId) == [state EXCEPT !.activeJobId = jobId, !.stream = FALSE]

SetActiveLeafReduced(state, leaf) ==
    [state EXCEPT !.openSidePanel = IF leaf # NoRow THEN TRUE ELSE @, !.activeLeaf = leaf,
                  !.activeJobId = IF leaf # NoRow THEN leaf.job ELSE NoJob,
                  !.stream = IF leaf # NoRow THEN FALSE ELSE @]

\* listenToRoute: after a navigation the job in the URL becomes the active one.
afterNavigation(state, url) ==
    IF url.jobId # NoJob /\ url.jobId # state.activeJobId
    THEN SetActiveJobIdReduced(state, url.jobId) ELSE state

\* SCAN_STATE_GET_BLOCK.  A second request for the same height is dropped.
GetBlock(height) ==
    IF height = scanFx.inProgress THEN UNCHANGED <<scanFx, scanReq, loading>>
    ELSE /\ scanFx' = [inProgress |-> height]
         /\ scanReq' = switchMap(scanReq, [height |-> height])
         /\ IF scan.stream THEN UNCHANGED loading ELSE add("SCAN_STATE_INIT")
-----------------------------------------------------------------------------
\* A height in the URL, or a job, stops the stream.
ScanOpen ==
    /\ Enter("scan-state") /\ UNCHANGED rust /\ add("SCAN_STATE_INIT")
    /\ \E height \in {Undefined} \cup Heights, job \in {NoJob, 1} :
         /\ scanUrl' = [height |-> height, jobId |-> job]
         /\ scan' = IF height # Undefined \/ job # NoJob THEN SetActiveJobIdReduced(scan, job) ELSE scan
         /\ scanFx' = [inProgress |-> height]
         /\ scanReq' = switchMap(scanReq, [height |-> height])

\* timer(0, 5000), which exists while the stream is on.
ScanTick ==
    /\ On("scan-state") /\ scan.stream /\ scanFx.inProgress # Undefined
    /\ GetBlock(Undefined) /\ UNCHANGED <<rust, scan, scanUrl>>

ScanNodeChange ==
    On("scan-state") /\ changeRustNode /\ GetBlock(Undefined) /\ UNCHANGED <<scan, scanUrl>>

\* The answer is for the height asked for, or for the latest.  The URL follows,
\* unless the height, or the hash of the block, occurs anywhere in its text.
ScanGetBlockSuccess ==
    \E r \in scanReq, trees \in ScanStates, height \in Heights, includes \in BOOLEAN :
        /\ r.height \in Heights => height = r.height
        /\ scanUrl.height = height => includes
        /\ LET reduced == GetBlockReduced(mapScanState(trees, height))
               url == [scanUrl EXCEPT !.height = height]
           IN  /\ scan' = IF includes THEN reduced ELSE afterNavigation(reduced, url)
               /\ scanUrl' = IF includes THEN scanUrl ELSE url
        /\ scanFx' = [inProgress |-> Null] /\ scanReq' = Completed(scanReq, r)
        /\ remove({"SCAN_STATE_INIT"}) /\ UNCHANGED <<page, rust>>

ScanGetBlockError ==
    /\ scanReq # {} /\ scan' = GetBlockReduced(errorBlock)
    /\ scanFx' = [inProgress |-> Null] /\ scanReq' = catchErrorAndRepeat(scanReq)
    /\ remove({"SCAN_STATE_INIT"}) /\ UNCHANGED <<page, rust, scanUrl>>

\* getHeight of the toolbar: the block is asked for before the stream stops.
getHeight ==
    /\ On("scan-state") /\ UNCHANGED <<rust, scanUrl>>
    /\ \E height \in Heights \cup {Null} :
         /\ GetBlock(height)
         /\ scan' = [scan EXCEPT !.stream = height = Null]

\* After an error: GetBlock with null is the request in progress of an idle
\* effect, so that it is the stream that fetches.
checkLatestHeight ==
    /\ On("scan-state") /\ scan.block = errorBlock /\ GetBlock(Null)
    /\ scan' = [scan EXCEPT !.stream = TRUE] /\ UNCHANGED <<rust, scanUrl>>

\* goLive and pause.
ScanToggleStream ==
    /\ On("scan-state") /\ scan' = [scan EXCEPT !.stream = ~@]
    /\ UNCHANGED <<loading, rust, scanFx, scanReq, scanUrl>>

\* A click into a tree or on a job of a SNARK worker.
ScanSetActiveLeaf ==
    /\ On("scan-state") /\ scan.block # NoRow
    /\ \E leaf \in LeafsOf(scan.block.trees) :
         LET url == [height |-> scan.block.height, jobId |-> leaf.job]
         IN  /\ scan' = afterNavigation(SetActiveLeafReduced(scan, leaf), url)
             /\ scanUrl' = url
    /\ UNCHANGED <<loading, rust, scanFx, scanReq>>

removeActiveJobId ==
    /\ On("scan-state") /\ scan.activeLeaf # NoRow
    /\ scan' = SetActiveLeafReduced(scan, NoRow)
    /\ scanUrl' = [height |-> scan.block.height, jobId |-> NoJob]
    /\ UNCHANGED <<loading, rust, scanFx, scanReq>>

\* The button in the side panel takes the job out of the URL, the one in the
\* toolbar does not.
ScanToggleSidePanel ==
    /\ On("scan-state")
    /\ scan' = [scan EXCEPT !.openSidePanel = ~@, !.activeJobId = NoJob, !.activeLeaf = NoRow]
    /\ scanUrl' \in {scanUrl} \cup (IF scan.block = NoRow THEN {}
                                    ELSE {[height |-> scan.block.height, jobId |-> NoJob]})
    /\ UNCHANGED <<loading, rust, scanFx, scanReq>>

\* The choice is stored for the next start of the application, but closing the
\* page takes it back.
ScanToggleTreeView ==
    /\ On("scan-state") /\ scan' = [scan EXCEPT !.treeView = ~@]
    /\ UNCHANGED <<loading, rust, scanFx, scanReq, scanUrl>>

ScanClose ==
    /\ Leave("scan-state") /\ remove({"SCAN_STATE_INIT"})
    /\ scan' = initialScan /\ scanFx' = [inProgress |-> Null] /\ scanReq' = {}
    /\ scanUrl' = initialScanUrl /\ UNCHANGED rust
-----------------------------------------------------------------------------
\* buildTree and root.descendants(), which goes level by level: the leaf in
\* each cell of the chart, for a tree of n leafs.
childrenOf(i, n) == filter(<<2 * i, 2 * i + 1>>, 1..n)

descendants(n) ==
    LET visited[k \in 0..n] ==
            IF k = 0 THEN <<1>>
            ELSE IF k > Len(visited[k - 1]) THEN visited[k - 1]
            ELSE visited[k - 1] \o childrenOf(visited[k - 1][k], n)
    IN  visited[n]

ScanInit ==
    /\ scan = initialScan /\ scanFx = [inProgress |-> Null] /\ scanReq = {}
    /\ scanUrl = initialScanUrl

ScanNext ==
    \/ ScanOpen \/ ScanTick \/ ScanNodeChange \/ ScanGetBlockSuccess \/ ScanGetBlockError
    \/ getHeight \/ checkLatestHeight \/ ScanToggleStream \/ ScanSetActiveLeaf
    \/ removeActiveJobId \/ ScanToggleSidePanel \/ ScanToggleTreeView \/ ScanClose

\* The request in flight is the one the effect believes to be in progress, so
\* that the stream neither repeats it nor holds back another height.
ScanMarkerSound ==
    /\ scanFx.inProgress # Null => scanReq = {[height |-> scanFx.inProgress]}
    /\ scanFx.inProgress = Null => scanReq \subseteq {[height |-> Null]}

\* The job in the side panel is the selected one as it is in the block on
\* display, however many blocks have come and gone since it was selected.
ScanLeafFit ==
    scan.activeLeaf \notin {NoRow, EmptyLeaf} =>
        scan.activeLeaf \in LeafsOf(scan.block.trees) /\ scan.activeLeaf.job = scan.activeJobId

\* A cell of the chart stands for the leaf with its number: the highlighted
\* cell, found by the number of the leaf, is the selected job.
ScanCellsInOrder ==
    scan.block # NoRow => \A t \in DOMAIN scan.block.trees :
        LET leafs == scan.block.trees[t]
        IN  descendants(Len(leafs)) = [j \in DOMAIN leafs |-> leafs[j].jobIndex]
=============================================================================
