--------------------------- MODULE NodePagesProofs ---------------------------
(***************************************************************************)
(* What the pages of the sections Nodes, Block Production, Resources and   *)
(* Fuzzing promise, for all nodes, answers and sessions.                   *)
(***************************************************************************)
EXTENDS NodePages, LayoutProofs

allVars == <<layoutVars, rust, session, nodesVars, producedVars, reportVars>>

(***************************************************************************)
(* The pages share the outlet, the loading bar and the active node.        *)
(***************************************************************************)

\* A step of page p leaves another page that is open where it is, talking to the
\* same node, and puts no type but its own on the loading bar; a node it turns to
\* is one of the node picker.
Apart(p, type) ==
    /\ page \notin {p, "none"} => page' = page /\ rust' = rust
    /\ page' \in {page, p, "none", "ended"}
    /\ loading' \subseteq loading \cup {type}
    /\ rust' \in RustNodes \cup {rust}

LEMMA OverviewApart == OverviewNext => Apart("overview", "NODES_OVERVIEW_INIT")
<1> USE DEF Apart, changeRustNode, On, Enter, Leave, layoutVars, remove
<1>1. OverviewGetNodes => Apart("overview", "NODES_OVERVIEW_INIT")  BY DEF OverviewGetNodes
<1>2. GetNodeStatusSuccess => Apart("overview", "NODES_OVERVIEW_INIT")  BY DEF GetNodeStatusSuccess
<1>3. OverviewSort => Apart("overview", "NODES_OVERVIEW_INIT")  BY DEF OverviewSort
<1>4. OverviewRowClick => Apart("overview", "NODES_OVERVIEW_INIT")  BY DEF OverviewRowClick
<1>5. OverviewClosePanel => Apart("overview", "NODES_OVERVIEW_INIT")  BY DEF OverviewClosePanel
<1>6. OverviewOpen => Apart("overview", "NODES_OVERVIEW_INIT")  BY DEF OverviewOpen
<1>7. OverviewClose => Apart("overview", "NODES_OVERVIEW_INIT")  BY DEF OverviewClose
<1> QED  BY <1>1, <1>2, <1>3, <1>4, <1>5, <1>6, <1>7 DEF OverviewNext

LEMMA BootstrapApart == BootstrapNext => Apart("bootstrap", "NODES_BOOTSTRAP_INIT")
<1> USE DEF Apart, changeRustNode, On, Enter, Leave, add, remove
<1>1. BootstrapTick => Apart("bootstrap", "NODES_BOOTSTRAP_INIT")  BY DEF BootstrapTick
<1>2. BootstrapNodeChange => Apart("bootstrap", "NODES_BOOTSTRAP_INIT")  BY DEF BootstrapNodeChange
<1>3. BootstrapGetNodesSuccess => Apart("bootstrap", "NODES_BOOTSTRAP_INIT")  BY DEF BootstrapGetNodesSuccess
<1>4. BootstrapRowClick => Apart("bootstrap", "NODES_BOOTSTRAP_INIT")  BY DEF BootstrapRowClick
<1>5. BootstrapRemoveActive => Apart("bootstrap", "NODES_BOOTSTRAP_INIT")  BY DEF BootstrapRemoveActive
<1>6. BootstrapSort => Apart("bootstrap", "NODES_BOOTSTRAP_INIT")  BY DEF BootstrapSort
<1>7. BootstrapToggleSidePanel => Apart("bootstrap", "NODES_BOOTSTRAP_INIT")  BY DEF BootstrapToggleSidePanel
<1>8. BootstrapOpen => Apart("bootstrap", "NODES_BOOTSTRAP_INIT")  BY DEF BootstrapOpen
<1>9. BootstrapClose => Apart("bootstrap", "NODES_BOOTSTRAP_INIT")  BY DEF BootstrapClose
<1> QED  BY <1>1, <1>2, <1>3, <1>4, <1>5, <1>6, <1>7, <1>8, <1>9 DEF BootstrapNext

LEMMA LiveApart == LiveNext => Apart("live", "NODES_LIVE_INIT")
<1> USE DEF Apart, changeRustNode, On, Enter, Leave, Throws, add, remove
<1>1. LiveTick => Apart("live", "NODES_LIVE_INIT")  BY DEF LiveTick
<1>2. LiveNodeChange => Apart("live", "NODES_LIVE_INIT")  BY DEF LiveNodeChange
<1>3. LiveGetNodesSuccess => Apart("live", "NODES_LIVE_INIT")  BY DEF LiveGetNodesSuccess
<1>4. LiveStep => Apart("live", "NODES_LIVE_INIT")  BY DEF LiveStep, LiveSelect
<1>5. LiveEnds => Apart("live", "NODES_LIVE_INIT")  BY DEF LiveEnds, LiveSelect
<1>6. LiveSort => Apart("live", "NODES_LIVE_INIT")  BY DEF LiveSort
<1>7. LiveToggleFilter => Apart("live", "NODES_LIVE_INIT")  BY DEF LiveToggleFilter
<1>8. LiveToggleSidePanel => Apart("live", "NODES_LIVE_INIT")  BY DEF LiveToggleSidePanel
<1>9. LiveOpen => Apart("live", "NODES_LIVE_INIT")  BY DEF LiveOpen
<1>10. LiveClose => Apart("live", "NODES_LIVE_INIT")  BY DEF LiveClose
<1> QED  BY <1>1, <1>2, <1>3, <1>4, <1>5, <1>6, <1>7, <1>8, <1>9, <1>10 DEF LiveNext

LEMMA EpochApart == EpochNext => Apart("bp-overview", "Get Slots")
<1> USE DEF Apart, changeRustNode, On, Enter, Leave, Throws, add, remove
<1>1. EpochOpen => Apart("bp-overview", "Get Slots")  BY DEF EpochOpen
<1>2. EpochNodeChange => Apart("bp-overview", "Get Slots")  BY DEF EpochNodeChange
<1>3. EpochNodeChangeThrows => Apart("bp-overview", "Get Slots")  BY DEF EpochNodeChangeThrows
<1>4. GetEpochDetailsSuccess => Apart("bp-overview", "Get Slots")  BY DEF GetEpochDetailsSuccess
<1>5. GetEpochDetailsError => Apart("bp-overview", "Get Slots")  BY DEF GetEpochDetailsError
<1>6. GetEpochsSuccess => Apart("bp-overview", "Get Slots")  BY DEF GetEpochsSuccess
<1>7. GetSlotsSuccess => Apart("bp-overview", "Get Slots")  BY DEF GetSlotsSuccess
<1>8. GetSlotsError => Apart("bp-overview", "Get Slots")  BY DEF GetSlotsError
<1>9. changeActiveEpoch => Apart("bp-overview", "Get Slots")  BY DEF changeActiveEpoch
<1>10. onSlotClick => Apart("bp-overview", "Get Slots")  BY DEF onSlotClick
<1>11. removeActiveSlot => Apart("bp-overview", "Get Slots")  BY DEF removeActiveSlot
<1>12. EpochChangeFilter => Apart("bp-overview", "Get Slots")  BY DEF EpochChangeFilter
<1>13. EpochClose => Apart("bp-overview", "Get Slots")  BY DEF EpochClose
<1> QED  BY <1>1, <1>2, <1>3, <1>4, <1>5, <1>6, <1>7, <1>8, <1>9, <1>10, <1>11, <1>12, <1>13 DEF EpochNext

LEMMA WonApart == WonNext => Apart("won-slots", "Won Slots Init")
<1> USE DEF Apart, changeRustNode, On, Enter, Leave, Throws, add, remove
<1>1. WonOpen => Apart("won-slots", "Won Slots Init")  BY DEF WonOpen, WonAsk
<1>2. WonNodeChange => Apart("won-slots", "Won Slots Init")  BY DEF WonNodeChange, WonAsk
<1>3. WonTick => Apart("won-slots", "Won Slots Init")  BY DEF WonTick
<1>4. WonAnswered => Apart("won-slots", "Won Slots Init")  BY DEF WonAnswered, layoutVars
<1>5. WonSlotsSuccess => Apart("won-slots", "Won Slots Init")  BY DEF WonSlotsSuccess
<1>6. WonSlotsError => Apart("won-slots", "Won Slots Init")  BY DEF WonSlotsError
<1>7. WonRowClick => Apart("won-slots", "Won Slots Init")  BY DEF WonRowClick
<1>8. WonPill => Apart("won-slots", "Won Slots Init")  BY DEF WonPill
<1>9. WonSort => Apart("won-slots", "Won Slots Init")  BY DEF WonSort
<1>10. WonChangeFilter => Apart("won-slots", "Won Slots Init")  BY DEF WonChangeFilter
<1>11. WonClosePanel => Apart("won-slots", "Won Slots Init")  BY DEF WonClosePanel
<1>12. WonCountdownEnds => Apart("won-slots", "Won Slots Init")  BY DEF WonCountdownEnds
<1>13. WonClose => Apart("won-slots", "Won Slots Init")  BY DEF WonClose
<1> QED  BY <1>1, <1>2, <1>3, <1>4, <1>5, <1>6, <1>7, <1>8, <1>9, <1>10, <1>11, <1>12, <1>13 DEF WonNext

LEMMA MemoryApart == MemoryNext => Apart("memory", "none")
<1> USE DEF Apart, changeRustNode, On, Enter, Leave, Throws, add, remove
<1>1. MemoryOpen => Apart("memory", "none")  BY DEF MemoryOpen
<1>2. MemoryNodeChange => Apart("memory", "none")  BY DEF MemoryNodeChange
<1>3. MemoryGetSuccess => Apart("memory", "none")  BY DEF MemoryGetSuccess
<1>4. MemoryGetError => Apart("memory", "none")  BY DEF MemoryGetError
<1>5. MemoryRowClick => Apart("memory", "none")  BY DEF MemoryRowClick, setActiveResource
<1>6. MemoryBreadcrumbClick => Apart("memory", "none")  BY DEF MemoryBreadcrumbClick, setActiveResource
<1>7. back => Apart("memory", "none")  BY DEF back, setActiveResource
<1>8. TreemapClick => Apart("memory", "none")  BY DEF TreemapClick, setActiveResource
<1>9. zoomOut => Apart("memory", "none")  BY DEF zoomOut, setActiveResource
<1>10. redrawChart => Apart("memory", "none")  BY DEF redrawChart, setActiveResource
<1>11. setGranularity => Apart("memory", "none")  BY DEF setGranularity
<1>12. setTreemapView => Apart("memory", "none")  BY DEF setTreemapView
<1>13. MemoryClose => Apart("memory", "none")  BY DEF MemoryClose
<1> QED  BY <1>1, <1>2, <1>3, <1>4, <1>5, <1>6, <1>7, <1>8, <1>9, <1>10, <1>11, <1>12, <1>13 DEF MemoryNext

LEMMA FuzzingApart == FuzzingNext => Apart("fuzzing", "none")
<1> USE DEF Apart, changeRustNode, On, Enter, Leave, add, remove
<1>1. FuzzingOpen => Apart("fuzzing", "none")  BY DEF FuzzingOpen
<1>2. FuzzingTick => Apart("fuzzing", "none")  BY DEF FuzzingTick
<1>3. FileTick => Apart("fuzzing", "none")  BY DEF FileTick
<1>4. GetDirectoriesSuccess => Apart("fuzzing", "none")  BY DEF GetDirectoriesSuccess
<1>5. GetDirectoriesError => Apart("fuzzing", "none")  BY DEF GetDirectoriesError
<1>6. GetFilesSuccess => Apart("fuzzing", "none")  BY DEF GetFilesSuccess
<1>7. GetFilesError => Apart("fuzzing", "none")  BY DEF GetFilesError
<1>8. GetFileDetailsSuccess => Apart("fuzzing", "none")  BY DEF GetFileDetailsSuccess
<1>9. GetFileDetailsError => Apart("fuzzing", "none")  BY DEF GetFileDetailsError
<1>10. DirectoryRowClick => Apart("fuzzing", "none")  BY DEF DirectoryRowClick
<1>11. FileRowClick => Apart("fuzzing", "none")  BY DEF FileRowClick
<1>12. closeCodePanel => Apart("fuzzing", "none")  BY DEF closeCodePanel
<1>13. FuzzingSort => Apart("fuzzing", "none")  BY DEF FuzzingSort
<1>14. FuzzingFilterFiles => Apart("fuzzing", "none")  BY DEF FuzzingFilterFiles
<1>15. FuzzingClose => Apart("fuzzing", "none")  BY DEF FuzzingClose
<1> QED  BY <1>1, <1>2, <1>3, <1>4, <1>5, <1>6, <1>7, <1>8, <1>9, <1>10, <1>11, <1>12, <1>13, <1>14, <1>15 DEF FuzzingNext

(***************************************************************************)
(* The pollers of Nodes > Bootstrap and Nodes > Live.                      *)
(***************************************************************************)

\* getNodes$ has at most one request, and pendingRequest says whether it has one;
\* while the bar runs for the page, the page is open (or the store has ended under
\* it) and the request is to the active node.
PollerInv(p, type, fx, req) ==
    /\ \A r, s \in req : r = s
    /\ fx = [pendingRequest |-> req # {}]
    /\ type \in loading => page \in {p, "ended"} /\ req = {[node |-> rust]}

PollersInv ==
    /\ PollerInv("bootstrap", "NODES_BOOTSTRAP_INIT", bootstrapFx, bootstrapReq)
    /\ PollerInv("live", "NODES_LIVE_INIT", liveFx, liveReq)

\* The steps of other pages keep it.
LEMMA PollerApart ==
    ASSUME NEW p, NEW q, NEW type, NEW other, NEW fx, NEW req,
           p # q, p # "none", type # other, page # "ended", PollerInv(p, type, fx, req), Apart(q, other)
    PROVE  PollerInv(p, type, fx, req)'
BY DEF PollerInv, Apart

\* Every step of the page itself keeps it.
LEMMA BootstrapPolls ==
    ASSUME PollerInv("bootstrap", "NODES_BOOTSTRAP_INIT", bootstrapFx, bootstrapReq),
           page # "ended", BootstrapNext
    PROVE  PollerInv("bootstrap", "NODES_BOOTSTRAP_INIT", bootstrapFx, bootstrapReq)'
<1> USE DEF PollerInv, On, Enter, Leave, add, remove
<1> DEFINE Kept == PollerInv("bootstrap", "NODES_BOOTSTRAP_INIT", bootstrapFx, bootstrapReq)'
<1>1. CASE BootstrapTick  BY <1>1 DEF BootstrapTick, bootstrapGet, switchMap
<1>2. CASE BootstrapNodeChange  BY <1>2 DEF BootstrapNodeChange, bootstrapGet, switchMap
<1>3. CASE BootstrapGetNodesSuccess
  <2>1. PICK r \in bootstrapReq : bootstrapReq' = Completed(bootstrapReq, r)
    BY <1>3 DEF BootstrapGetNodesSuccess
  <2>2. bootstrapReq' = {}  BY <2>1 DEF Completed
  <2>3. bootstrapFx' = [pendingRequest |-> FALSE] /\ loading' = loading \ {"NODES_BOOTSTRAP_INIT"}
    BY <1>3 DEF BootstrapGetNodesSuccess
  <2> QED  BY <2>2, <2>3
<1>4. CASE BootstrapRowClick  BY <1>4 DEF BootstrapRowClick
<1>5. CASE BootstrapRemoveActive  BY <1>5 DEF BootstrapRemoveActive
<1>6. CASE BootstrapSort  BY <1>6 DEF BootstrapSort
<1>7. CASE BootstrapToggleSidePanel  BY <1>7 DEF BootstrapToggleSidePanel
<1>8. CASE BootstrapOpen  BY <1>8 DEF BootstrapOpen
<1>9. CASE BootstrapClose  BY <1>9 DEF BootstrapClose
<1> QED  BY <1>1, <1>2, <1>3, <1>4, <1>5, <1>6, <1>7, <1>8, <1>9 DEF BootstrapNext

LEMMA LivePolls ==
    ASSUME PollerInv("live", "NODES_LIVE_INIT", liveFx, liveReq), page # "ended", LiveNext
    PROVE  PollerInv("live", "NODES_LIVE_INIT", liveFx, liveReq)'
<1> USE DEF PollerInv, On, Enter, Leave, Throws, add, remove
<1>1. CASE LiveTick  BY <1>1 DEF LiveTick, liveGet, switchMap
<1>2. CASE LiveNodeChange  BY <1>2 DEF LiveNodeChange, liveGet, switchMap
<1>3. CASE LiveGetNodesSuccess
  <2>1. PICK r \in liveReq : liveReq' = Completed(liveReq, r)  BY <1>3 DEF LiveGetNodesSuccess
  <2>2. liveReq' = {}  BY <2>1 DEF Completed
  <2>3. liveFx' = [pendingRequest |-> FALSE] /\ loading' = loading \ {"NODES_LIVE_INIT"}
    BY <1>3 DEF LiveGetNodesSuccess
  <2> QED  BY <2>2, <2>3
<1>4. CASE LiveStep  BY <1>4 DEF LiveStep, LiveSelect
<1>5. CASE LiveEnds  BY <1>5 DEF LiveEnds, LiveSelect
<1>6. CASE LiveSort  BY <1>6 DEF LiveSort, liveVars
<1>7. CASE LiveToggleFilter  BY <1>7 DEF LiveToggleFilter, liveVars
<1>8. CASE LiveToggleSidePanel  BY <1>8 DEF LiveToggleSidePanel
<1>9. CASE LiveOpen  BY <1>9 DEF LiveOpen
<1>10. CASE LiveClose  BY <1>10 DEF LiveClose
<1> QED  BY <1>1, <1>2, <1>3, <1>4, <1>5, <1>6, <1>7, <1>8, <1>9, <1>10 DEF LiveNext

\* A page asks the node it shows again exactly when nothing of its own is on its way,
\* for any nodes, answers and sessions: the timers of NodesBootstrapEffects and
\* NodesLiveEffects neither stall nor ask twice through failures, changes of the
\* node, pages closed with a request in flight, errors that end the store, and reloads.
THEOREM PollersTheorem == NodePagesSpec => []NodeRequestsSound
<1>1. NodePagesInit => PollersInv
  BY DEF NodePagesInit, LayoutInit, BootstrapInit, LiveInit, PollersInv, PollerInv
<1>2. PollersInv /\ [NodePagesNext]_allVars => PollersInv'
  <2> SUFFICES ASSUME PollersInv, [NodePagesNext]_allVars PROVE PollersInv'  OBVIOUS
  <2> USE DEF PollersInv
  <2>1. CASE page # "ended" /\ OverviewNext /\ UNCHANGED <<bootstrapVars, liveVars>>
    BY <2>1, OverviewApart, PollerApart DEF bootstrapVars, liveVars
  <2>2. CASE page # "ended" /\ BootstrapNext /\ UNCHANGED liveVars
    BY <2>2, BootstrapApart, BootstrapPolls, PollerApart DEF liveVars
  <2>3. CASE page # "ended" /\ LiveNext /\ UNCHANGED bootstrapVars
    BY <2>3, LiveApart, LivePolls, PollerApart DEF bootstrapVars
  <2>4. CASE page # "ended" /\ EpochNext /\ UNCHANGED nodesVars
    BY <2>4, EpochApart, PollerApart DEF nodesVars, bootstrapVars, liveVars
  <2>5. CASE page # "ended" /\ WonNext /\ UNCHANGED nodesVars
    BY <2>5, WonApart, PollerApart DEF nodesVars, bootstrapVars, liveVars
  <2>6. CASE page # "ended" /\ MemoryNext /\ UNCHANGED nodesVars
    BY <2>6, MemoryApart, PollerApart DEF nodesVars, bootstrapVars, liveVars
  <2>7. CASE page # "ended" /\ FuzzingNext /\ UNCHANGED nodesVars
    BY <2>7, FuzzingApart, PollerApart DEF nodesVars, bootstrapVars, liveVars
  <2>8. CASE PickNode
    BY <2>8 DEF PickNode, On, PollerInv, nodesVars, bootstrapVars, liveVars
  <2>9. CASE Reload
    BY <2>9 DEF Reload, PollerInv, bootstrapVars
  <2>10. CASE UNCHANGED allVars
    BY <2>10 DEF allVars, layoutVars, nodesVars, bootstrapVars, liveVars, PollerInv
  <2> QED
    BY <2>1, <2>2, <2>3, <2>4, <2>5, <2>6, <2>7, <2>8, <2>9, <2>10 DEF NodePagesNext
<1>3. PollersInv => NodeRequestsSound
  <2>1. ASSUME NEW fx, NEW req, fx = [pendingRequest |-> req # {}]
        PROVE  req # {} <=> fx.pendingRequest
    <3>1. CASE req = {}  BY <2>1, <3>1
    <3>2. CASE req # {}  BY <2>1, <3>2
    <3> QED  BY <3>1, <3>2
  <2> QED
    BY <2>1 DEF PollersInv, PollerInv, NodeRequestsSound, NodePollersSound, NodeChangeAsksNode
<1> QED  BY <1>1, <1>2, <1>3, PTL DEF NodePagesSpec, allVars

(***************************************************************************)
(* The page of an epoch.                                                   *)
(***************************************************************************)

SlotNumbers == UNION {{answer.slots[i].slot : i \in DOMAIN answer.slots} : answer \in SlotAnswers}
Routes == {NaN, None, 1} \cup SlotNumbers
Sources == [node : RustNodes \cup {0}, epoch : Int]
SlotRows ==
    [slot : SlotNumbers, finished : BOOLEAN, canonical : BOOLEAN, orphaned : BOOLEAN, missed : BOOLEAN,
     futureRights : BOOLEAN, active : BOOLEAN]

Slices ==
    [epochs : SUBSET Int, activeEpoch : BOOLEAN, epochNumber : Int, details : Sources,
     slots : Seq(SlotRows), slotsOf : Sources, activeEpochNumber : Int,
     filters : [{"canonical", "orphaned", "missed", "future"} -> BOOLEAN],
     activeSlot : SlotRows \cup {NoRow}, activeSlotRoute : Routes,
     isLoading : BOOLEAN, isCalculatingVRF : BOOLEAN]

Requests ==
    [details : SUBSET [node : RustNodes, epoch : Int, slot : Routes],
     epochs : SUBSET Sources, slots : SUBSET Sources]

EpochTypes ==
    /\ rust \in RustNodes /\ bp \in Slices /\ bpReq \in Requests
    /\ bpUrl \in [epoch : Int, slot : Routes]

\* Slots that are on display are those of a whole epoch, or none; the chosen slot is
\* looked up in them; and the rectangles are drawn in the normal view only.
SlotsFit(b) ==
    /\ ~b.isLoading => (b.isCalculatingVRF <=> calculatingVRF(b.slots))
    /\ b.activeSlot = find(b.slots, "slot", b.activeSlotRoute)

Drawn(b, r) == r = IF normalView(b) THEN Colors(b) ELSE <<>>

\* At most one request for details, of the active node and the epoch asked for last.
\* Without one, the details are of that node and epoch, and the slots and the
\* epochs of the graphs are those asked for with them or are still on their way.
PartsFit(b, q, node) ==
    /\ \A r, s \in q.details : r = s
    /\ \A r \in q.details : r.node = node /\ r.epoch = b.activeEpochNumber
    /\ q.details = {} /\ b.details # NoSource =>
         /\ b.details.node = node /\ b.details.epoch \in 0..LastEpoch
         /\ b.activeEpochNumber = b.details.epoch
         /\ q.slots = {b.details} \/ (q.slots = {} /\ b.slotsOf = b.details)
         /\ \/ q.epochs = {b.details}
            \/ q.epochs = {} /\ (b.epochs = {} \/ b.epochNumber = b.details.epoch)

EpochInv ==
    /\ EpochTypes /\ SlotsFit(bp) /\ Drawn(bp, rects)
    /\ page \notin {"bp-overview", "ended"} => bp = initialEpoch /\ bpReq = NoBpReq
    /\ page # "ended" => PartsFit(bp, bpReq, rust)
    /\ EpochPartsFit

\* What the reducers of the slice do to its parts.
LEMMA SetActiveSlotFields ==
    ASSUME NEW b \in Slices, NEW slot \in Routes,
           find(b.slots, "slot", slot) \in SlotRows \cup {NoRow}
    PROVE  LET s == SetActiveSlotReduced(b, slot)
           IN  /\ s \in Slices
               /\ s.activeSlotRoute = slot /\ s.activeSlot = find(b.slots, "slot", slot)
               /\ s.slots = b.slots /\ s.slotsOf = b.slotsOf /\ s.details = b.details
               /\ s.activeEpochNumber = b.activeEpochNumber /\ s.epochNumber = b.epochNumber
               /\ s.epochs = b.epochs /\ s.filters = b.filters
               /\ s.isLoading = b.isLoading /\ s.isCalculatingVRF = b.isCalculatingVRF
BY DEF SetActiveSlotReduced, Slices

LEMMA GetEpochDetailsFields ==
    ASSUME NEW b \in Slices, NEW epoch \in Int
    PROVE  LET s == GetEpochDetailsReduced(b, epoch)
           IN  /\ s \in Slices
               /\ s.activeSlotRoute = b.activeSlotRoute /\ s.activeSlot = b.activeSlot
               /\ s.slots = b.slots /\ s.slotsOf = b.slotsOf /\ s.details = b.details
               /\ s.activeEpochNumber = epoch /\ s.epochNumber = b.epochNumber
               /\ s.epochs = b.epochs /\ s.filters = b.filters
               /\ s.isLoading = b.isLoading /\ s.isCalculatingVRF = b.isCalculatingVRF
BY DEF GetEpochDetailsReduced, Slices

LEMMA DetailsFields ==
    ASSUME NEW b \in Slices, NEW d \in Sources
    PROVE  LET s == DetailsReduced(b, d)
           IN  /\ s \in Slices
               /\ s.activeSlotRoute = b.activeSlotRoute /\ s.activeSlot = b.activeSlot
               /\ s.slots = b.slots /\ s.slotsOf = b.slotsOf /\ s.details = d
               /\ s.activeEpochNumber = IF b.activeEpochNumber \in Falsy THEN d.epoch
                                        ELSE b.activeEpochNumber
               /\ s.epochNumber = b.epochNumber
               /\ s.epochs = b.epochs /\ s.filters = b.filters
               /\ s.isLoading = b.isLoading /\ s.isCalculatingVRF = b.isCalculatingVRF
BY DEF DetailsReduced, Slices, Sources

LEMMA EpochsFields ==
    ASSUME NEW b \in Slices, NEW epochs \in SUBSET Int
    PROVE  LET s == EpochsReduced(b, epochs)
           IN  /\ s \in Slices
               /\ s.activeSlotRoute = b.activeSlotRoute /\ s.activeSlot = b.activeSlot
               /\ s.slots = b.slots /\ s.slotsOf = b.slotsOf /\ s.details = b.details
               /\ s.activeEpochNumber = b.activeEpochNumber
               /\ s.epochNumber = IF b.activeEpochNumber \in epochs THEN b.activeEpochNumber
                                  ELSE b.epochNumber
               /\ s.epochs = epochs /\ s.filters = b.filters
               /\ s.isLoading = b.isLoading /\ s.isCalculatingVRF = b.isCalculatingVRF
BY DEF EpochsReduced, Slices

LEMMA SlotsFields ==
    ASSUME NEW b \in Slices, NEW slots \in Seq(SlotRows), NEW source \in Sources,
           find(slots, "slot", b.activeSlotRoute) \in SlotRows \cup {NoRow}
    PROVE  LET s == SlotsReduced(b, slots, source)
           IN  /\ s \in Slices
               /\ s.activeSlotRoute = b.activeSlotRoute
               /\ s.activeSlot = find(slots, "slot", b.activeSlotRoute)
               /\ s.slots = slots /\ s.slotsOf = source /\ s.details = b.details
               /\ s.activeEpochNumber = b.activeEpochNumber /\ s.epochNumber = b.epochNumber
               /\ s.epochs = b.epochs /\ s.filters = b.filters
               /\ ~s.isLoading /\ (s.isCalculatingVRF <=> calculatingVRF(slots))
<1>1. PICK v \in BOOLEAN : v = calculatingVRF(slots)  BY DEF calculatingVRF
<1> DEFINE s == [b EXCEPT !.slots = slots, !.slotsOf = source, !.activeEpoch = TRUE,
                          !.activeSlot = find(slots, "slot", b.activeSlotRoute),
                          !.isLoading = FALSE, !.isCalculatingVRF = v]
<1>2. SlotsReduced(b, slots, source) = s  BY <1>1 DEF SlotsReduced
<1>3. /\ s \in Slices /\ s.isLoading = FALSE /\ s.isCalculatingVRF = v
      /\ s.activeSlotRoute = b.activeSlotRoute
      /\ s.activeSlot = find(slots, "slot", b.activeSlotRoute)
      /\ s.slots = slots /\ s.slotsOf = source /\ s.details = b.details
      /\ s.activeEpochNumber = b.activeEpochNumber /\ s.epochNumber = b.epochNumber
      /\ s.epochs = b.epochs /\ s.filters = b.filters
  BY DEF Slices
<1> HIDE DEF s
<1> QED  BY <1>1, <1>2, <1>3, Zenon

LEMMA FilterFields ==
    ASSUME NEW b \in Slices, NEW f
    PROVE  LET s == [b EXCEPT !.filters[f] = ~@]
           IN  /\ s \in Slices
               /\ s.activeSlotRoute = b.activeSlotRoute /\ s.activeSlot = b.activeSlot
               /\ s.slots = b.slots /\ s.slotsOf = b.slotsOf /\ s.details = b.details
               /\ s.activeEpochNumber = b.activeEpochNumber /\ s.epochNumber = b.epochNumber
               /\ s.epochs = b.epochs
               /\ s.isLoading = b.isLoading /\ s.isCalculatingVRF = b.isCalculatingVRF
BY DEF Slices

\* rows.find: a row with that slot, or none.
LEMMA LeastIndex ==
    ASSUME NEW S \in SUBSET Nat, S # {}
    PROVE  \E m \in S : \A n \in S : m <= n
<1> DEFINE R == OpToRel(<, Nat)
<1>1. PICK m \in S : \A n \in S : ~ (<<n, m>> \in R)
  <2> HIDE DEF R
  <2> QED  BY NatLessThanWellFounded, WFMin DEF R
<1>2. \A n \in S : ~ (n < m)  BY <1>1 DEF OpToRel
<1> QED  BY <1>2

LEMMA FindSlot ==
    ASSUME NEW s \in Seq(SlotRows), NEW slot
    PROVE  /\ find(s, "slot", slot) \in SlotRows \cup {NoRow}
           /\ find(s, "slot", slot) # NoRow =>
                /\ find(s, "slot", slot) \in ToSet(s)
                /\ find(s, "slot", slot).slot = slot
<1> DEFINE found == {i \in DOMAIN s : s[i]["slot"] = slot}
<1>1. CASE found = {}  BY <1>1 DEF find
<1>2. CASE found # {}
  <2> DEFINE i == CHOOSE i \in found : \A j \in found : i <= j
  <2>1. DOMAIN s = 1..Len(s) /\ Len(s) \in Nat  OBVIOUS
  <2>2. found \in SUBSET Nat  BY <2>1
  <2>3. i \in found
    <3>1. \E k \in found : \A j \in found : k <= j  BY <1>2, <2>2, LeastIndex
    <3> HIDE DEF found
    <3> QED  BY <3>1
  <2>4. find(s, "slot", slot) = s[i]  BY <1>2 DEF find
  <2> HIDE DEF i
  <2>5. s[i] \in SlotRows /\ s[i].slot = slot /\ s[i] \in ToSet(s)  BY <2>3 DEF ToSet
  <2> QED  BY <2>4, <2>5
<1> QED  BY <1>1, <1>2

\* getSlots of the service answers with a row for each slot.
LEMMA MapSlotsRows ==
    ASSUME NEW answer \in SlotAnswers
    PROVE  mapSlots(answer.slots, answer.current) \in Seq(SlotRows)
<1> DEFINE response == answer.slots
           current == {i \in DOMAIN response : response[i].global_slot = answer.current}
           index == IF current = {} THEN 0 ELSE Min(current)
           row(i) == [slot |-> response[i].slot,
                      finished |-> i < index /\ response[i].block_status # "Empty",
                      canonical |-> response[i].block_status \in {"Canonical", "CanonicalPending"},
                      orphaned |-> response[i].block_status \in {"Orphaned", "OrphanedPending"},
                      missed |-> response[i].block_status = "Missed",
                      futureRights |-> response[i].block_status = "ToBeProduced",
                      active |-> i = index]
<1>1. response \in Seq(ToSet(response))  BY EpochAssumption
<1>2. DOMAIN response = 1..Len(response) /\ Len(response) \in Nat  BY <1>1
<1>3. mapSlots(response, answer.current) = [i \in 1..Len(response) |-> row(i)]
  BY <1>2 DEF mapSlots
<1>4. ASSUME NEW i \in 1..Len(response) PROVE row(i) \in SlotRows
  <2>1. response[i].slot \in SlotNumbers  BY <1>2 DEF SlotNumbers
  <2> DEFINE f1 == i < index /\ response[i].block_status # "Empty"
             f2 == response[i].block_status \in {"Canonical", "CanonicalPending"}
             f3 == response[i].block_status \in {"Orphaned", "OrphanedPending"}
             f4 == response[i].block_status = "Missed"
             f5 == response[i].block_status = "ToBeProduced"
             f6 == i = index
  <2>2. f1 \in BOOLEAN /\ f2 \in BOOLEAN /\ f3 \in BOOLEAN /\ f4 \in BOOLEAN /\ f5 \in BOOLEAN /\ f6 \in BOOLEAN
    OBVIOUS
  <2>3. row(i) = [slot |-> response[i].slot, finished |-> f1, canonical |-> f2, orphaned |-> f3,
                  missed |-> f4, futureRights |-> f5, active |-> f6]
    BY Zenon
  <2> HIDE DEF f1, f2, f3, f4, f5, f6, row, response
  <2> QED  BY <2>1, <2>2, <2>3 DEF SlotRows
<1>5. [i \in 1..Len(response) |-> row(i)] \in Seq(SlotRows)
  <2> HIDE DEF row, response
  <2> QED  BY <1>2, <1>4
<1> QED  BY <1>3, <1>5

\* The epochs of the graphs include the one that was asked for.
LEMMA EpochAnswered ==
    ASSUME NEW epoch \in 0..LastEpoch
    PROVE  EpochsAnswered(epoch) \in SUBSET Int /\ epoch \in EpochsAnswered(epoch)
<1> DEFINE last == Max({epoch + 3, 6})
<1>1. epoch \in Nat /\ LastEpoch \in Nat  BY EpochAssumption
<1>2. last = IF epoch + 3 >= 6 THEN epoch + 3 ELSE 6
  <2>1. \E x \in {epoch + 3, 6} : \A y \in {epoch + 3, 6} : x >= y  BY <1>1
  <2>2. last \in {epoch + 3, 6} /\ \A y \in {epoch + 3, 6} : last >= y  BY <2>1 DEF Max
  <2> HIDE DEF last
  <2> QED  BY <1>1, <2>2
<1> HIDE DEF last
<1>3. EpochsAnswered(epoch) = ((last - 6)..last) \cap 0..LastEpoch  BY DEF EpochsAnswered, last
<1> QED  BY <1>1, <1>2, <1>3

\* The map: rectangles are made for the first slots and recoloured for later ones,
\* which are as many.
LEMMA MapDrawn ==
    ASSUME bp \in Slices, SlotsFit(bp), Drawn(bp, rects), NEW s \in Slices, SlotsFit(s)
    PROVE  Drawn(s, rectsShown(s))
<1>1. ASSUME NEW b \in Slices, SlotsFit(b), normalView(b)
      PROVE  b.slots = <<>> \/ DOMAIN b.slots = 1..SLOTS_PER_EPOCH
  <2>1. Len(b.slots) \in {0, SLOTS_PER_EPOCH}  BY <1>1 DEF SlotsFit, normalView, calculatingVRF
  <2>2. b.slots \in Seq(SlotRows)  BY DEF Slices
  <2> QED  BY <2>1, <2>2, EpochAssumption
<1>2. ASSUME NEW b PROVE DOMAIN Colors(b) = DOMAIN b.slots  BY DEF Colors
<1>3. CASE ~normalView(s)  BY <1>3 DEF Drawn, rectsShown
<1>4. CASE normalView(s) /\ s.slots = <<>>
  <2>1. DOMAIN Colors(s) = {}  BY <1>2, <1>4
  <2>2. Colors(s) = <<>>  BY <1>4, <2>1 DEF Colors
  <2> QED  BY <1>4, <2>2 DEF Drawn, rectsShown
<1>5. CASE normalView(s) /\ s.slots # <<>> /\ rects = <<>>  BY <1>5 DEF Drawn, rectsShown
<1>6. CASE normalView(s) /\ s.slots # <<>> /\ rects # <<>>
  <2>1. DOMAIN s.slots = 1..SLOTS_PER_EPOCH  BY <1>1, <1>6
  <2>2. normalView(bp) /\ rects = Colors(bp)  BY <1>6 DEF Drawn
  <2>3. bp.slots # <<>>
    <3> SUFFICES ASSUME bp.slots = <<>> PROVE FALSE  OBVIOUS
    <3>1. Colors(bp) = <<>>  BY DEF Colors
    <3> QED  BY <3>1, <2>2, <1>6
  <2>4. DOMAIN rects = 1..SLOTS_PER_EPOCH  BY <1>1, <1>2, <2>2, <2>3
  <2>5. rectsShown(s) = [i \in DOMAIN rects |-> IF i \in DOMAIN s.slots THEN Colors(s)[i] ELSE rects[i]]
    BY <1>6 DEF rectsShown
  <2>6. rectsShown(s) = [i \in DOMAIN s.slots |-> Colors(s)[i]]  BY <2>1, <2>4, <2>5
  <2>7. Colors(s) = [i \in DOMAIN s.slots |-> Colors(s)[i]]  BY DEF Colors
  <2> QED  BY <1>6, <2>6, <2>7 DEF Drawn
<1> QED  BY <1>3, <1>4, <1>5, <1>6

\* What is to be shown of a step that leaves the page open.
LEMMA EpochStep ==
    ASSUME NEW s \in Slices, EpochInv, SlotsFit(s), BpShown(s), page' = "bp-overview",
           rust' \in RustNodes, bpReq' \in Requests, bpUrl' \in [epoch : Int, slot : Routes],
           PartsFit(s, bpReq', rust')
    PROVE  EpochInv'
<1>1. bp' = s /\ rects' = rectsShown(s)  BY DEF BpShown
<1>2. Drawn(s, rectsShown(s))  BY MapDrawn DEF EpochInv, EpochTypes
<1>3. EpochPartsFit'  BY <1>1 DEF PartsFit, EpochPartsFit
<1> QED  BY <1>1, <1>2, <1>3 DEF EpochInv, EpochTypes

\* A reducer that touches neither slots nor spinner keeps what is known of them.
LEMMA SlotsKept ==
    ASSUME NEW b, NEW s, SlotsFit(b), s.slots = b.slots,
           s.isLoading = b.isLoading, s.isCalculatingVRF = b.isCalculatingVRF,
           s.activeSlot = find(s.slots, "slot", s.activeSlotRoute)
    PROVE  SlotsFit(s)
BY DEF SlotsFit

\* Asking for an epoch, from the URL or by the pagination.
LEMMA AskedFit ==
    ASSUME NEW s \in Slices, bpReq \in Requests, rust' \in RustNodes, NEW epoch \in Int,
           s.activeEpochNumber = epoch
    PROVE  Asked(bpReq, s, epoch) \in Requests /\ PartsFit(s, Asked(bpReq, s, epoch), rust')
<1> DEFINE q == Asked(bpReq, s, epoch)
           r == [node |-> rust', epoch |-> epoch, slot |-> s.activeSlotRoute]
<1>1. s.activeSlotRoute \in Routes  BY DEF Slices
<1>2. r \in [node : RustNodes, epoch : Int, slot : Routes]  BY <1>1
<1>3. r.node = rust' /\ r.epoch = epoch  OBVIOUS
<1>4. q = [bpReq EXCEPT !.details = {r}]  BY DEF Asked, switchMap
<1> HIDE DEF q, r
<1>5. q \in Requests /\ q.details = {r}  BY <1>2, <1>4 DEF Requests
<1>6. PartsFit(s, q, rust')  BY <1>3, <1>5 DEF PartsFit
<1> QED  BY <1>5, <1>6 DEF q

LEMMA AskForUrlKept ==
    ASSUME EpochInv, NEW url \in [epoch : Int, slot : Routes], AskForUrl(url),
           page' = "bp-overview", rust' \in RustNodes
    PROVE  EpochInv'
<1> DEFINE a == SetActiveSlotReduced(bp, url.slot)
           s == GetEpochDetailsReduced(a, url.epoch)
<1>1. bp \in Slices /\ bpReq \in Requests /\ SlotsFit(bp)  BY DEF EpochInv, EpochTypes
<1>2. url.epoch \in Int /\ url.slot \in Routes  OBVIOUS
<1>3. BpShown(s) /\ bpUrl' = url /\ bpReq' = Asked(bpReq, s, url.epoch)  BY DEF AskForUrl
<1>4. bp.slots \in Seq(SlotRows)  BY <1>1 DEF Slices
<1>5. find(bp.slots, "slot", url.slot) \in SlotRows \cup {NoRow}  BY <1>4, FindSlot
<1>6. /\ a \in Slices /\ a.slots = bp.slots /\ a.activeSlotRoute = url.slot
      /\ a.activeSlot = find(bp.slots, "slot", url.slot)
      /\ a.isLoading = bp.isLoading /\ a.isCalculatingVRF = bp.isCalculatingVRF
  BY <1>1, <1>2, <1>5, SetActiveSlotFields
<1> HIDE DEF a
<1>7. /\ s \in Slices /\ s.slots = a.slots /\ s.activeSlotRoute = a.activeSlotRoute
      /\ s.activeSlot = a.activeSlot /\ s.activeEpochNumber = url.epoch
      /\ s.isLoading = a.isLoading /\ s.isCalculatingVRF = a.isCalculatingVRF
  BY <1>2, <1>6, GetEpochDetailsFields
<1> HIDE DEF s
<1>8. SlotsFit(s)
  <2>1. s.slots = bp.slots /\ s.isLoading = bp.isLoading /\ s.isCalculatingVRF = bp.isCalculatingVRF
    BY <1>6, <1>7, Zenon
  <2>2. s.activeSlot = find(s.slots, "slot", s.activeSlotRoute)  BY <1>6, <1>7, Zenon
  <2> QED  BY <1>1, <2>1, <2>2, SlotsKept
<1>9. bpReq' \in Requests /\ PartsFit(s, bpReq', rust')  BY <1>1, <1>2, <1>3, <1>7, AskedFit
<1> QED  BY <1>3, <1>7, <1>8, <1>9, EpochStep

LEMMA PartsKept ==
    ASSUME NEW b, NEW s, NEW q, NEW node, PartsFit(b, q, node), s.details = b.details,
           s.slotsOf = b.slotsOf, s.activeEpochNumber = b.activeEpochNumber,
           s.epochs = b.epochs, s.epochNumber = b.epochNumber
    PROVE  PartsFit(s, q, node)
BY DEF PartsFit

\* An answer comes to an open page only: the requests of a closed one are cancelled.
LEMMA EpochOpenForAnswers ==
    ASSUME EpochInv, page # "ended", bpReq.details # {} \/ bpReq.epochs # {} \/ bpReq.slots # {}
    PROVE  page = "bp-overview" /\ PartsFit(bp, bpReq, rust)
BY DEF EpochInv, NoBpReq

\* A slot is chosen, or none.
LEMMA SlotChosen ==
    ASSUME EpochInv, page = "bp-overview", page' = page, UNCHANGED <<rust, bpReq>>,
           NEW slot \in Routes, BpShown(SetActiveSlotReduced(bp, slot)),
           bpUrl' \in [epoch : Int, slot : Routes]
    PROVE  EpochInv'
<1> DEFINE s == SetActiveSlotReduced(bp, slot)
<1>1. bp \in Slices /\ bpReq \in Requests /\ SlotsFit(bp) /\ rust \in RustNodes /\ PartsFit(bp, bpReq, rust)
  BY DEF EpochInv, EpochTypes
<1>2. bp.slots \in Seq(SlotRows)  BY <1>1 DEF Slices
<1>3. find(bp.slots, "slot", slot) \in SlotRows \cup {NoRow}  BY <1>2, FindSlot
<1>4. /\ s \in Slices
      /\ s.activeSlotRoute = slot /\ s.activeSlot = find(bp.slots, "slot", slot)
      /\ s.slots = bp.slots /\ s.slotsOf = bp.slotsOf /\ s.details = bp.details
      /\ s.activeEpochNumber = bp.activeEpochNumber /\ s.epochNumber = bp.epochNumber
      /\ s.epochs = bp.epochs
      /\ s.isLoading = bp.isLoading /\ s.isCalculatingVRF = bp.isCalculatingVRF
  BY <1>1, <1>3, SetActiveSlotFields
<1> HIDE DEF s
<1>5. SlotsFit(s)
  <2>1. s.activeSlot = find(s.slots, "slot", s.activeSlotRoute)  BY <1>4, Zenon
  <2> QED  BY <1>1, <1>4, <2>1, SlotsKept
<1>6. PartsFit(s, bpReq, rust)  BY <1>1, <1>4, PartsKept
<1>7. BpShown(s)  BY DEF s
<1> QED  BY <1>1, <1>4, <1>5, <1>6, <1>7, EpochStep

LEMMA DetailsAnswered ==
    ASSUME EpochInv, page # "ended", GetEpochDetailsSuccess
    PROVE  EpochInv'
<1>1. PICK r \in bpReq.details :
        LET epoch == IF r.epoch = None THEN LastEpoch ELSE r.epoch
            s == DetailsReduced(bp, [node |-> r.node, epoch |-> epoch])
        IN  /\ epoch \in 0..LastEpoch
            /\ BpShown(s)
            /\ bpUrl' = [epoch |-> epoch, slot |-> IF r.slot \in Falsy THEN NaN ELSE r.slot]
            /\ bpReq' = [bpReq EXCEPT !.details = Completed(@, r),
                   !.epochs = switchMap(@, [node |-> rust, epoch |-> epoch]),
                   !.slots = switchMap(@, [node |-> rust, epoch |-> s.activeEpochNumber])]
            /\ UNCHANGED <<page, rust>>
  BY DEF GetEpochDetailsSuccess
<1> DEFINE epoch == IF r.epoch = None THEN LastEpoch ELSE r.epoch
           d == [node |-> rust, epoch |-> epoch]
           s == DetailsReduced(bp, d)
<1>2. page = "bp-overview" /\ PartsFit(bp, bpReq, rust)  BY EpochOpenForAnswers
<1>3. bp \in Slices /\ bpReq \in Requests /\ SlotsFit(bp) /\ rust \in RustNodes
  BY DEF EpochInv, EpochTypes
<1>4. r.node = rust /\ r.epoch = bp.activeEpochNumber /\ Completed(bpReq.details, r) = {}
  BY <1>2 DEF PartsFit, Completed
<1>5. epoch \in 0..LastEpoch /\ epoch \in Int  BY <1>1, EpochAssumption
<1>6. BpShown(s)  BY <1>1, <1>4
<1>7. d \in Sources /\ d # NoSource /\ d.node = rust /\ d.epoch = epoch
  <2>1. d \in Sources /\ d.node = rust /\ d.epoch = epoch
    <3> HIDE DEF epoch
    <3> QED  BY <1>3, <1>5 DEF Sources
  <2>2. epoch # None  BY <1>5, EpochAssumption DEF None
  <2>3. d # NoSource
    <3> HIDE DEF epoch
    <3> QED  BY <2>2 DEF NoSource
  <2> QED  BY <2>1, <2>3
<1> HIDE DEF d
<1>8. /\ s \in Slices /\ s.slots = bp.slots /\ s.details = d
      /\ s.activeSlotRoute = bp.activeSlotRoute /\ s.activeSlot = bp.activeSlot
      /\ s.activeEpochNumber = (IF bp.activeEpochNumber \in Falsy THEN d.epoch ELSE bp.activeEpochNumber)
      /\ s.isLoading = bp.isLoading /\ s.isCalculatingVRF = bp.isCalculatingVRF
  BY <1>3, <1>7, DetailsFields
<1> HIDE DEF s
<1>9. s.activeEpochNumber = epoch
  <2>1. CASE r.epoch = None  BY <1>4, <1>7, <1>8, <2>1 DEF Falsy
  <2>2. CASE r.epoch # None
    <3>1. epoch = r.epoch /\ epoch = bp.activeEpochNumber  BY <1>4, <2>2
    <3> QED  BY <1>7, <1>8, <3>1
  <2> QED  BY <2>1, <2>2
<1>10. bpReq' = [bpReq EXCEPT !.details = {}, !.epochs = {d}, !.slots = {d}]
  BY <1>1, <1>4, <1>9 DEF s, d, switchMap
<1> HIDE DEF epoch
<1>11. bpReq' \in Requests /\ bpReq'.details = {} /\ bpReq'.epochs = {d} /\ bpReq'.slots = {d}
  BY <1>3, <1>7, <1>10 DEF Requests
<1>12. PartsFit(s, bpReq', rust)  BY <1>5, <1>7, <1>8, <1>9, <1>11 DEF PartsFit
<1>13. bpUrl' \in [epoch : Int, slot : Routes]
  <2>1. r.slot \in Routes  BY <1>3 DEF Requests
  <2>2. NaN \in Routes  BY DEF Routes
  <2> QED  BY <1>1, <1>5, <2>1, <2>2 DEF epoch
<1>14. SlotsFit(s)
  <2>1. s.activeSlot = find(s.slots, "slot", s.activeSlotRoute)  BY <1>3, <1>8 DEF SlotsFit
  <2> QED  BY <1>3, <1>8, <2>1, SlotsKept
<1>15. page' = page /\ rust' = rust  BY <1>1
<1> QED  BY <1>2, <1>3, <1>6, <1>8, <1>11, <1>12, <1>13, <1>14, <1>15, EpochStep

LEMMA DetailsFailed ==
    ASSUME EpochInv, page # "ended", GetEpochDetailsError
    PROVE  EpochInv'
<1> DEFINE s == DetailsReduced(bp, NoSource)
<1>1. /\ bpReq.details # {} /\ BpShown(s) /\ UNCHANGED <<page, rust, bpUrl>>
      /\ bpReq' = [bpReq EXCEPT !.details = {}]
  BY DEF GetEpochDetailsError, catchErrorAndRepeat
<1>2. page = "bp-overview"  BY <1>1, EpochOpenForAnswers
<1>3. /\ bp \in Slices /\ bpReq \in Requests /\ SlotsFit(bp) /\ rust \in RustNodes
      /\ bpUrl \in [epoch : Int, slot : Routes]
  BY DEF EpochInv, EpochTypes
<1>4. NoSource \in Sources  BY DEF NoSource, Sources, None
<1>5. /\ s \in Slices /\ s.slots = bp.slots /\ s.details = NoSource
      /\ s.activeSlotRoute = bp.activeSlotRoute /\ s.activeSlot = bp.activeSlot
      /\ s.isLoading = bp.isLoading /\ s.isCalculatingVRF = bp.isCalculatingVRF
  BY <1>3, <1>4, DetailsFields
<1> HIDE DEF s
<1>6. bpReq' \in Requests /\ bpReq'.details = {}  BY <1>1, <1>3 DEF Requests
<1>7. PartsFit(s, bpReq', rust)  BY <1>5, <1>6 DEF PartsFit
<1>8. SlotsFit(s)
  <2>1. s.activeSlot = find(s.slots, "slot", s.activeSlotRoute)  BY <1>3, <1>5 DEF SlotsFit
  <2> QED  BY <1>3, <1>5, <2>1, SlotsKept
<1> QED  BY <1>1, <1>2, <1>3, <1>5, <1>6, <1>7, <1>8, EpochStep

LEMMA EpochsCome ==
    ASSUME EpochInv, page # "ended", GetEpochsSuccess
    PROVE  EpochInv'
<1>1. PICK r \in bpReq.epochs, ok \in BOOLEAN :
        /\ BpShown(EpochsReduced(bp, IF ok THEN EpochsAnswered(r.epoch) ELSE {}))
        /\ bpReq' = [bpReq EXCEPT !.epochs = Completed(@, r)]
        /\ UNCHANGED <<page, rust, bpUrl>>
  BY DEF GetEpochsSuccess
<1> DEFINE epochs == IF ok THEN EpochsAnswered(r.epoch) ELSE {}
           s == EpochsReduced(bp, epochs)
<1>2. page = "bp-overview" /\ PartsFit(bp, bpReq, rust)  BY EpochOpenForAnswers
<1>3. /\ bp \in Slices /\ bpReq \in Requests /\ SlotsFit(bp) /\ rust \in RustNodes
      /\ bpUrl \in [epoch : Int, slot : Routes]
  BY DEF EpochInv, EpochTypes
<1>4. epochs \in SUBSET Int  BY EpochAssumption DEF EpochsAnswered
<1>5. BpShown(s)  BY <1>1
<1>6. bpReq' = [bpReq EXCEPT !.epochs = bpReq.epochs \ {r}]  BY <1>1 DEF Completed
<1>7. /\ bpReq' \in Requests /\ bpReq'.details = bpReq.details /\ bpReq'.slots = bpReq.slots
      /\ bpReq'.epochs = bpReq.epochs \ {r}
  BY <1>3, <1>6 DEF Requests
<1>8. ASSUME bpReq.epochs = {bp.details}, bp.details.epoch \in 0..LastEpoch
      PROVE  epochs = {} \/ bp.details.epoch \in epochs
  <2>1. r = bp.details  BY <1>8
  <2> QED  BY <1>8, <2>1, EpochAnswered
<1> HIDE DEF epochs
<1>9. /\ s \in Slices
      /\ s.activeSlotRoute = bp.activeSlotRoute /\ s.activeSlot = bp.activeSlot
      /\ s.slots = bp.slots /\ s.slotsOf = bp.slotsOf /\ s.details = bp.details
      /\ s.activeEpochNumber = bp.activeEpochNumber
      /\ s.epochNumber = (IF bp.activeEpochNumber \in epochs THEN bp.activeEpochNumber ELSE bp.epochNumber)
      /\ s.epochs = epochs
      /\ s.isLoading = bp.isLoading /\ s.isCalculatingVRF = bp.isCalculatingVRF
  BY <1>3, <1>4, EpochsFields
<1> HIDE DEF s
<1>10. PartsFit(s, bpReq', rust)
  <2>1. /\ \A r1, r2 \in bpReq'.details : r1 = r2
        /\ \A r1 \in bpReq'.details : r1.node = rust /\ r1.epoch = s.activeEpochNumber
    BY <1>2, <1>7, <1>9 DEF PartsFit
  <2>2. ASSUME bpReq.details = {}, bp.details # NoSource
        PROVE  /\ bp.details.node = rust /\ bp.details.epoch \in 0..LastEpoch
               /\ bp.activeEpochNumber = bp.details.epoch
               /\ bpReq.slots = {bp.details} \/ (bpReq.slots = {} /\ bp.slotsOf = bp.details)
               /\ bpReq.epochs = {bp.details}
    BY <1>2, <2>2 DEF PartsFit
  <2>3. ASSUME bpReq.details = {}, bp.details # NoSource
        PROVE  bpReq'.epochs = {} /\ (s.epochs = {} \/ s.epochNumber = bp.details.epoch)
    <3>1. r = bp.details /\ bpReq'.epochs = {}  BY <1>7, <2>2, <2>3
    <3>2. epochs = {} \/ bp.details.epoch \in epochs  BY <1>8, <2>2, <2>3
    <3> QED  BY <1>9, <2>2, <2>3, <3>1, <3>2
  <2> QED  BY <1>7, <1>9, <2>1, <2>2, <2>3 DEF PartsFit
<1>11. SlotsFit(s)
  <2>1. s.activeSlot = find(s.slots, "slot", s.activeSlotRoute)  BY <1>3, <1>9 DEF SlotsFit
  <2> QED  BY <1>3, <1>9, <2>1, SlotsKept
<1> QED  BY <1>1, <1>2, <1>3, <1>5, <1>7, <1>9, <1>10, <1>11, EpochStep

\* Slots of any request for slots arrive, or none after an error.
LEMMA SlotsCome ==
    ASSUME EpochInv, page = "bp-overview", page' = page, UNCHANGED <<rust, bpUrl>>,
           PartsFit(bp, bpReq, rust), NEW r \in bpReq.slots, NEW slots \in Seq(SlotRows),
           BpShown(SlotsReduced(bp, slots, r)),
           NEW left, left = bpReq.slots \ {r} \/ left = {}, bpReq' = [bpReq EXCEPT !.slots = left]
    PROVE  EpochInv'
<1> DEFINE s == SlotsReduced(bp, slots, r)
<1>1. /\ bp \in Slices /\ bpReq \in Requests /\ SlotsFit(bp) /\ rust \in RustNodes
      /\ bpUrl \in [epoch : Int, slot : Routes]
  BY DEF EpochInv, EpochTypes
<1>2. r \in Sources  BY <1>1 DEF Requests
<1>3. find(slots, "slot", bp.activeSlotRoute) \in SlotRows \cup {NoRow}  BY FindSlot
<1>4. /\ s \in Slices
      /\ s.activeSlotRoute = bp.activeSlotRoute
      /\ s.activeSlot = find(slots, "slot", bp.activeSlotRoute)
      /\ s.slots = slots /\ s.slotsOf = r /\ s.details = bp.details
      /\ s.activeEpochNumber = bp.activeEpochNumber /\ s.epochNumber = bp.epochNumber
      /\ s.epochs = bp.epochs
      /\ ~s.isLoading /\ (s.isCalculatingVRF <=> calculatingVRF(slots))
  BY <1>1, <1>2, <1>3, SlotsFields
<1> HIDE DEF s
<1>5. SlotsFit(s)  BY <1>4, Zenon DEF SlotsFit
<1>6. /\ bpReq' \in Requests /\ bpReq'.details = bpReq.details /\ bpReq'.epochs = bpReq.epochs
      /\ bpReq'.slots = left
  BY <1>1 DEF Requests
<1>7. bpReq.slots = {bp.details} => r = bp.details /\ left = {}  OBVIOUS
<1>8. bpReq.slots # {}  OBVIOUS
<1>9. PartsFit(s, bpReq', rust)  BY <1>4, <1>6, <1>7, <1>8 DEF PartsFit
<1>10. BpShown(s)  BY DEF s
<1> QED  BY <1>1, <1>4, <1>5, <1>6, <1>9, <1>10, EpochStep

LEMMA EpochPaged ==
    ASSUME EpochInv, changeActiveEpoch
    PROVE  EpochInv'
<1>1. /\ page = "bp-overview" /\ page' = page /\ UNCHANGED <<rust, bpUrl>>
  BY DEF changeActiveEpoch, On
<1>2. /\ bp \in Slices /\ bpReq \in Requests /\ SlotsFit(bp) /\ rust \in RustNodes
      /\ bpUrl \in [epoch : Int, slot : Routes]
  BY DEF EpochInv, EpochTypes
<1>3. bp.epochNumber \in Int  BY <1>2 DEF Slices
<1>4. PICK epoch \in (IF bp.epochNumber = None THEN {NaN, None}
                      ELSE ({bp.epochNumber - 1} \cap Nat)
                           \cup (IF bp.epochNumber = LastEpoch THEN {} ELSE {bp.epochNumber + 1, None})) :
        /\ BpShown(GetEpochDetailsReduced(bp, epoch))
        /\ bpReq' = Asked(bpReq, GetEpochDetailsReduced(bp, epoch), epoch)
  BY DEF changeActiveEpoch
<1>5. epoch \in Int  BY <1>3, <1>4 DEF None, NaN
<1> DEFINE s == GetEpochDetailsReduced(bp, epoch)
<1>6. BpShown(s) /\ bpReq' = Asked(bpReq, s, epoch)  BY <1>4
<1>7. /\ s \in Slices /\ s.slots = bp.slots /\ s.activeSlotRoute = bp.activeSlotRoute
      /\ s.activeSlot = bp.activeSlot /\ s.activeEpochNumber = epoch
      /\ s.isLoading = bp.isLoading /\ s.isCalculatingVRF = bp.isCalculatingVRF
  BY <1>2, <1>5, GetEpochDetailsFields
<1> HIDE DEF s
<1>8. SlotsFit(s)
  <2>1. s.activeSlot = find(s.slots, "slot", s.activeSlotRoute)  BY <1>2, <1>7 DEF SlotsFit
  <2> QED  BY <1>2, <1>7, <2>1, SlotsKept
<1>9. bpReq' \in Requests /\ PartsFit(s, bpReq', rust')  BY <1>1, <1>2, <1>5, <1>6, <1>7, AskedFit
<1> QED  BY <1>1, <1>2, <1>6, <1>7, <1>8, <1>9, EpochStep

LEMMA EpochFiltered ==
    ASSUME EpochInv, EpochChangeFilter
    PROVE  EpochInv'
<1>1. /\ page = "bp-overview" /\ page' = page /\ UNCHANGED <<rust, bpUrl, bpReq>>
  BY DEF EpochChangeFilter, On
<1>2. /\ bp \in Slices /\ bpReq \in Requests /\ SlotsFit(bp) /\ rust \in RustNodes
      /\ bpUrl \in [epoch : Int, slot : Routes] /\ PartsFit(bp, bpReq, rust)
  BY <1>1 DEF EpochInv, EpochTypes
<1>3. PICK f \in EpochFilters : BpShown([bp EXCEPT !.filters[f] = ~@])  BY DEF EpochChangeFilter
<1> DEFINE s == [bp EXCEPT !.filters[f] = ~@]
<1>4. /\ s \in Slices
      /\ s.activeSlotRoute = bp.activeSlotRoute /\ s.activeSlot = bp.activeSlot
      /\ s.slots = bp.slots /\ s.slotsOf = bp.slotsOf /\ s.details = bp.details
      /\ s.activeEpochNumber = bp.activeEpochNumber /\ s.epochNumber = bp.epochNumber
      /\ s.epochs = bp.epochs
      /\ s.isLoading = bp.isLoading /\ s.isCalculatingVRF = bp.isCalculatingVRF
  BY <1>2, FilterFields
<1>5. BpShown(s)  BY <1>3
<1> HIDE DEF s
<1>6. SlotsFit(s)
  <2>1. s.activeSlot = find(s.slots, "slot", s.activeSlotRoute)  BY <1>2, <1>4 DEF SlotsFit
  <2> QED  BY <1>2, <1>4, <2>1, SlotsKept
<1>7. PartsFit(s, bpReq, rust)  BY <1>2, <1>4, PartsKept
<1> QED  BY <1>1, <1>2, <1>4, <1>5, <1>6, <1>7, EpochStep

\* The initial slice, also the one a closed page leaves.
LEMMA InitialSlice ==
    /\ initialEpoch \in Slices /\ SlotsFit(initialEpoch) /\ Drawn(initialEpoch, <<>>)
    /\ NoBpReq \in Requests /\ NoBpUrl \in [epoch : Int, slot : Routes]
    /\ \A node : PartsFit(initialEpoch, NoBpReq, node)
    /\ initialEpoch.details = NoSource
<1>1. initialEpoch \in Slices
  <2>1. NoSource \in Sources  BY DEF NoSource, Sources, None
  <2>2. None \in Int /\ NaN \in Routes  BY DEF None, NaN, Routes
  <2> QED  BY <2>1, <2>2 DEF initialEpoch, Slices
<1>2. find(<<>>, "slot", NaN) = NoRow  BY DEF find
<1>3. SlotsFit(initialEpoch)  BY <1>2 DEF SlotsFit, initialEpoch
<1>4. Drawn(initialEpoch, <<>>)  BY DEF Drawn, normalView, initialEpoch
<1>5. NoBpReq \in Requests  BY DEF NoBpReq, Requests
<1>6. NoBpUrl \in [epoch : Int, slot : Routes]  BY DEF NoBpUrl, Routes, None, NaN
<1>7. initialEpoch.details = NoSource  BY DEF initialEpoch
<1>8. NoBpReq.details = {}  BY DEF NoBpReq
<1>9. \A node : PartsFit(initialEpoch, NoBpReq, node)  BY <1>7, <1>8 DEF PartsFit
<1> QED  BY <1>1, <1>3, <1>4, <1>5, <1>6, <1>7, <1>9

\* The page is closed, or the application reloaded.
LEMMA EpochClosed ==
    ASSUME bp' = initialEpoch, bpReq' = NoBpReq, bpUrl' = NoBpUrl, rects' = <<>>, rust' \in RustNodes
    PROVE  EpochInv'
<1>1. EpochTypes' /\ SlotsFit(bp)' /\ Drawn(bp, rects)'  BY InitialSlice DEF EpochTypes
<1>2. PartsFit(bp, bpReq, rust)'  BY InitialSlice
<1>3. EpochPartsFit'  BY InitialSlice DEF EpochPartsFit
<1> QED  BY <1>1, <1>2, <1>3 DEF EpochInv

\* The error of setActiveSlot comes before the slots do, so nothing is on display
\* that the next node could be taken for.
LEMMA EpochThrown ==
    ASSUME EpochInv, page # "ended", EpochNodeChangeThrows
    PROVE  EpochInv'
<1>1. /\ page = "bp-overview" /\ page' = "ended" /\ UNCHANGED bpVars /\ rust' \in RustNodes
      /\ bp.slotsOf = NoSource
  BY DEF EpochNodeChangeThrows, Throws, changeRustNode
<1>2. EpochTypes' /\ SlotsFit(bp)' /\ Drawn(bp, rects)'
  BY <1>1 DEF EpochInv, EpochTypes, bpVars, SlotsFit, Drawn
<1>3. PartsFit(bp, bpReq, rust) /\ EpochPartsFit  BY DEF EpochInv
<1>4. EpochPartsFit'
  <2>1. bpReq.details = {} /\ bpReq.slots = {} /\ bp.details # NoSource => FALSE
    BY <1>1, <1>3 DEF PartsFit
  <2> QED  BY <1>1, <1>3, <2>1 DEF EpochPartsFit, bpVars
<1> QED  BY <1>1, <1>2, <1>4 DEF EpochInv

LEMMA EpochKept ==
    ASSUME EpochInv, page # "ended", EpochNext
    PROVE  EpochInv'
<1>1. rust \in RustNodes /\ bpUrl \in [epoch : Int, slot : Routes] /\ bp \in Slices
  BY DEF EpochInv, EpochTypes
<1>2. CASE EpochOpen
  <2>1. page' = "bp-overview" /\ rust' = rust  BY <1>2 DEF EpochOpen, Enter
  <2>2. PICK url \in [epoch: 0..LastEpoch, slot: {NaN, 1}] \cup {NoBpUrl} : AskForUrl(url)
    BY <1>2 DEF EpochOpen
  <2>3. url \in [epoch : Int, slot : Routes]
    <3>1. CASE url = NoBpUrl  BY <3>1, InitialSlice
    <3>2. CASE url \in [epoch: 0..LastEpoch, slot: {NaN, 1}]  BY <3>2, EpochAssumption DEF Routes
    <3> QED  BY <3>1, <3>2
  <2> QED  BY <1>1, <2>1, <2>2, <2>3, AskForUrlKept
<1>3. CASE EpochNodeChange
  <2>1. page' = "bp-overview" /\ rust' \in RustNodes /\ AskForUrl(bpUrl)
    BY <1>3 DEF EpochNodeChange, changeRustNode
  <2> QED  BY <1>1, <2>1, AskForUrlKept
<1>4. CASE EpochNodeChangeThrows  BY <1>4, EpochThrown
<1>5. CASE GetEpochDetailsSuccess  BY <1>5, DetailsAnswered
<1>6. CASE GetEpochDetailsError  BY <1>6, DetailsFailed
<1>7. CASE GetEpochsSuccess  BY <1>7, EpochsCome
<1>8. CASE GetSlotsSuccess
  <2>1. PICK r \in bpReq.slots, answer \in SlotAnswers :
          /\ BpShown(SlotsReduced(bp, mapSlots(answer.slots, answer.current), r))
          /\ bpReq' = [bpReq EXCEPT !.slots = bpReq.slots \ {r}]
          /\ UNCHANGED <<page, rust, bpUrl>>
    BY <1>8 DEF GetSlotsSuccess, Completed
  <2>2. page = "bp-overview" /\ PartsFit(bp, bpReq, rust)  BY EpochOpenForAnswers
  <2>3. mapSlots(answer.slots, answer.current) \in Seq(SlotRows)  BY MapSlotsRows
  <2> QED  BY <2>1, <2>2, <2>3, SlotsCome
<1>9. CASE GetSlotsError
  <2>1. PICK r \in bpReq.slots :
          /\ BpShown(SlotsReduced(bp, <<>>, r)) /\ bpReq' = [bpReq EXCEPT !.slots = {}]
          /\ UNCHANGED <<page, rust, bpUrl>>
    BY <1>9 DEF GetSlotsError, catchErrorAndRepeat
  <2>2. page = "bp-overview" /\ PartsFit(bp, bpReq, rust)  BY EpochOpenForAnswers
  <2>3. <<>> \in Seq(SlotRows)  OBVIOUS
  <2> DEFINE none == <<>>
  <2>4. none \in Seq(SlotRows) /\ BpShown(SlotsReduced(bp, none, r))  BY <2>1, <2>3
  <2> HIDE DEF none
  <2> QED  BY <2>1, <2>2, <2>4, SlotsCome
<1>10. CASE changeActiveEpoch  BY <1>10, EpochPaged
<1>11. CASE onSlotClick
  <2>1. PICK i \in DOMAIN rects :
          /\ i \in DOMAIN bp.slots /\ BpShown(SetActiveSlotReduced(bp, bp.slots[i].slot))
          /\ bpUrl' = IF bp.epochNumber = None THEN bpUrl
                      ELSE [epoch |-> bp.epochNumber, slot |-> bp.slots[i].slot]
    BY <1>11 DEF onSlotClick
  <2>2. bp.slots[i] \in SlotRows /\ bp.epochNumber \in Int  BY <1>1, <2>1 DEF Slices
  <2>3. bp.slots[i].slot \in Routes  BY <2>2 DEF SlotRows, Routes
  <2>4. page = "bp-overview" /\ page' = page /\ UNCHANGED <<rust, bpReq>>  BY <1>11 DEF onSlotClick, On
  <2>5. bpUrl' \in [epoch : Int, slot : Routes]  BY <1>1, <2>1, <2>2, <2>3
  <2> QED  BY <2>1, <2>3, <2>4, <2>5, SlotChosen
<1>12. CASE removeActiveSlot
  <2>1. /\ page = "bp-overview" /\ page' = page /\ UNCHANGED <<rust, bpReq>>
        /\ BpShown(SetActiveSlotReduced(bp, None))
        /\ bpUrl' = IF bp.epochNumber = None THEN bpUrl ELSE [epoch |-> bp.epochNumber, slot |-> NaN]
    BY <1>12 DEF removeActiveSlot, On
  <2>2. None \in Routes /\ NaN \in Routes /\ bp.epochNumber \in Int  BY <1>1 DEF Routes, Slices
  <2>3. bpUrl' \in [epoch : Int, slot : Routes]  BY <1>1, <2>1, <2>2
  <2> QED  BY <2>1, <2>2, <2>3, SlotChosen
<1>13. CASE EpochChangeFilter  BY <1>13, EpochFiltered
<1>14. CASE EpochClose  BY <1>1, <1>14, EpochClosed DEF EpochClose
<1> QED
  BY <1>2, <1>3, <1>4, <1>5, <1>6, <1>7, <1>8, <1>9, <1>10, <1>11, <1>12, <1>13, <1>14 DEF EpochNext

\* Nothing happens to the page while another is used, and it is closed whenever
\* another node can be picked elsewhere.
LEMMA EpochUndisturbed ==
    ASSUME EpochInv, page # "ended", UNCHANGED bpVars, rust' \in RustNodes,
           page = "bp-overview" => page' = page /\ rust' = rust
    PROVE  EpochInv'
<1>1. EpochTypes' /\ SlotsFit(bp)' /\ Drawn(bp, rects)'
  BY DEF EpochInv, EpochTypes, bpVars, SlotsFit, Drawn
<1>2. PartsFit(bp, bpReq, rust')
  <2>1. CASE page = "bp-overview"  BY <2>1 DEF EpochInv
  <2>2. CASE page # "bp-overview"  BY <2>2, InitialSlice DEF EpochInv
  <2> QED  BY <2>1, <2>2
<1>3. bp' = bp /\ bpReq' = bpReq  BY DEF bpVars
<1>4. PartsFit(bp, bpReq, rust)'  BY <1>2, <1>3
<1>5. EpochPartsFit'  BY <1>4 DEF PartsFit, EpochPartsFit
<1>6. (page \notin {"bp-overview", "ended"} => bp = initialEpoch /\ bpReq = NoBpReq)'
  BY <1>3 DEF EpochInv
<1> QED  BY <1>1, <1>4, <1>5, <1>6 DEF EpochInv

\* Number, details, slots, map and chosen slot of the page of an epoch are of one
\* epoch of the active node once nothing is on its way, for any nodes, number of
\* epochs, answers and sessions: the three effects of
\* BlockProductionOverviewEffects, whose requests are answered in any order and may
\* fail, do not mix two epochs or two nodes.
THEOREM EpochTheorem == NodePagesSpec => []EpochSound
<1>1. NodePagesInit => EpochInv
  <2> SUFFICES ASSUME NodePagesInit PROVE EpochInv  OBVIOUS
  <2>1. bp = initialEpoch /\ bpReq = NoBpReq /\ bpUrl = NoBpUrl /\ rects = <<>> /\ rust \in RustNodes
    BY DEF NodePagesInit, EpochInit, RustInit
  <2>2. EpochTypes /\ SlotsFit(bp) /\ Drawn(bp, rects) /\ PartsFit(bp, bpReq, rust)
    BY <2>1, InitialSlice DEF EpochTypes
  <2>3. EpochPartsFit  BY <2>1, InitialSlice DEF EpochPartsFit
  <2> QED  BY <2>1, <2>2, <2>3 DEF EpochInv
<1>2. EpochInv /\ [NodePagesNext]_allVars => EpochInv'
  <2> SUFFICES ASSUME EpochInv, [NodePagesNext]_allVars PROVE EpochInv'  OBVIOUS
  <2>1. rust \in RustNodes  BY DEF EpochInv, EpochTypes
  <2>2. ASSUME NEW p, NEW type, p # "bp-overview", Apart(p, type), page # "ended", UNCHANGED bpVars
        PROVE  EpochInv'
    BY <2>1, <2>2, EpochUndisturbed DEF Apart
  <2>3. CASE page # "ended" /\ OverviewNext /\ UNCHANGED producedVars
    BY <2>2, <2>3, OverviewApart DEF producedVars
  <2>4. CASE page # "ended" /\ BootstrapNext /\ UNCHANGED producedVars
    BY <2>2, <2>4, BootstrapApart DEF producedVars
  <2>5. CASE page # "ended" /\ LiveNext /\ UNCHANGED producedVars
    BY <2>2, <2>5, LiveApart DEF producedVars
  <2>6. CASE page # "ended" /\ EpochNext  BY <2>6, EpochKept
  <2>7. CASE page # "ended" /\ WonNext /\ UNCHANGED bpVars  BY <2>2, <2>7, WonApart
  <2>8. CASE page # "ended" /\ MemoryNext /\ UNCHANGED producedVars
    BY <2>2, <2>8, MemoryApart DEF producedVars
  <2>9. CASE page # "ended" /\ FuzzingNext /\ UNCHANGED producedVars
    BY <2>2, <2>9, FuzzingApart DEF producedVars
  <2>10. CASE PickNode
    BY <2>1, <2>10, EpochUndisturbed DEF PickNode, On, changeRustNode, producedVars
  <2>11. CASE Reload  BY <2>1, <2>11, EpochClosed DEF Reload
  <2>12. CASE UNCHANGED allVars
    BY <2>12 DEF allVars, layoutVars, producedVars, bpVars, EpochInv, EpochTypes, SlotsFit, Drawn,
                 PartsFit, EpochPartsFit
  <2> QED
    BY <2>3, <2>4, <2>5, <2>6, <2>7, <2>8, <2>9, <2>10, <2>11, <2>12 DEF NodePagesNext
<1>3. EpochInv => EpochSound
  <2> SUFFICES ASSUME EpochInv PROVE EpochSound  OBVIOUS
  <2>1. EpochMapDrawn  BY DEF EpochInv, Drawn, EpochMapDrawn
  <2>2. bp.slots \in Seq(SlotRows) /\ bp.activeSlot = find(bp.slots, "slot", bp.activeSlotRoute)
    BY DEF EpochInv, EpochTypes, Slices, SlotsFit
  <2>3. EpochSlotShown  BY <2>2, FindSlot DEF EpochSlotShown
  <2> QED  BY <2>1, <2>3 DEF EpochInv, EpochSound
<1> QED  BY <1>1, <1>2, <1>3, PTL DEF NodePagesSpec, allVars

(***************************************************************************)
(* Nodes > Overview.                                                       *)
(***************************************************************************)

LedgersOrdered(l) ==
    /\ l.nextEpoch.state # "pending" => l.stakingEpoch.state = "success"
    /\ l.rootSnarked.state # "pending" => l.nextEpoch.state = "success"
    /\ l.rootStaged.state # "pending" => l.rootSnarked.state = "success"

\* getLedgers completes what the successor of a ledger implies, down to the first.
LEMMA GetLedgersOrdered ==
    ASSUME NEW ledgers,
           ledgers.root # NoStep /\ ledgers.root.staged.reconstructEnd # 0 =>
               ledgers.root.staged.reconstructStart # 0
    PROVE  LedgersOrdered(getLedgers(ledgers))
<1> DEFINE snarked(step) == getSnarkedLedgerStep(step)
           root == CompletedBy(snarked(ledgers.root), StagedBegun(ledgers.root))
           next == CompletedBy(snarked(ledgers.next_epoch), root.state # "pending")
           staking == CompletedBy(snarked(ledgers.staking_epoch), next.state # "pending")
           staged == getStagedLedgerStep(ledgers.root)
<1>1. ASSUME NEW step, NEW begun \in BOOLEAN PROVE begun => CompletedBy(snarked(step), begun).state = "success"
  BY <1>1 DEF CompletedBy, getSnarkedLedgerStep
<1>2. staged.state # "pending" => StagedBegun(ledgers.root)
  BY DEF getStagedLedgerStep, StagedBegun
<1>3. getLedgers(ledgers) = [stakingEpoch |-> staking, nextEpoch |-> next, rootSnarked |-> root, rootStaged |-> staged]
  BY DEF getLedgers
<1>4. staged.state # "pending" => root.state = "success"
  BY <1>1, <1>2 DEF StagedBegun
<1>5. root.state # "pending" => next.state = "success"
  <2> HIDE DEF root, snarked
  <2> QED  BY <1>1
<1>6. next.state # "pending" => staking.state = "success"
  <2> HIDE DEF next, snarked
  <2> QED  BY <1>1
<1> HIDE DEF root, next, staking, staged
<1> QED  BY <1>3, <1>4, <1>5, <1>6 DEF LedgersOrdered

\* The rows the table can have: of nodes that were not asked yet, and answers.
OverviewRows ==
    {pendingNode(name) : name \in AppNodes}
    \cup {getNodeTips(tips, name)[1] : tips \in SyncTips \cup {<<>>}, name \in AppNodes}

LEMMA RowFields ==
    ASSUME NEW row \in OverviewRows
    PROVE  /\ row.name \in AppNodes /\ row.kind \in Int /\ row.received \in Nat
           /\ LedgersOrdered(row.ledgers) /\ row # NoRow
<1> DEFINE none == getLedgers(NoLedgers)
<1>1. LedgersOrdered(none)
  <2>1. NoLedgers.root = NoStep  BY DEF NoLedgers
  <2> QED  BY <2>1, GetLedgersOrdered
<1>2. ASSUME NEW r, NEW a, NEW b, NEW c, NEW d, NEW e, NEW f, NEW g,
             r = [name |-> a, kind |-> b, received |-> c, bestTip |-> d, missingBlocks |-> e,
                  ledgers |-> f, blocks |-> g]
      PROVE  r.name = a /\ r.kind = b /\ r.received = c /\ r.ledgers = f /\ r # NoRow
  <2>1. "name" \in DOMAIN r /\ "name" \notin DOMAIN NoRow  BY <1>2 DEF NoRow
  <2> QED  BY <1>2, <2>1
<1> HIDE DEF none
<1>3. ASSUME NEW name \in AppNodes, row = pendingNode(name)
      PROVE  /\ row.name \in AppNodes /\ row.kind \in Int /\ row.received \in Nat
             /\ LedgersOrdered(row.ledgers) /\ row # NoRow
  <2>1. row = [name |-> name, kind |-> PENDING, received |-> 0, bestTip |-> 0, missingBlocks |-> 0,
               ledgers |-> none, blocks |-> <<>>]
    BY <1>3 DEF pendingNode, none
  <2>2. row.name = name /\ row.kind = PENDING /\ row.received = 0 /\ row.ledgers = none /\ row # NoRow
    BY <2>1, <1>2
  <2> QED  BY <2>2, <1>1 DEF PENDING
<1>4. ASSUME NEW name \in AppNodes, row = getNodeTips(<<>>, name)[1]
      PROVE  /\ row.name \in AppNodes /\ row.kind \in Int /\ row.received \in Nat
             /\ LedgersOrdered(row.ledgers) /\ row # NoRow
  <2>1. row = [name |-> name, kind |-> OFFLINE, received |-> 0, bestTip |-> 0, missingBlocks |-> 0,
               ledgers |-> none, blocks |-> <<>>]
    BY <1>4 DEF getNodeTips, mapNodeTipsErrorResponse, none
  <2>2. row.name = name /\ row.kind = OFFLINE /\ row.received = 0 /\ row.ledgers = none /\ row # NoRow
    BY <2>1, <1>2
  <2> QED  BY <2>2, <1>1 DEF OFFLINE
<1>5. ASSUME NEW name \in AppNodes, NEW tips \in SyncTips, tips # <<>>, row = getNodeTips(tips, name)[1]
      PROVE  /\ row.name \in AppNodes /\ row.kind \in Int /\ row.received \in Nat
             /\ LedgersOrdered(row.ledgers) /\ row # NoRow
  <2>1. 1 \in DOMAIN tips
    <3>1. tips \in Seq(ToSet(tips))  BY SyncTipsAssumption
    <3> DEFINE S == ToSet(tips)
    <3> HIDE DEF S
    <3>2. tips \in Seq(S)  BY <3>1 DEF S
    <3> QED  BY <1>5, <3>2
  <2> DEFINE tip == tips[1]
             best == IF tip.blocks = <<>> THEN 0 ELSE tip.blocks[1].hash
             missing == CountOf(tip.blocks, "Missing")
             l == getLedgers(tip.ledgers)
             blocks == [j \in DOMAIN tip.blocks |-> mapBlock(tip.blocks[j])]
  <2>2. row = [name |-> name, kind |-> tip.phase, received |-> tip.received, bestTip |-> best,
               missingBlocks |-> missing, ledgers |-> l, blocks |-> blocks]
    BY <1>5, <2>1 DEF getNodeTips, mapNodeTipsResponse
  <2>3. tip.received \in Nat /\ tip.phase \in Int
    BY <2>1, SyncTipsAssumption DEF BOOTSTRAP, CATCHUP, SYNCED
  <2>4. LedgersOrdered(l)
    BY <2>1, SyncTipsAssumption, GetLedgersOrdered
  <2> HIDE DEF best, missing, l, blocks, tip
  <2>5. row.name = name /\ row.kind = tip.phase /\ row.received = tip.received /\ row.ledgers = l /\ row # NoRow
    BY <2>2, <1>2
  <2> QED  BY <2>3, <2>4, <2>5
<1> QED  BY <1>3, <1>4, <1>5 DEF OverviewRows

\* An answer replaces the row of its node, or adds one.
LEMMA NodesWithRows ==
    ASSUME NEW nodes \in Seq(OverviewRows), Distinct(nodes, "name"), NEW c \in OverviewRows
    PROVE  LET t == nodesWith(nodes, c)
           IN  /\ t \in Seq(OverviewRows) /\ Distinct(t, "name")
               /\ \A r \in ToSet(nodes) : \E q \in ToSet(t) : q.name = r.name
<1> DEFINE t == nodesWith(nodes, c)
<1>1. DOMAIN nodes = 1..Len(nodes) /\ Len(nodes) \in Nat  OBVIOUS
<1>2. CASE \E i \in DOMAIN nodes : nodes[i].name = c.name
  <2>1. t = [i \in DOMAIN nodes |-> IF nodes[i].name = c.name THEN c ELSE nodes[i]]
    BY <1>2 DEF nodesWith
  <2> HIDE DEF t
  <2>2. DOMAIN t = DOMAIN nodes /\ \A i \in DOMAIN nodes : t[i] \in OverviewRows /\ t[i].name = nodes[i].name
    BY <2>1
  <2>3. t \in Seq(OverviewRows)
    <3>1. t = [i \in 1..Len(nodes) |-> IF nodes[i].name = c.name THEN c ELSE nodes[i]]  BY <1>1, <2>1
    <3> QED  BY <1>1, <3>1
  <2>4. Distinct(t, "name")  BY <2>2 DEF Distinct
  <2>5. \A r \in ToSet(nodes) : \E q \in ToSet(t) : q.name = r.name  BY <2>2 DEF ToSet
  <2> QED  BY <2>3, <2>4, <2>5 DEF t
<1>3. CASE ~ \E i \in DOMAIN nodes : nodes[i].name = c.name
  <2>1. t = Append(nodes, c)  BY <1>3 DEF nodesWith
  <2>2. ToSet(Append(nodes, c)) = ToSet(nodes) \cup {c} /\ Append(nodes, c) \in Seq(OverviewRows)  BY AppendSet
  <2>3. \A r \in ToSet(nodes) : r.name # c.name  BY <1>3 DEF ToSet
  <2>4. Distinct(Append(nodes, c), "name")  BY <2>3, DistinctAppend
  <2> QED  BY <2>1, <2>2, <2>4
<1> QED  BY <1>2, <1>3

OverviewSlice(o) ==
    /\ o = [nodes |-> o.nodes, activeNode |-> o.activeNode, sort |-> o.sort]
    /\ o.sort.sortBy \in {"kind", "name"}

\* Every node has at most one row and every configured one has one; what is
\* selected is a row.
OverviewFits(o) ==
    /\ OverviewSlice(o)
    /\ o.nodes \in Seq(OverviewRows) /\ Distinct(o.nodes, "name")
    /\ \A name \in ToSet(ConfigNodes) : \E r \in ToSet(o.nodes) : r.name = name
    /\ o.activeNode = NoRow \/ o.activeNode \in ToSet(o.nodes)

\* The clock runs, or was stopped for a node without a best tip and can be started
\* again.
ClockFits(panel, node) ==
    /\ panel.interval \in BOOLEAN /\ panel.timerRemoved \in BOOLEAN
    /\ panel.interval \/ panel.timerRemoved
    /\ node # NoRow => (panel.interval <=> node.received > 0)

OverviewInv ==
    /\ OverviewFits(overview) /\ overviewReq \subseteq AppNodes
    /\ page = "overview" => ClockFits(overviewPanel, overview.activeNode)

LEMMA OverviewInvSound ==
    OverviewInv => OverviewOneRowEach /\ OverviewActiveFresh /\ OverviewClockRuns /\ LedgersInOrder
<1> SUFFICES ASSUME OverviewInv
             PROVE  OverviewOneRowEach /\ OverviewActiveFresh /\ OverviewClockRuns /\ LedgersInOrder
  OBVIOUS
<1>1. /\ overview.nodes \in Seq(OverviewRows) /\ Distinct(overview.nodes, "name")
      /\ \A name \in ToSet(ConfigNodes) : \E r \in ToSet(overview.nodes) : r.name = name
  BY DEF OverviewInv, OverviewFits
<1>2. OverviewOneRowEach
  <2> SUFFICES ASSUME NEW name \in AppNodes
               PROVE  LET rows == {i \in DOMAIN overview.nodes : overview.nodes[i].name = name}
                      IN  (rows = {} /\ name \in CustomNodes) \/ (\E i \in rows : rows = {i})
    BY DEF OverviewOneRowEach
  <2> DEFINE rows == {i \in DOMAIN overview.nodes : overview.nodes[i].name = name}
  <2>1. \A i, j \in rows : i = j  BY <1>1 DEF Distinct
  <2>2. rows = {} => name \in CustomNodes  BY <1>1 DEF AppNodes, ToSet
  <2> HIDE DEF rows
  <2>3. rows # {} => \E i \in rows : rows = {i}  BY <2>1
  <2> QED  BY <2>2, <2>3 DEF rows
<1>3. OverviewActiveFresh
  BY DEF OverviewInv, OverviewFits, OverviewActiveFresh, ToSet
<1>4. OverviewClockRuns
  BY DEF OverviewInv, ClockFits, OverviewClockRuns
<1>5. LedgersInOrder
  <2>1. \A i \in DOMAIN overview.nodes : LedgersOrdered(overview.nodes[i].ledgers)
    BY <1>1, RowFields
  <2> QED  BY <2>1 DEF LedgersOrdered, LedgersInOrder
<1> QED  BY <1>2, <1>3, <1>4, <1>5

\* Rows are compared by numbers.
LEMMA RowsComparable ==
    ASSUME NEW nodes \in Seq(OverviewRows), NEW tableSort, tableSort.sortBy \in {"kind", "name"}
    PROVE  Comparable(nodes, tableSort)
<1>1. AppNodes \subseteq Int
  <2>1. \A i \in DOMAIN ConfigNodes : ConfigNodes[i] \in Int  BY OverviewAssumption
  <2> QED  BY <2>1, OverviewAssumption DEF AppNodes, ToSet
<1>2. \A i \in DOMAIN nodes : nodes[i].kind \in Int /\ nodes[i].name \in Int
  <2>1. \A i \in DOMAIN nodes : nodes[i] \in OverviewRows  OBVIOUS
  <2>2. \A r \in OverviewRows : r.kind \in Int /\ r.name \in AppNodes  BY RowFields
  <2> QED  BY <1>1, <2>1, <2>2
<1>3. CASE tableSort.sortBy = "kind"  BY <1>2, <1>3 DEF Comparable
<1>4. CASE tableSort.sortBy = "name"  BY <1>2, <1>4 DEF Comparable
<1> QED  BY <1>3, <1>4

LEMMA OverviewSorted ==
    ASSUME NEW nodes \in Seq(OverviewRows), Distinct(nodes, "name"),
           NEW tableSort, tableSort.sortBy \in {"kind", "name"}
    PROVE  LET s == sort(nodes, tableSort)
           IN  s \in Seq(OverviewRows) /\ Distinct(s, "name") /\ ToSet(s) = ToSet(nodes)
BY RowsComparable, SortRows, SortDistinct

LEMMA OverviewInitial == OverviewFits(initialOverview) /\ initialOverview.activeNode = NoRow
<1> DEFINE rows == [i \in DOMAIN ConfigNodes |-> pendingNode(ConfigNodes[i])]
           order == [sortBy |-> "kind", sortDirection |-> "descending"]
           o == initialOverview
<1>1. o = [nodes |-> rows, activeNode |-> NoRow, sort |-> order] /\ order.sortBy = "kind"
  BY DEF initialOverview
<1>2. DOMAIN ConfigNodes = 1..Len(ConfigNodes) /\ Len(ConfigNodes) \in Nat
  BY OverviewAssumption
<1>3. \A i \in DOMAIN ConfigNodes : pendingNode(ConfigNodes[i]) \in OverviewRows
  BY DEF OverviewRows, AppNodes, ToSet
<1>4. \A i \in DOMAIN ConfigNodes : rows[i] \in OverviewRows /\ rows[i].name = ConfigNodes[i]
  BY <1>3 DEF pendingNode
<1>5. rows \in Seq(OverviewRows) /\ DOMAIN rows = DOMAIN ConfigNodes
  <2>1. rows = [i \in 1..Len(ConfigNodes) |-> pendingNode(ConfigNodes[i])]  BY <1>2
  <2> QED  BY <1>2, <1>3, <2>1
<1> HIDE DEF rows, order, o
<1>6. Distinct(rows, "name")
  BY <1>4, <1>5, OverviewAssumption DEF Distinct
<1>7. \A name \in ToSet(ConfigNodes) : \E r \in ToSet(rows) : r.name = name
  BY <1>4, <1>5 DEF ToSet
<1>8. o.nodes = rows /\ o.activeNode = NoRow /\ o.sort = order  BY <1>1
<1>9. OverviewFits(o)
  <2>1. OverviewSlice(o)  BY <1>1, <1>8 DEF OverviewSlice
  <2> QED  BY <1>5, <1>6, <1>7, <1>8, <2>1 DEF OverviewFits
<1> QED  BY <1>8, <1>9 DEF o

\* The clock is set for the node that is shown.
LEMMA ClockSet ==
    ASSUME NEW panel, NEW old, ClockFits(panel, old), NEW node, node = NoRow \/ node \in OverviewRows
    PROVE  ClockFits(clockFor(panel, node), node)
<1> DEFINE c == clockFor(panel, node)
<1>1. CASE node = NoRow
  BY <1>1 DEF ClockFits, clockFor
<1>2. CASE node # NoRow
  <2>1. node.received \in Nat  BY <1>2, RowFields
  <2>2. CASE node.received > 0
    <3>1. c = [interval |-> panel.interval \/ panel.timerRemoved, timerRemoved |-> node.received = 0]
      BY <1>2, <2>2 DEF clockFor
    <3>2. (panel.interval \/ panel.timerRemoved) = TRUE /\ (node.received = 0) = FALSE
      BY <2>1, <2>2 DEF ClockFits
    <3>3. c = [interval |-> TRUE, timerRemoved |-> FALSE]
      BY <3>1, <3>2
    <3>4. c.interval /\ ~c.timerRemoved /\ c.interval \in BOOLEAN /\ c.timerRemoved \in BOOLEAN
      BY <3>3
    <3> HIDE DEF c
    <3>5. ClockFits(c, node)  BY <2>2, <3>4 DEF ClockFits
    <3> QED  BY <3>5 DEF c
  <2>3. CASE node.received = 0
    <3>1. c = [interval |-> FALSE, timerRemoved |-> node.received = 0]
      BY <1>2, <2>3 DEF clockFor
    <3>2. c = [interval |-> FALSE, timerRemoved |-> TRUE]
      BY <2>3, <3>1
    <3>3. ~c.interval /\ c.timerRemoved /\ c.interval \in BOOLEAN /\ c.timerRemoved \in BOOLEAN
      BY <3>2
    <3> HIDE DEF c
    <3>4. ClockFits(c, node)  BY <2>3, <3>3 DEF ClockFits
    <3> QED  BY <3>4 DEF c
  <2> QED  BY <2>1, <2>2, <2>3
<1> QED  BY <1>1, <1>2

LEMMA OverviewSelected ==
    ASSUME OverviewInv, NEW state, OverviewFits(state), Selected(state),
           overviewReq' \subseteq AppNodes, page' = page
    PROVE  OverviewInv'
<1>1. overview' = state  BY DEF Selected
<1>2. state.activeNode = NoRow \/ state.activeNode \in OverviewRows
  <2>1. \A r \in ToSet(state.nodes) : r \in OverviewRows
    <3>1. state.nodes \in Seq(OverviewRows)  BY DEF OverviewFits
    <3> QED  BY <3>1 DEF ToSet
  <2> QED  BY <2>1 DEF OverviewFits
<1>3. ASSUME page = "overview" PROVE ClockFits(overviewPanel', state.activeNode)
  <2>1. ClockFits(overviewPanel, overview.activeNode)  BY <1>3 DEF OverviewInv
  <2>2. CASE state.activeNode = overview.activeNode
    BY <2>1, <2>2 DEF Selected
  <2>3. CASE state.activeNode # overview.activeNode
    <3>1. overviewPanel' = clockFor(overviewPanel, state.activeNode)  BY <1>3, <2>3 DEF Selected
    <3> QED  BY <1>2, <2>1, <3>1, ClockSet
  <2> QED  BY <2>2, <2>3
<1>4. OverviewFits(overview')  BY <1>1
<1>5. page' = "overview" => ClockFits(overviewPanel', overview'.activeNode)  BY <1>1, <1>3
<1> QED  BY <1>4, <1>5 DEF OverviewInv, OverviewFits, OverviewSlice, ClockFits

LEMMA OverviewAnswered ==
    ASSUME OverviewFits(overview), NEW c \in OverviewRows
    PROVE  OverviewFits(GetNodeStatusReduced(c))
<1> DEFINE nodes == nodesWith(overview.nodes, c)
           sorted == sort(nodes, overview.sort)
           active == IF overview.activeNode = NoRow THEN NoRow ELSE find(nodes, "name", overview.activeNode.name)
           s == GetNodeStatusReduced(c)
<1>1. /\ OverviewSlice(overview) /\ overview.nodes \in Seq(OverviewRows) /\ Distinct(overview.nodes, "name")
      /\ \A name \in ToSet(ConfigNodes) : \E r \in ToSet(overview.nodes) : r.name = name
      /\ overview.activeNode = NoRow \/ overview.activeNode \in ToSet(overview.nodes)
  BY DEF OverviewFits
<1>2. /\ nodes \in Seq(OverviewRows) /\ Distinct(nodes, "name")
      /\ \A r \in ToSet(overview.nodes) : \E q \in ToSet(nodes) : q.name = r.name
  BY <1>1, NodesWithRows
<1>3. s = [overview EXCEPT !.nodes = sorted, !.activeNode = active]
  BY DEF GetNodeStatusReduced
<1> HIDE DEF nodes
<1>4. sorted \in Seq(OverviewRows) /\ Distinct(sorted, "name") /\ ToSet(sorted) = ToSet(nodes)
  BY <1>1, <1>2, OverviewSorted DEF OverviewSlice
<1>5. active = NoRow \/ active \in ToSet(nodes)
  BY <1>2, FindRow
<1> HIDE DEF sorted, active, s
<1>6. s.nodes = sorted /\ s.activeNode = active /\ s.sort = overview.sort /\ OverviewSlice(s)
  BY <1>1, <1>3 DEF OverviewSlice
<1>7. \A name \in ToSet(ConfigNodes) : \E r \in ToSet(sorted) : r.name = name
  BY <1>1, <1>2, <1>4
<1> QED  BY <1>4, <1>5, <1>6, <1>7 DEF OverviewFits, s

LEMMA OverviewChosen ==
    ASSUME OverviewFits(overview), NEW row, row = NoRow \/ row \in ToSet(overview.nodes)
    PROVE  LET s == [overview EXCEPT !.activeNode = row]
           IN  OverviewFits(s) /\ s.activeNode = row
<1> DEFINE s == [overview EXCEPT !.activeNode = row]
<1>1. s.nodes = overview.nodes /\ s.activeNode = row /\ s.sort = overview.sort /\ OverviewSlice(s)
  BY DEF OverviewFits, OverviewSlice
<1> HIDE DEF s
<1> QED  BY <1>1 DEF OverviewFits, s

LEMMA OverviewResorted ==
    ASSUME OverviewFits(overview), NEW s, OverviewSlice(s),
           s.nodes = sort(overview.nodes, s.sort), s.activeNode = overview.activeNode
    PROVE  OverviewFits(s)
<1>1. /\ s.nodes \in Seq(OverviewRows) /\ Distinct(s.nodes, "name")
      /\ ToSet(s.nodes) = ToSet(overview.nodes)
  BY OverviewSorted DEF OverviewFits, OverviewSlice
<1> QED  BY <1>1 DEF OverviewFits

LEMMA OverviewKept ==
    ASSUME OverviewInv, OverviewNext
    PROVE  OverviewInv'
<1>1. OverviewFits(overview) /\ overviewReq \subseteq AppNodes  BY DEF OverviewInv
<1>2. CASE OverviewGetNodes
  BY <1>2 DEF OverviewGetNodes, On, OverviewInv
<1>3. CASE GetNodeStatusSuccess
  <2>1. PICK name \in overviewReq, tips \in SyncTips \cup {<<>>} :
           /\ Selected(GetNodeStatusReduced(getNodeTips(tips, name)[1]))
           /\ overviewReq' = Completed(overviewReq, name) /\ UNCHANGED <<layoutVars, rust>>
    BY <1>3 DEF GetNodeStatusSuccess
  <2>2. getNodeTips(tips, name)[1] \in OverviewRows  BY <1>1 DEF OverviewRows
  <2>3. OverviewFits(GetNodeStatusReduced(getNodeTips(tips, name)[1]))  BY <1>1, <2>2, OverviewAnswered
  <2>4. overviewReq' \subseteq AppNodes /\ page' = page  BY <1>1, <2>1 DEF Completed, layoutVars
  <2> QED  BY <2>1, <2>3, <2>4, OverviewSelected
<1>4. CASE OverviewSort
  <2>1. PICK column \in {"kind", "name"} :
           overview' = [overview EXCEPT !.sort = sortTable(overview.sort, column),
                                        !.nodes = sort(@, sortTable(overview.sort, column))]
    BY <1>4 DEF OverviewSort
  <2> DEFINE t == sortTable(overview.sort, column)
  <2>2. t.sortBy \in {"kind", "name"}  BY DEF sortTable
  <2>3. overview' = [overview EXCEPT !.sort = t, !.nodes = sort(overview.nodes, t)]  BY <2>1
  <2> HIDE DEF t
  <2>4. /\ overview'.nodes = sort(overview.nodes, overview'.sort) /\ overview'.activeNode = overview.activeNode
        /\ OverviewSlice(overview')
    BY <1>1, <2>2, <2>3 DEF OverviewFits, OverviewSlice
  <2>5. OverviewFits(overview')  BY <1>1, <2>4, OverviewResorted
  <2>6. page' = page /\ overviewPanel' = overviewPanel /\ overviewReq' = overviewReq  BY <1>4 DEF OverviewSort, On
  <2> QED  BY <2>4, <2>5, <2>6 DEF OverviewInv, OverviewFits, OverviewSlice, ClockFits
<1>5. CASE OverviewRowClick
  <2>1. PICK row \in Clickable(overview.nodes, "name", overview.activeNode) :
           Selected([overview EXCEPT !.activeNode = row])
    BY <1>5 DEF OverviewRowClick
  <2>2. row \in ToSet(overview.nodes)  BY DEF Clickable
  <2>3. OverviewFits([overview EXCEPT !.activeNode = row])  BY <1>1, <2>2, OverviewChosen
  <2>4. page' = page /\ overviewReq' = overviewReq  BY <1>5 DEF OverviewRowClick, On
  <2> QED  BY <1>1, <2>1, <2>3, <2>4, OverviewSelected
<1>6. CASE OverviewClosePanel
  <2>1. overview' = [overview EXCEPT !.activeNode = NoRow] /\ page' = page
        /\ overviewPanel' = overviewPanel /\ overviewReq' = overviewReq
    BY <1>6 DEF OverviewClosePanel, On
  <2>2. OverviewFits(overview') /\ overview'.activeNode = NoRow  BY <1>1, <2>1, OverviewChosen
  <2> QED  BY <2>1, <2>2 DEF OverviewInv, OverviewFits, OverviewSlice, ClockFits
<1>7. CASE OverviewOpen
  <2> DEFINE running == [interval |-> TRUE, timerRemoved |-> FALSE]
  <2>1. PICK row \in {NoRow} \cup ToSet(overview.nodes) :
           /\ overview' = [overview EXCEPT !.activeNode = row]
           /\ overviewPanel' = clockFor(running, row)
    BY <1>7 DEF OverviewOpen
  <2>2. ClockFits(running, NoRow)  BY DEF ClockFits
  <2>3. OverviewFits(overview') /\ overview'.activeNode = row  BY <1>1, <2>1, OverviewChosen
  <2>4. row = NoRow \/ row \in OverviewRows
    <3>1. overview.nodes \in Seq(OverviewRows)  BY <1>1 DEF OverviewFits
    <3>2. \A i \in DOMAIN overview.nodes : overview.nodes[i] \in OverviewRows  BY <3>1
    <3> QED  BY <3>2 DEF ToSet
  <2> HIDE DEF running
  <2>5. ClockFits(overviewPanel', overview'.activeNode)  BY <2>1, <2>2, <2>3, <2>4, ClockSet
  <2>6. overviewReq' = overviewReq  BY <1>7 DEF OverviewOpen
  <2> QED  BY <1>1, <2>3, <2>5, <2>6 DEF OverviewInv, OverviewFits, OverviewSlice, ClockFits
<1>8. CASE OverviewClose
  <2>1. overview' = initialOverview /\ page' = "none" /\ overviewReq' = overviewReq
    BY <1>8 DEF OverviewClose, Leave
  <2>2. OverviewFits(overview')  BY <2>1, OverviewInitial
  <2> QED  BY <1>1, <2>1, <2>2 DEF OverviewInv, OverviewFits, OverviewSlice
<1> QED  BY <1>2, <1>3, <1>4, <1>5, <1>6, <1>7, <1>8 DEF OverviewNext

(***************************************************************************)
(* Nodes > Bootstrap and Nodes > Live: how a slice is sorted, filtered and *)
(* summed up does not matter, only that the panels follow it.              *)
(***************************************************************************)

BootstrapSlice(b) ==
    b = [nodes |-> b.nodes, activeNode |-> b.activeNode, openSidePanel |-> b.openSidePanel, sort |-> b.sort]

\* A selected attempt can be seen.
BootstrapFits(b) ==
    /\ BootstrapSlice(b) /\ b.openSidePanel \in BOOLEAN
    /\ b.activeNode # NoRow => b.openSidePanel

PanelSlice(p) ==
    p = [rows |-> p.rows, indexFromRoute |-> p.indexFromRoute, activeNodeIndex |-> p.activeNodeIndex,
         appliedMax |-> p.appliedMax, appliedTotal |-> p.appliedTotal]

BootstrapInv ==
    /\ BootstrapFits(bootstrap) /\ PanelSlice(bootstrapPanel) /\ BootstrapIndexSound

LEMMA OverviewOfSlice ==
    ASSUME NEW p, PanelSlice(p), NEW nodes
    PROVE  PanelSlice(overviewOf(p, nodes)) /\ overviewOf(p, nodes).activeNodeIndex = p.activeNodeIndex
<1>1. CASE nodes = <<>>  BY <1>1 DEF overviewOf
<1>2. CASE nodes # <<>>
  <2> DEFINE m == Max({nodes[i].appliedBlocksMax : i \in DOMAIN nodes})
             t == FoldFunction(LAMBDA n, acc : acc + n.appliedBlocks, 0, nodes)
             o == overviewOf(p, nodes)
  <2>1. o = [p EXCEPT !.rows = nodes, !.indexFromRoute = -1, !.appliedMax = m, !.appliedTotal = t]
    BY <1>2 DEF overviewOf
  <2> HIDE DEF m, t, o
  <2>2. PanelSlice(o) /\ o.activeNodeIndex = p.activeNodeIndex  BY <2>1 DEF PanelSlice
  <2> QED  BY <2>2 DEF o
<1> QED  BY <1>1, <1>2

\* The panel follows what is shown on the page.
LEMMA BootstrapFollows ==
    ASSUME BootstrapInv, NEW state, BootstrapFits(state), BootstrapShown(state), page' = page
    PROVE  BootstrapInv'
<1>1. bootstrap' = state  BY DEF BootstrapShown
<1>2. CASE page # "bootstrap"
  <2>1. bootstrapPanel' = bootstrapPanel  BY <1>2 DEF BootstrapShown
  <2> QED  BY <1>1, <1>2, <2>1 DEF BootstrapInv, BootstrapFits, BootstrapSlice, PanelSlice, BootstrapIndexSound
<1>3. CASE page = "bootstrap"
  <2> DEFINE o == overviewOf(bootstrapPanel, state.nodes)
             moved == \/ state.nodes # bootstrap.nodes
                      \/ state.activeNode # bootstrap.activeNode /\ state.activeNode # NoRow
             index == IF moved THEN indexOf(state.nodes, state.activeNode) ELSE o.activeNodeIndex
  <2>1. PanelSlice(o) /\ o.activeNodeIndex = bootstrapPanel.activeNodeIndex
    BY OverviewOfSlice DEF BootstrapInv
  <2>2. bootstrapPanel' = [o EXCEPT !.activeNodeIndex = index]
    BY <1>3 DEF BootstrapShown
  <2>3. state.activeNode # NoRow => index = indexOf(state.nodes, state.activeNode)
    <3>1. CASE moved  BY <3>1
    <3>2. CASE ~moved
      <4>1. bootstrap.activeNode # NoRow =>
               bootstrapPanel.activeNodeIndex = indexOf(bootstrap.nodes, bootstrap.activeNode)
        BY <1>3 DEF BootstrapInv, BootstrapIndexSound
      <4> HIDE DEF o
      <4> QED  BY <2>1, <3>2, <4>1
    <3> QED  BY <3>1, <3>2
  <2> HIDE DEF o, index
  <2>4. PanelSlice(bootstrapPanel') /\ bootstrapPanel'.activeNodeIndex = index
    BY <2>1, <2>2 DEF PanelSlice
  <2>5. BootstrapFits(bootstrap')  BY <1>1
  <2>6. BootstrapIndexSound'  BY <1>1, <2>3, <2>4 DEF BootstrapIndexSound
  <2> QED  BY <2>4, <2>5, <2>6 DEF BootstrapInv, BootstrapFits, BootstrapSlice, PanelSlice
<1> QED  BY <1>2, <1>3

LEMMA ActiveBlockFits ==
    ASSUME NEW b, BootstrapFits(b), NEW row
    PROVE  BootstrapFits(SetActiveBlockReduced(b, row))
<1> DEFINE s == SetActiveBlockReduced(b, row)
<1>1. CASE row # NoRow
  <2>1. s = [b EXCEPT !.activeNode = row, !.openSidePanel = TRUE]  BY <1>1 DEF SetActiveBlockReduced
  <2> HIDE DEF s
  <2>2. BootstrapFits(s)  BY <2>1 DEF BootstrapFits, BootstrapSlice
  <2> QED  BY <2>2 DEF s
<1>2. CASE row = NoRow
  <2>1. s = [b EXCEPT !.activeNode = row, !.openSidePanel = b.openSidePanel]  BY <1>2 DEF SetActiveBlockReduced
  <2> HIDE DEF s
  <2>2. BootstrapFits(s)  BY <1>2, <2>1 DEF BootstrapFits, BootstrapSlice
  <2> QED  BY <2>2 DEF s
<1> QED  BY <1>1, <1>2

LEMMA FromRouteFits ==
    ASSUME NEW b, BootstrapFits(b), NEW index
    PROVE  BootstrapFits(fromRoute(b, index))
BY ActiveBlockFits DEF fromRoute

LEMMA BootstrapInitial ==
    BootstrapFits(initialBootstrap) /\ PanelSlice(initialBootstrapPanel) /\ initialBootstrap.activeNode = NoRow
<1> DEFINE b == initialBootstrap
<1>1. b = [nodes |-> <<>>, activeNode |-> NoRow, openSidePanel |-> isDesktop,
           sort |-> [sortBy |-> "index", sortDirection |-> "ascending"]]
  BY DEF initialBootstrap
<1> HIDE DEF b
<1>2. b.activeNode = NoRow /\ b.openSidePanel = isDesktop /\ BootstrapSlice(b)  BY <1>1 DEF BootstrapSlice
<1>3. BootstrapFits(b)  BY <1>2, RustServiceAssumption DEF BootstrapFits
<1>4. PanelSlice(initialBootstrapPanel)  BY DEF PanelSlice, initialBootstrapPanel
<1> QED  BY <1>2, <1>3, <1>4 DEF b

LEMMA BootstrapKept ==
    ASSUME BootstrapInv, BootstrapNext
    PROVE  BootstrapInv'
<1>1. BootstrapFits(bootstrap) /\ PanelSlice(bootstrapPanel) /\ BootstrapIndexSound  BY DEF BootstrapInv
<1> DEFINE Same == page' = page /\ bootstrap' = bootstrap /\ bootstrapPanel' = bootstrapPanel
<1>2. ASSUME Same PROVE BootstrapInv'
  BY <1>1, <1>2 DEF BootstrapInv, BootstrapFits, BootstrapSlice, PanelSlice, BootstrapIndexSound
<1>3. CASE BootstrapTick  BY <1>2, <1>3 DEF BootstrapTick, On
<1>4. CASE BootstrapNodeChange  BY <1>2, <1>4 DEF BootstrapNodeChange, On
<1>5. CASE BootstrapGetNodesSuccess
  <2>1. PICK r \in bootstrapReq, tips \in SyncTips \cup {<<>>} :
           LET nodes == getBootstrapNodeTips(tips, r.node)
               reduced == [bootstrap EXCEPT
                             !.nodes = sort(nodes, bootstrap.sort),
                             !.activeNode = IF @ = NoRow THEN NoRow ELSE find(nodes, "index", @.index)]
           IN  BootstrapShown(IF page = "bootstrap" THEN fromRoute(reduced, bootstrapPanel.indexFromRoute)
                              ELSE reduced)
    BY <1>5 DEF BootstrapGetNodesSuccess
  <2> DEFINE nodes == getBootstrapNodeTips(tips, r.node)
             sorted == sort(nodes, bootstrap.sort)
             active == IF bootstrap.activeNode = NoRow THEN NoRow ELSE find(nodes, "index", bootstrap.activeNode.index)
             reduced == [bootstrap EXCEPT !.nodes = sorted, !.activeNode = active]
             state == IF page = "bootstrap" THEN fromRoute(reduced, bootstrapPanel.indexFromRoute) ELSE reduced
  <2>2. BootstrapShown(state)  BY <2>1
  <2>3. active # NoRow => bootstrap.activeNode # NoRow  OBVIOUS
  <2>4. BootstrapFits(reduced)
    <3> HIDE DEF sorted, active
    <3>1. reduced = [bootstrap EXCEPT !.nodes = sorted, !.activeNode = active]  OBVIOUS
    <3> HIDE DEF reduced
    <3>2. reduced.activeNode = active /\ reduced.openSidePanel = bootstrap.openSidePanel /\ BootstrapSlice(reduced)
      BY <1>1, <3>1 DEF BootstrapFits, BootstrapSlice
    <3> QED  BY <1>1, <2>3, <3>2 DEF BootstrapFits
  <2>5. BootstrapFits(state)
    <3> HIDE DEF reduced
    <3> QED  BY <2>4, FromRouteFits
  <2>6. page' = page  BY <1>5 DEF BootstrapGetNodesSuccess
  <2> HIDE DEF state
  <2> QED  BY <2>2, <2>5, <2>6, BootstrapFollows
<1>6. CASE BootstrapRowClick
  <2>1. PICK row : BootstrapShown(SetActiveBlockReduced(bootstrap, row))  BY <1>6 DEF BootstrapRowClick
  <2>2. page' = page  BY <1>6 DEF BootstrapRowClick, On
  <2> QED  BY <1>1, <2>1, <2>2, ActiveBlockFits, BootstrapFollows
<1>7. CASE BootstrapRemoveActive
  <2>1. BootstrapShown(SetActiveBlockReduced(bootstrap, NoRow)) /\ page' = page
    BY <1>7 DEF BootstrapRemoveActive, On
  <2> QED  BY <1>1, <2>1, ActiveBlockFits, BootstrapFollows
<1>8. CASE BootstrapSort
  <2>1. PICK column \in {"index", "appliedBlocks"} :
           BootstrapShown([bootstrap EXCEPT !.sort = sortTable(bootstrap.sort, column),
                                            !.nodes = sort(@, sortTable(bootstrap.sort, column))])
    BY <1>8 DEF BootstrapSort
  <2> DEFINE t == sortTable(bootstrap.sort, column)
             sorted == sort(bootstrap.nodes, t)
             s == [bootstrap EXCEPT !.sort = t, !.nodes = sorted]
  <2>2. BootstrapShown(s)  BY <2>1
  <2> HIDE DEF t, sorted
  <2>3. s = [bootstrap EXCEPT !.sort = t, !.nodes = sorted]  OBVIOUS
  <2> HIDE DEF s
  <2>4. BootstrapFits(s)  BY <1>1, <2>3 DEF BootstrapFits, BootstrapSlice
  <2>5. page' = page  BY <1>8 DEF BootstrapSort, On
  <2> QED  BY <2>2, <2>4, <2>5, BootstrapFollows
<1>9. CASE BootstrapToggleSidePanel
  <2> DEFINE open == ~bootstrap.openSidePanel
             active == IF bootstrap.openSidePanel THEN NoRow ELSE bootstrap.activeNode
             s == [bootstrap EXCEPT !.openSidePanel = open, !.activeNode = active]
  <2>1. BootstrapShown(s) /\ page' = page  BY <1>9 DEF BootstrapToggleSidePanel, On
  <2>2. open \in BOOLEAN /\ (active # NoRow => open)  BY <1>1 DEF BootstrapFits
  <2> HIDE DEF open, active
  <2>3. s = [bootstrap EXCEPT !.openSidePanel = open, !.activeNode = active]  OBVIOUS
  <2> HIDE DEF s
  <2>4. s.openSidePanel = open /\ s.activeNode = active /\ BootstrapSlice(s)
    BY <1>1, <2>3 DEF BootstrapFits, BootstrapSlice
  <2>5. BootstrapFits(s)  BY <2>2, <2>4 DEF BootstrapFits
  <2> QED  BY <2>1, <2>5, BootstrapFollows
<1>10. CASE BootstrapOpen
  <2>1. PICK index \in {-1, 0} :
           /\ bootstrap' = fromRoute(bootstrap, index)
           /\ bootstrapPanel' =
                [overviewOf([initialBootstrapPanel EXCEPT !.indexFromRoute = index], bootstrap.nodes)
                   EXCEPT !.activeNodeIndex = indexOf(bootstrap'.nodes, bootstrap'.activeNode)]
    BY <1>10 DEF BootstrapOpen
  <2> DEFINE p == [initialBootstrapPanel EXCEPT !.indexFromRoute = index]
             o == overviewOf(p, bootstrap.nodes)
             place == indexOf(bootstrap'.nodes, bootstrap'.activeNode)
  <2>2. PanelSlice(p)  BY BootstrapInitial DEF PanelSlice
  <2> HIDE DEF p
  <2>3. PanelSlice(o)  BY <2>2, OverviewOfSlice
  <2>4. bootstrapPanel' = [o EXCEPT !.activeNodeIndex = place]  BY <2>1 DEF p
  <2> HIDE DEF o
  <2>5. PanelSlice(bootstrapPanel') /\ bootstrapPanel'.activeNodeIndex = place
    <3> HIDE DEF place
    <3> QED  BY <2>3, <2>4 DEF PanelSlice
  <2>6. BootstrapFits(bootstrap')  BY <1>1, <2>1, FromRouteFits
  <2>7. BootstrapIndexSound'  BY <2>5 DEF BootstrapIndexSound
  <2> QED  BY <2>5, <2>6, <2>7 DEF BootstrapInv, BootstrapFits, BootstrapSlice, PanelSlice
<1>11. CASE BootstrapClose
  <2>1. bootstrap' = initialBootstrap /\ bootstrapPanel' = initialBootstrapPanel /\ page' = "none"
    BY <1>11 DEF BootstrapClose, Leave
  <2>2. BootstrapFits(bootstrap') /\ PanelSlice(bootstrapPanel')  BY <2>1, BootstrapInitial
  <2> QED  BY <2>1, <2>2 DEF BootstrapInv, BootstrapFits, BootstrapSlice, PanelSlice, BootstrapIndexSound
<1> QED
  BY <1>3, <1>4, <1>5, <1>6, <1>7, <1>8, <1>9, <1>10, <1>11 DEF BootstrapNext

LiveSlice(l) ==
    l = [nodes |-> l.nodes, activeNode |-> l.activeNode, openSidePanel |-> l.openSidePanel, sort |-> l.sort,
         filteredEvents |-> l.filteredEvents, filters |-> l.filters]

\* LiveEventsDerived of a slice.
LiveFits(l) ==
    /\ LiveSlice(l)
    /\ l.activeNode # NoRow => l.filteredEvents = eventsOf(l.activeNode, l.sort, l.filters)

LEMMA ActiveNodeFits ==
    ASSUME NEW l, LiveFits(l), NEW hash
    PROVE  LiveFits(SetActiveNodeReduced(l, hash))
<1> DEFINE node == find(l.nodes, "bestTip", hash)
           events == eventsOf(node, l.sort, l.filters)
           s == SetActiveNodeReduced(l, hash)
<1>1. CASE node = NoRow  BY <1>1 DEF SetActiveNodeReduced
<1>2. CASE node # NoRow
  <2>1. s = [l EXCEPT !.activeNode = node, !.filteredEvents = events]  BY <1>2 DEF SetActiveNodeReduced
  <2>2. events = eventsOf(node, l.sort, l.filters)  OBVIOUS
  <2> HIDE DEF s, node, events
  <2>3. s.activeNode = node /\ s.filteredEvents = events /\ s.sort = l.sort /\ s.filters = l.filters /\ LiveSlice(s)
    BY <2>1 DEF LiveFits, LiveSlice
  <2>4. LiveFits(s)  BY <2>2, <2>3 DEF LiveFits
  <2> QED  BY <2>4 DEF s
<1> QED  BY <1>1, <1>2

LEMMA LiveAnswered ==
    ASSUME LiveFits(live), NEW nodes
    PROVE  LiveFits(LiveGetNodesReduced(nodes))
<1> DEFINE node == IF live.activeNode = NoRow THEN lastNode(nodes)
                   ELSE find(nodes, "bestTip", live.activeNode.bestTip)
           events == IF node = NoRow THEN <<>> ELSE eventsOf(node, live.sort, live.filters)
           s == LiveGetNodesReduced(nodes)
<1>1. s = [live EXCEPT !.nodes = nodes, !.activeNode = node, !.filteredEvents = events]
  BY DEF LiveGetNodesReduced
<1>2. node # NoRow => events = eventsOf(node, live.sort, live.filters)  OBVIOUS
<1> HIDE DEF s, node, events
<1>3. /\ s.activeNode = node /\ s.filteredEvents = events /\ s.sort = live.sort /\ s.filters = live.filters
      /\ LiveSlice(s)
  BY <1>1 DEF LiveFits, LiveSlice
<1>4. LiveFits(s)  BY <1>2, <1>3 DEF LiveFits
<1> QED  BY <1>4 DEF s

LEMMA LiveInitial == LiveFits(initialLive)
BY DEF LiveFits, LiveSlice, initialLive

LEMMA LiveKept ==
    ASSUME LiveFits(live), LiveNext
    PROVE  LiveFits(live')
<1>1. CASE LiveTick  BY <1>1 DEF LiveTick
<1>2. CASE LiveNodeChange  BY <1>2 DEF LiveNodeChange
<1>3. CASE LiveGetNodesSuccess
  <2>1. PICK nodes, tip : \/ live' = LiveGetNodesReduced(nodes)
                          \/ live' = SetActiveNodeReduced(LiveGetNodesReduced(nodes), tip)
    BY <1>3 DEF LiveGetNodesSuccess, LiveShown
  <2> QED  BY <2>1, LiveAnswered, ActiveNodeFits
<1>4. CASE LiveStep
  <2>1. PICK hash : live' = SetActiveNodeReduced(live, hash)  BY <1>4 DEF LiveStep, LiveSelect, LiveShown
  <2> QED  BY <2>1, ActiveNodeFits
<1>5. CASE LiveEnds
  <2>1. PICK hash : live' = SetActiveNodeReduced(live, hash)  BY <1>5 DEF LiveEnds, LiveSelect, LiveShown
  <2> QED  BY <2>1, ActiveNodeFits
<1>6. CASE LiveSort
  <2>1. PICK order : \/ live' = live
                     \/ live' = [live EXCEPT !.sort = order,
                                             !.filteredEvents = eventsOf(live.activeNode, order, live.filters)]
    BY <1>6 DEF LiveSort, LiveShown, liveVars
  <2> DEFINE events == eventsOf(live.activeNode, order, live.filters)
  <2>2. events = eventsOf(live.activeNode, order, live.filters)  OBVIOUS
  <2> HIDE DEF events
  <2>3. CASE live' = [live EXCEPT !.sort = order, !.filteredEvents = events]
    <3>1. /\ live'.activeNode = live.activeNode /\ live'.filteredEvents = events /\ live'.sort = order
          /\ live'.filters = live.filters /\ LiveSlice(live')
      BY <2>3 DEF LiveFits, LiveSlice
    <3> QED  BY <2>2, <3>1 DEF LiveFits
  <2> QED  BY <2>1, <2>2, <2>3
<1>7. CASE LiveToggleFilter
  <2>1. PICK filters : \/ live' = live
                       \/ live' = [live EXCEPT !.filters = filters,
                                               !.filteredEvents = eventsOf(live.activeNode, live.sort, filters)]
    BY <1>7 DEF LiveToggleFilter, LiveShown, liveVars
  <2> DEFINE events == eventsOf(live.activeNode, live.sort, filters)
  <2>2. events = eventsOf(live.activeNode, live.sort, filters)  OBVIOUS
  <2> HIDE DEF events
  <2>3. CASE live' = [live EXCEPT !.filters = filters, !.filteredEvents = events]
    <3>1. /\ live'.activeNode = live.activeNode /\ live'.filteredEvents = events /\ live'.sort = live.sort
          /\ live'.filters = filters /\ LiveSlice(live')
      BY <2>3 DEF LiveFits, LiveSlice
    <3> QED  BY <2>2, <3>1 DEF LiveFits
  <2> QED  BY <2>1, <2>2, <2>3
<1>8. CASE LiveToggleSidePanel
  <2> DEFINE open == ~live.openSidePanel
             node == IF live.openSidePanel THEN NoRow ELSE live.activeNode
  <2>1. live' = [live EXCEPT !.openSidePanel = open, !.activeNode = node]
    BY <1>8 DEF LiveToggleSidePanel, LiveShown
  <2>2. node = NoRow \/ node = live.activeNode  OBVIOUS
  <2> HIDE DEF open, node
  <2>3. /\ live'.activeNode = node /\ live'.filteredEvents = live.filteredEvents /\ live'.sort = live.sort
        /\ live'.filters = live.filters /\ LiveSlice(live')
    BY <2>1 DEF LiveFits, LiveSlice
  <2> QED  BY <2>2, <2>3 DEF LiveFits
<1>9. CASE LiveOpen  BY <1>9 DEF LiveOpen
<1>10. CASE LiveClose  BY <1>10, LiveInitial DEF LiveClose
<1> QED
  BY <1>1, <1>2, <1>3, <1>4, <1>5, <1>6, <1>7, <1>8, <1>9, <1>10 DEF LiveNext

(***************************************************************************)
(* The section Nodes.                                                      *)
(***************************************************************************)

SelectionsInv == OverviewInv /\ BootstrapInv /\ LiveFits(live)

\* A page is not disturbed by steps of others.
LEMMA OverviewUndisturbed ==
    ASSUME OverviewInv, UNCHANGED overviewVars, page' = "overview" => page = "overview"
    PROVE  OverviewInv'
BY DEF OverviewInv, OverviewFits, OverviewSlice, ClockFits, overviewVars

LEMMA BootstrapUndisturbed ==
    ASSUME BootstrapInv, UNCHANGED bootstrapVars, page' = "bootstrap" => page = "bootstrap"
    PROVE  BootstrapInv'
BY DEF BootstrapInv, BootstrapFits, BootstrapSlice, PanelSlice, BootstrapIndexSound, bootstrapVars

LEMMA SelectionsInit == NodePagesInit => SelectionsInv
<1> SUFFICES ASSUME NodePagesInit PROVE SelectionsInv  OBVIOUS
<1>1. /\ page = "none" /\ overview = initialOverview /\ overviewReq = {} /\ bootstrap = initialBootstrap
      /\ bootstrapPanel = initialBootstrapPanel /\ live = initialLive
  BY DEF NodePagesInit, LayoutInit, OverviewInit, BootstrapInit, LiveInit
<1>2. OverviewInv  BY <1>1, OverviewInitial DEF OverviewInv
<1>3. BootstrapInv  BY <1>1, BootstrapInitial DEF BootstrapInv, BootstrapIndexSound
<1>4. LiveFits(live)  BY <1>1, LiveInitial
<1> QED  BY <1>2, <1>3, <1>4 DEF SelectionsInv

LEMMA SelectionsStep == SelectionsInv /\ [NodePagesNext]_allVars => SelectionsInv'
<1> SUFFICES ASSUME SelectionsInv, [NodePagesNext]_allVars PROVE SelectionsInv'  OBVIOUS
<1>1. OverviewInv /\ BootstrapInv /\ LiveFits(live)  BY DEF SelectionsInv
<1>2. ASSUME UNCHANGED liveVars PROVE LiveFits(live')  BY <1>1, <1>2 DEF liveVars
<1>3. ASSUME OverviewInv', BootstrapInv', LiveFits(live') PROVE SelectionsInv'
  BY <1>3 DEF SelectionsInv, LiveFits, LiveSlice
<1>4. CASE page # "ended" /\ OverviewNext /\ UNCHANGED <<bootstrapVars, liveVars>>
  <2>1. page' = "bootstrap" => page = "bootstrap"  BY <1>4, OverviewApart DEF Apart
  <2> QED  BY <1>1, <1>2, <1>3, <1>4, <2>1, OverviewKept, BootstrapUndisturbed
<1>5. CASE page # "ended" /\ BootstrapNext /\ UNCHANGED <<overviewVars, liveVars>>
  <2>1. page' = "overview" => page = "overview"  BY <1>5, BootstrapApart DEF Apart
  <2> QED  BY <1>1, <1>2, <1>3, <1>5, <2>1, BootstrapKept, OverviewUndisturbed
<1>6. CASE page # "ended" /\ LiveNext /\ UNCHANGED <<overviewVars, bootstrapVars>>
  <2>1. (page' = "overview" => page = "overview") /\ (page' = "bootstrap" => page = "bootstrap")
    BY <1>6, LiveApart DEF Apart
  <2> QED  BY <1>1, <1>3, <1>6, <2>1, LiveKept, OverviewUndisturbed, BootstrapUndisturbed
<1>7. ASSUME UNCHANGED nodesVars, page' = "overview" => page = "overview", page' = "bootstrap" => page = "bootstrap"
      PROVE  SelectionsInv'
  BY <1>1, <1>2, <1>3, <1>7, OverviewUndisturbed, BootstrapUndisturbed DEF nodesVars
<1>8. ASSUME NEW p, NEW type, p \notin {"overview", "bootstrap"}, Apart(p, type), UNCHANGED nodesVars
      PROVE  SelectionsInv'
  BY <1>7, <1>8 DEF Apart
<1>9. CASE page # "ended" /\ EpochNext /\ UNCHANGED nodesVars  BY <1>8, <1>9, EpochApart
<1>10. CASE page # "ended" /\ WonNext /\ UNCHANGED nodesVars  BY <1>8, <1>10, WonApart
<1>11. CASE page # "ended" /\ MemoryNext /\ UNCHANGED nodesVars  BY <1>8, <1>11, MemoryApart
<1>12. CASE page # "ended" /\ FuzzingNext /\ UNCHANGED nodesVars  BY <1>8, <1>12, FuzzingApart
<1>13. CASE PickNode  BY <1>7, <1>13 DEF PickNode, On
<1>14. CASE Reload
  <2>1. /\ page' = "none" /\ overview' = initialOverview /\ overviewReq' = {} /\ live' = initialLive
        /\ bootstrap' = initialBootstrap /\ bootstrapPanel' = initialBootstrapPanel
    BY <1>14 DEF Reload
  <2>2. OverviewInv'  BY <2>1, OverviewInitial DEF OverviewInv
  <2>3. BootstrapInv'  BY <2>1, BootstrapInitial DEF BootstrapInv, BootstrapIndexSound
  <2> QED  BY <1>3, <2>1, <2>2, <2>3, LiveInitial
<1>15. CASE UNCHANGED allVars  BY <1>7, <1>15 DEF allVars, layoutVars
<1> QED
  BY <1>4, <1>5, <1>6, <1>9, <1>10, <1>11, <1>12, <1>13, <1>14, <1>15 DEF NodePagesNext

\* What is selected on a page of the section Nodes is a row of what it shows, with its
\* present data, for any nodes, answers and sessions: the reducers of the overview
\* replace the selected node with its row and the clock of the panel follows it, the
\* number of a bootstrap attempt is its place in the list, and the events of a live
\* tip are those under the filters and the order that are shown.
THEOREM SelectionsTheorem == NodePagesSpec => []NodeSelectionsSound
<1>1. SelectionsInv => NodeSelectionsSound
  <2> SUFFICES ASSUME SelectionsInv PROVE NodeSelectionsSound  OBVIOUS
  <2>1. OverviewOneRowEach /\ OverviewActiveFresh /\ OverviewClockRuns  BY OverviewInvSound DEF SelectionsInv
  <2>2. BootstrapIndexSound /\ BootstrapActiveVisible
    BY DEF SelectionsInv, BootstrapInv, BootstrapFits, BootstrapActiveVisible
  <2>3. LiveEventsDerived  BY DEF SelectionsInv, LiveFits, LiveEventsDerived
  <2> QED  BY <2>1, <2>2, <2>3 DEF NodeSelectionsSound
<1> QED  BY <1>1, SelectionsInit, SelectionsStep, PTL DEF NodePagesSpec, allVars

\* In every row of the overview the ledgers of bootstrap are complete in their order,
\* for any statuses of any nodes, whichever times getLedgers finds missing in them.
THEOREM LedgersInOrderTheorem == NodePagesSpec => []LedgersInOrder
<1>1. SelectionsInv => LedgersInOrder  BY OverviewInvSound DEF SelectionsInv
<1> QED  BY <1>1, SelectionsInit, SelectionsStep, PTL DEF NodePagesSpec, allVars

(***************************************************************************)
(* Won Slots.                                                              *)
(***************************************************************************)

WonRows(slots) == slots \in Seq(ToSet(slots)) /\ \A s \in ToSet(slots) : s # NoRow /\ s.slotTime \in Nat

\* An answer with a slot in production, committed or scheduled selects a slot.
Urgent(slots) == \E s \in ToSet(slots) : s.active \/ s.status \in {"Committed", "Scheduled"}

LEMMA MapWonSlotsRows ==
    ASSUME NEW response \in WonAnswers
    PROVE  WonRows(mapWonSlots(response)) /\ \A s \in ToSet(mapWonSlots(response)) : s.active \in BOOLEAN
<1> DEFINE S == [globalSlot : {s.global_slot : s \in ToSet(response.attempts) \cup ToSet(response.future)},
                 slotTime : Nat, status : {"none"} \cup {s.status : s \in ToSet(response.attempts)}, active : BOOLEAN]
           a == [i \in DOMAIN response.attempts |->
                   [globalSlot |-> response.attempts[i].global_slot, slotTime |-> response.attempts[i].slot_time,
                    status |-> response.attempts[i].status, active |-> getActive(response.attempts[i], response.now)]]
           f == [i \in DOMAIN response.future |->
                   [globalSlot |-> response.future[i].global_slot, slotTime |-> response.future[i].slot_time,
                    status |-> "none", active |-> FALSE]]
<1>1. /\ response.attempts \in Seq(ToSet(response.attempts)) /\ response.future \in Seq(ToSet(response.future))
      /\ \A i \in DOMAIN response.attempts : response.attempts[i].slot_time \in Nat
      /\ \A i \in DOMAIN response.future : response.future[i].slot_time \in Nat
  BY WonAssumption
<1>2. a \in Seq(S)
  <2> DEFINE n == Len(response.attempts)
  <2>1. n \in Nat /\ DOMAIN response.attempts = 1..n
    BY <1>1
  <2>2. ASSUME NEW i \in 1..n PROVE a[i] \in S
    <3>1. getActive(response.attempts[i], response.now) \in BOOLEAN
      BY <2>1, WonAssumption DEF getActive
    <3>2. response.attempts[i] \in ToSet(response.attempts)
      BY <2>1 DEF ToSet
    <3> QED
      BY <1>1, <2>1, <3>1, <3>2
  <2>3. a = [i \in 1..n |-> a[i]]
    BY <2>1
  <2> HIDE DEF a, n, S
  <2> QED
    BY <2>1, <2>2, <2>3
<1>3. f \in Seq(S)
  <2> DEFINE n == Len(response.future)
  <2>1. n \in Nat /\ DOMAIN response.future = 1..n
    BY <1>1
  <2>2. ASSUME NEW i \in 1..n PROVE f[i] \in S
    <3>1. FALSE \in BOOLEAN
      OBVIOUS
    <3>2. response.future[i] \in ToSet(response.future)
      BY <2>1 DEF ToSet
    <3> QED
      BY <1>1, <2>1, <3>1, <3>2
  <2>3. f = [i \in 1..n |-> f[i]]
    BY <2>1
  <2> HIDE DEF f, n, S
  <2> QED
    BY <2>1, <2>2, <2>3
<1> DEFINE m == mapWonSlots(response)
<1>4. m = a \o f
  BY DEF mapWonSlots
<1>5. \A s \in S : s # NoRow /\ s.slotTime \in Nat /\ s.active \in BOOLEAN
  BY DEF NoRow
<1> HIDE DEF a, f, m, S
<1>6. m \in Seq(S)
  BY <1>2, <1>3, <1>4
<1>7. ToSet(m) \subseteq S /\ m \in Seq(ToSet(m))
  BY <1>6 DEF ToSet
<1>8. WonRows(m) /\ \A s \in ToSet(m) : s.active \in BOOLEAN
  BY <1>5, <1>7 DEF WonRows
<1> QED
  BY <1>8 DEF m

LEMMA DefaultChosen ==
    ASSUME NEW slots, WonRows(slots), \A s \in ToSet(slots) : s.active \in BOOLEAN, Urgent(slots)
    PROVE  defaultSlot(slots) # NoRow
<1> DEFINE T == ToSet(slots)
<1>1. slots \in Seq(T) /\ \A s \in T : s # NoRow
  BY DEF WonRows
<1>2. ASSUME NEW key, NEW id, \E s \in T : s[key] = id PROVE find(slots, key, id) # NoRow
  <2>1. find(slots, key, id) \in ToSet(slots)
    <3>1. IF \E r \in ToSet(slots) : r[key] = id
          THEN find(slots, key, id) \in ToSet(slots) /\ find(slots, key, id)[key] = id
          ELSE find(slots, key, id) = NoRow
      <4> HIDE DEF T
      <4> QED
        BY <1>1, FindRow
    <3> QED
      BY <1>2, <3>1
  <2> QED
    BY <1>1, <2>1
<1>3. PICK s \in T : s.active \/ s.status \in {"Committed", "Scheduled"}
  BY DEF Urgent
<1>4. s["active"] = TRUE \/ s["status"] = "Committed" \/ s["status"] = "Scheduled"
  BY <1>3
<1>5. \/ find(slots, "active", TRUE) # NoRow \/ find(slots, "status", "Committed") # NoRow
      \/ find(slots, "status", "Scheduled") # NoRow
  BY <1>2, <1>4
<1> QED
  BY <1>5 DEF defaultSlot, orElse

LEMMA ActiveChosen ==
    ASSUME NEW slots, WonRows(slots), \A s \in ToSet(slots) : s.active \in BOOLEAN, Urgent(slots), NEW asked, wide
    PROVE  newActiveSlot(slots, asked) # NoRow
  BY DefaultChosen DEF newActiveSlot

\* The list is sorted, then filtered.
LEMMA ListShown ==
    ASSUME NEW slots, WonRows(slots), NEW tableSort, tableSort.sortBy = "slotTime", NEW filters,
           NEW shown, shown = filterSlots(sort(slots, tableSort), filters)
    PROVE  /\ ToSet(shown) = ToSet(filterSlots(slots, filters)) /\ SortedBy(shown, tableSort)
           /\ \A r \in ToSet(shown) : r # NoRow
           /\ slots = <<>> => shown = <<>>
<1> DEFINE T == ToSet(slots)
           sorted == sort(slots, tableSort)
           passing == {s \in T :
              \/ s.active \/ s.status \in {"Committed", "Scheduled"}
              \/ filters.accepted /\ s.status = "Canonical"
              \/ filters.orphaned /\ s.status = "Orphaned"
              \/ filters.discarded /\ s.status = "Discarded"
              \/ filters.upcoming /\ s.status = "none"}
<1>1. slots \in Seq(T) /\ \A s \in T : s # NoRow /\ s.slotTime \in Nat
  BY DEF WonRows
<1>2. Comparable(slots, tableSort)
  BY <1>1 DEF Comparable, ToSet
<1>3. /\ sorted \in Seq(T) /\ Len(sorted) = Len(slots) /\ ToSet(sorted) = T /\ SortedBy(sorted, tableSort)
  <2> DEFINE U == T
  <2>1. slots \in Seq(U)
    BY <1>1
  <2> HIDE DEF U
  <2>2. /\ sort(slots, tableSort) \in Seq(U) /\ Len(sort(slots, tableSort)) = Len(slots)
        /\ ToSet(sort(slots, tableSort)) = ToSet(slots) /\ SortedBy(sort(slots, tableSort), tableSort)
    BY <1>2, <2>1, SortRows
  <2> QED
    BY <2>2 DEF U
<1> HIDE DEF sorted
<1>4. filterSlots(slots, filters) = filter(slots, passing)
  BY DEF filterSlots
<1>5. shown = filter(sorted, passing)
  BY <1>3 DEF filterSlots, sorted
<1>6. passing \subseteq T
  OBVIOUS
<1> HIDE DEF passing, T
<1>7. ToSet(filter(slots, passing)) = ToSet(slots) \cap passing
  BY <1>1, FilterRows
<1>8. ToSet(shown) = ToSet(sorted) \cap passing /\ SortedBy(shown, tableSort)
  BY <1>3, <1>5, FilterRows, FilterSorted
<1>9. slots = <<>> => shown = <<>>
  <2>1. ASSUME slots = <<>> PROVE shown = <<>>
    <3>1. sorted = <<>>
      BY <1>3, <2>1
    <3>2. filter(<<>>, passing) = <<>>
      BY FilterEmpty
    <3> QED
      BY <1>5, <3>1, <3>2
  <2> QED
    BY <2>1
<1>10. ToSet(slots) = T
  BY DEF T
<1>11. ToSet(shown) = ToSet(filterSlots(slots, filters))
  BY <1>3, <1>4, <1>7, <1>8, <1>10
<1> QED
  BY <1>1, <1>3, <1>8, <1>9, <1>11

WonSlice(w) ==
    w = [slots |-> w.slots, filteredSlots |-> w.filteredSlots, activeSlot |-> w.activeSlot,
         activeSlotRoute |-> w.activeSlotRoute, openSidePanel |-> w.openSidePanel, filters |-> w.filters,
         sort |-> w.sort, serverResponded |-> w.serverResponded]

WonFits(w, desktop) ==
    /\ WonSlice(w) /\ WonRows(w.slots) /\ w.sort.sortBy = "slotTime"
    /\ w.filteredSlots = filterSlots(sort(w.slots, w.sort), w.filters)
    /\ desktop /\ w.serverResponded /\ Urgent(w.slots) => w.activeSlot # NoRow

TableSlice(t) ==
    /\ t = [exists |-> t.exists, rows |-> t.rows, activeRow |-> t.activeRow, fromRoute |-> t.fromRoute]
    /\ \A r \in ToSet(t.rows) : r # NoRow

RowsFit(w, t) ==
    /\ TableSlice(t)
    /\ t.exists => t.activeRow = w.activeSlot
    /\ w.filteredSlots # <<>> => t.rows = w.filteredSlots

PanelFits(p) ==
    /\ p = [slot |-> p.slot, stopTimer |-> p.stopTimer, stateWhenReachedZero |-> p.stateWhenReachedZero]
    /\ p.slot # NoRow /\ ~p.stopTimer => p.slot.active
    /\ p.stateWhenReachedZero # NoZero => p.stopTimer

AnswersFit(req, desktop) ==
    \A r \in req : ~r.sent => WonRows(r.slots) /\ (desktop /\ Urgent(r.slots) => r.activeSlot # NoRow)

WonInv ==
    /\ WonFits(won, wide) /\ RowsFit(won, wonTable) /\ PanelFits(wonPanel) /\ AnswersFit(wonReq, wide)

LEMMA WonInvSound == WonInv => WonSound
<1> SUFFICES ASSUME WonInv PROVE WonSound
  OBVIOUS
<1>1. WonFits(won, wide) /\ RowsFit(won, wonTable) /\ PanelFits(wonPanel)
  BY DEF WonInv
<1>2. WonPreselected
  BY <1>1 DEF WonFits, Urgent, WonPreselected
<1>3. WonRowMarked
  BY <1>1 DEF RowsFit, WonRowMarked
<1>4. WonListFit
  BY <1>1, ListShown DEF WonFits, RowsFit, WonListFit
<1>5. WonCountdownSound
  BY <1>1 DEF PanelFits, WonCountdownSound
<1> QED
  BY <1>2, <1>3, <1>4, <1>5 DEF WonSound

LEMMA NoPanelFits == PanelFits(NoWonPanel)
  BY DEF PanelFits, NoWonPanel

LEMMA PanelFollows ==
    ASSUME NEW p, PanelFits(p), NEW slot
    PROVE  PanelFits(PanelShown(p, slot))
<1> DEFINE q == PanelShown(p, slot)
           zero == p.stateWhenReachedZero
<1>1. CASE slot = NoRow
  BY <1>1 DEF PanelShown
<1>2. CASE slot # NoRow /\ (zero = NoZero \/ (zero.globalSlot = slot.globalSlot /\ zero.status # slot.status))
  <2> DEFINE stop == ~slot.active
  <2>1. q = [slot |-> slot, stopTimer |-> stop, stateWhenReachedZero |-> NoZero]
    BY <1>2 DEF PanelShown
  <2>2. ~stop => slot.active
    OBVIOUS
  <2> HIDE DEF q, stop
  <2>3. PanelFits(q)
    BY <2>1, <2>2 DEF PanelFits
  <2> QED
    BY <2>3 DEF q
<1>3. CASE slot # NoRow /\ ~(zero = NoZero \/ (zero.globalSlot = slot.globalSlot /\ zero.status # slot.status))
  <2>1. q = [p EXCEPT !.slot = slot]
    BY <1>3 DEF PanelShown
  <2>2. zero # NoZero
    BY <1>3
  <2> HIDE DEF q
  <2>3. /\ q = [slot |-> q.slot, stopTimer |-> q.stopTimer, stateWhenReachedZero |-> q.stateWhenReachedZero]
        /\ q.stopTimer = p.stopTimer /\ q.slot = slot
    BY <2>1 DEF PanelFits
  <2>4. p.stopTimer
    BY <2>2 DEF PanelFits
  <2>5. PanelFits(q)
    BY <2>3, <2>4 DEF PanelFits
  <2> QED
    BY <2>5 DEF q
<1> QED
  BY <1>1, <1>2, <1>3

LEMMA ToPanelFits ==
    ASSUME PanelFits(wonPanel), NEW state, ToPanel(state)
    PROVE  PanelFits(wonPanel')
  BY NoPanelFits, PanelFollows DEF ToPanel

\* The marked row follows the selection.
LEMMA RowMarked ==
    ASSUME NEW t, TableSlice(t), NEW slot
    PROVE  LET s == ActiveSlotShown(t, slot)
           IN  TableSlice(s) /\ s.exists = t.exists /\ s.rows = t.rows /\ s.activeRow = slot
<1> DEFINE s == ActiveSlotShown(t, slot)
           from == slot.globalSlot
<1>1. s = [t EXCEPT !.fromRoute = from, !.activeRow = slot] \/ s = [t EXCEPT !.activeRow = slot]
  BY DEF ActiveSlotShown
<1> HIDE DEF s, from
<1>2. /\ s = [exists |-> s.exists, rows |-> s.rows, activeRow |-> s.activeRow, fromRoute |-> s.fromRoute]
      /\ s.exists = t.exists /\ s.rows = t.rows /\ s.activeRow = slot
  BY <1>1 DEF TableSlice
<1>3. TableSlice(s)
  BY <1>2 DEF TableSlice
<1> QED
  BY <1>2, <1>3 DEF s

LEMMA SlotSelected ==
    ASSUME NEW w, NEW desktop, WonFits(w, desktop), NEW row, row # NoRow
    PROVE  LET s == WonActiveReduced(w, row)
           IN  WonFits(s, desktop) /\ s.activeSlot = row /\ s.filteredSlots = w.filteredSlots
<1> DEFINE s == WonActiveReduced(w, row)
           from == row.globalSlot
<1>1. s = [w EXCEPT !.activeSlot = row, !.activeSlotRoute = from, !.openSidePanel = TRUE]
  BY DEF WonActiveReduced
<1> HIDE DEF s, from
<1>2. /\ WonSlice(s) /\ s.slots = w.slots /\ s.filteredSlots = w.filteredSlots /\ s.activeSlot = row
      /\ s.filters = w.filters /\ s.sort = w.sort
  BY <1>1 DEF WonFits, WonSlice
<1>3. WonFits(s, desktop)
  BY <1>2 DEF WonFits
<1> QED
  BY <1>2, <1>3 DEF s

LEMMA NoTableFits == TableSlice(NoWonTable) /\ ~NoWonTable.exists /\ NoWonTable.rows = <<>>
<1> DEFINE none == <<>>
           t == NoWonTable
<1>1. t = [exists |-> FALSE, rows |-> none, activeRow |-> NoRow, fromRoute |-> NoSlot]
  BY DEF NoWonTable
<1>2. ToSet(none) = {}
  BY DEF ToSet
<1> HIDE DEF none, t
<1> QED
  BY <1>1, <1>2 DEF TableSlice, t, none

\* A list is shown: the table has its rows and marks the slot of the store.
LEMMA ListTabled ==
    ASSUME NEW state, WonFits(state, wide), TableSlice(wonTable), NEW url
    PROVE  LET shown == TableShown(state, url)
           IN  WonFits(shown.won, wide) /\ RowsFit(shown.won, shown.table)
<1> DEFINE created == [NoWonTable EXCEPT !.exists = TRUE, !.fromRoute = url]
           before == IF wonTable.exists THEN wonTable ELSE created
           marked == ActiveSlotShown(before, state.activeSlot)
           rows == rowsShown(marked.rows, state.filteredSlots)
           from == IF state.filteredSlots = <<>> THEN marked.fromRoute ELSE NoSlot
           table == [marked EXCEPT !.rows = rows, !.fromRoute = from]
           row == IF state.filteredSlots = <<>> THEN NoRow
                  ELSE find(state.filteredSlots, "globalSlot", marked.fromRoute)
           clicked == row # NoRow /\ (marked.activeRow = NoRow \/ marked.activeRow.globalSlot # row.globalSlot)
           shown == TableShown(state, url)
           selected == WonActiveReduced(state, row)
           pointed == ActiveSlotShown(table, row)
<1>1. TableSlice(created)
  <2>1. created = [NoWonTable EXCEPT !.exists = TRUE, !.fromRoute = url]
    OBVIOUS
  <2> HIDE DEF created
  <2>2. /\ created = [exists |-> created.exists, rows |-> created.rows, activeRow |-> created.activeRow,
                      fromRoute |-> created.fromRoute]
        /\ created.rows = NoWonTable.rows
    BY <2>1, NoTableFits DEF TableSlice
  <2> QED
    BY <2>2, NoTableFits DEF TableSlice
<1>2. TableSlice(before)
  BY <1>1
<1> HIDE DEF before
<1>3. TableSlice(marked) /\ marked.activeRow = state.activeSlot
  BY <1>2, RowMarked
<1> HIDE DEF marked
<1>4. /\ \A r \in ToSet(state.filteredSlots) : r # NoRow
      /\ state.slots = <<>> => state.filteredSlots = <<>>
  BY ListShown DEF WonFits
<1>5. /\ \A r \in ToSet(rows) : r # NoRow
      /\ state.filteredSlots # <<>> => rows = state.filteredSlots
  BY <1>3, <1>4 DEF rowsShown, TableSlice
<1>6. table = [marked EXCEPT !.rows = rows, !.fromRoute = from]
  OBVIOUS
<1>7. shown = IF state.slots = <<>> THEN [won |-> state, table |-> NoWonTable, url |-> url]
              ELSE IF clicked THEN [won |-> selected, table |-> pointed, url |-> row.globalSlot]
              ELSE [won |-> state, table |-> table, url |-> url]
  <2>1. table = [marked EXCEPT !.rows = rowsShown(@, state.filteredSlots),
                               !.fromRoute = IF state.filteredSlots = <<>> THEN @ ELSE NoSlot]
    BY <1>3 DEF TableSlice
  <2> HIDE DEF table, row
  <2> QED
    BY <2>1 DEF TableShown, marked, before, row
<1> HIDE DEF table, rows, from, shown
<1>8. /\ TableSlice(table) /\ table.rows = rows /\ table.activeRow = state.activeSlot
  <2>1. /\ table = [exists |-> table.exists, rows |-> table.rows, activeRow |-> table.activeRow,
                    fromRoute |-> table.fromRoute]
        /\ table.rows = rows /\ table.activeRow = state.activeSlot
    BY <1>3, <1>6 DEF TableSlice
  <2> QED
    BY <1>5, <2>1 DEF TableSlice
<1>9. CASE state.slots = <<>>
  <2>1. shown.won = state /\ shown.table = NoWonTable
    BY <1>7, <1>9
  <2>2. RowsFit(state, NoWonTable)
    BY <1>4, <1>9, NoTableFits DEF RowsFit
  <2> QED
    BY <2>1, <2>2 DEF shown
<1>10. CASE state.slots # <<>> /\ clicked
  <2>1. shown.won = selected /\ shown.table = pointed
    BY <1>7, <1>10
  <2>2. row # NoRow
    BY <1>10
  <2> HIDE DEF row
  <2>3. WonFits(selected, wide) /\ selected.activeSlot = row /\ selected.filteredSlots = state.filteredSlots
    BY <2>2, SlotSelected
  <2>4. TableSlice(pointed) /\ pointed.rows = table.rows /\ pointed.activeRow = row
    BY <1>8, RowMarked
  <2> HIDE DEF selected, pointed
  <2>5. RowsFit(selected, pointed)
    BY <1>5, <1>8, <2>3, <2>4 DEF RowsFit
  <2> QED
    BY <2>1, <2>3, <2>5 DEF shown
<1>11. CASE state.slots # <<>> /\ ~clicked
  <2>1. shown.won = state /\ shown.table = table
    BY <1>7, <1>11
  <2>2. RowsFit(state, table)
    BY <1>5, <1>8 DEF RowsFit
  <2> QED
    BY <2>1, <2>2 DEF shown
<1> QED
  BY <1>9, <1>10, <1>11

LEMMA WonListed ==
    ASSUME NEW state, WonFits(state, wide), TableSlice(wonTable), PanelFits(wonPanel), NEW url, WonShown(state, url)
    PROVE  WonFits(won', wide) /\ RowsFit(won', wonTable') /\ PanelFits(wonPanel')
<1>1. PICK shown : shown = TableShown(state, url) /\ won' = shown.won /\ wonTable' = shown.table /\ ToPanel(shown.won)
  BY DEF WonShown
<1>2. WonFits(shown.won, wide) /\ RowsFit(shown.won, shown.table)
  BY <1>1, ListTabled
<1> QED
  BY <1>1, <1>2, ToPanelFits

LEMMA WonChosen ==
    ASSUME NEW state, WonFits(state, wide), state.filteredSlots = won.filteredSlots, RowsFit(won, wonTable),
           PanelFits(wonPanel), NEW url, WonSelected(state, url)
    PROVE  WonFits(won', wide) /\ RowsFit(won', wonTable') /\ PanelFits(wonPanel')
<1>1. /\ won' = state /\ ToPanel(state)
      /\ wonTable' = IF wonTable.exists THEN ActiveSlotShown(wonTable, state.activeSlot) ELSE wonTable
  BY DEF WonSelected
<1>2. TableSlice(wonTable)
  BY DEF RowsFit
<1> DEFINE marked == ActiveSlotShown(wonTable, state.activeSlot)
<1>3. TableSlice(marked) /\ marked.rows = wonTable.rows /\ marked.activeRow = state.activeSlot
  BY <1>2, RowMarked
<1> HIDE DEF marked
<1>4. RowsFit(state, wonTable')
  BY <1>1, <1>2, <1>3 DEF RowsFit, marked
<1> QED
  BY <1>1, <1>4, ToPanelFits

\* An answer, or none, replaces the list.
LEMMA AnswerReduced ==
    ASSUME WonFits(won, wide), NEW slots, WonRows(slots), NEW active, wide /\ Urgent(slots) => active # NoRow
    PROVE  WonFits(WonSlotsReduced(won, slots, active), wide)
<1> DEFINE s == WonSlotsReduced(won, slots, active)
           shown == filterSlots(sort(slots, won.sort), won.filters)
           open == IF won.activeSlot # NoRow THEN won.openSidePanel ELSE wide
<1>1. s = [won EXCEPT !.slots = slots, !.filteredSlots = shown, !.activeSlot = active, !.serverResponded = TRUE,
                      !.openSidePanel = open]
  BY DEF WonSlotsReduced, WonFits, WonSlice
<1> HIDE DEF s, shown, open
<1>2. /\ WonSlice(s) /\ s.slots = slots /\ s.filteredSlots = shown /\ s.activeSlot = active
      /\ s.filters = won.filters /\ s.sort = won.sort
  BY <1>1 DEF WonFits, WonSlice
<1>3. WonFits(s, wide)
  BY <1>2 DEF WonFits, shown
<1> QED
  BY <1>3 DEF s

LEMMA NothingUrgent == WonRows(<<>>) /\ ~Urgent(<<>>)
<1>1. ToSet(<<>>) = {}
  BY DEF ToSet
<1> QED
  BY <1>1 DEF WonRows, Urgent

LEMMA WonInitial == WonFits(initialWon, wide) /\ RowsFit(initialWon, NoWonTable)
<1> DEFINE none == <<>>
           filters == [f \in {"accepted", "orphaned", "upcoming", "discarded"} |-> TRUE]
           tableSort == [sortBy |-> "slotTime", sortDirection |-> "ascending"]
           w == initialWon
<1>1. w = [slots |-> none, filteredSlots |-> none, activeSlot |-> NoRow, activeSlotRoute |-> NoSlot,
           openSidePanel |-> wide, filters |-> filters, sort |-> tableSort, serverResponded |-> FALSE]
  BY DEF initialWon
<1>2. WonRows(none) /\ tableSort.sortBy = "slotTime" /\ none = <<>>
  BY NothingUrgent
<1> HIDE DEF none, filters, tableSort, w
<1>3. filterSlots(sort(none, tableSort), filters) = none
  BY <1>2, ListShown
<1>4. WonFits(w, wide) /\ w.filteredSlots = none
  BY <1>1, <1>2, <1>3 DEF WonFits, WonSlice
<1>5. RowsFit(w, NoWonTable)
  BY <1>2, <1>4, NoTableFits DEF RowsFit
<1> QED
  BY <1>4, <1>5 DEF w

\* A request that is sent has no answer yet.
LEMMA SlotsAsked ==
    ASSUME NEW state, getSlots(state)
    PROVE  AnswersFit(wonReq', wide)
<1>1. \A r \in wonReq' : r.sent = TRUE
  BY DEF getSlots, switchMap
<1> QED
  BY <1>1 DEF AnswersFit

LEMMA WonAsked ==
    ASSUME WonInv, NEW url, WonAsk(url)
    PROVE  WonInv'
<1> DEFINE state == [won EXCEPT !.activeSlotRoute = url, !.serverResponded = FALSE]
<1>1. won' = state /\ ToPanel(state) /\ getSlots(state) /\ wonTable' = wonTable /\ wide' = wide
  BY DEF WonAsk
<1>2. state = [won EXCEPT !.activeSlotRoute = url, !.serverResponded = FALSE]
  OBVIOUS
<1> HIDE DEF state
<1>3. /\ WonSlice(state) /\ state.slots = won.slots /\ state.filteredSlots = won.filteredSlots
      /\ state.activeSlot = won.activeSlot /\ state.filters = won.filters /\ state.sort = won.sort
      /\ ~state.serverResponded
  BY <1>2 DEF WonInv, WonFits, WonSlice
<1>4. WonFits(state, wide)
  BY <1>3 DEF WonInv, WonFits
<1>5. RowsFit(state, wonTable)
  BY <1>3 DEF WonInv, RowsFit
<1>6. PanelFits(wonPanel') /\ AnswersFit(wonReq', wide)
  BY <1>1, SlotsAsked, ToPanelFits DEF WonInv
<1> QED
  BY <1>1, <1>4, <1>5, <1>6 DEF WonInv

LEMMA WonKept == WonInv /\ WonNext => WonInv'
<1> SUFFICES ASSUME WonInv PROVE WonNext => WonInv'
  OBVIOUS
<1>0. /\ WonFits(won, wide) /\ RowsFit(won, wonTable) /\ PanelFits(wonPanel) /\ AnswersFit(wonReq, wide)
      /\ TableSlice(wonTable)
  BY DEF WonInv, RowsFit
\* A list or a selection is shown, and the requests are among those there were.
<1>a. ASSUME UNCHANGED wide, wonReq' \subseteq wonReq,
             WonFits(won', wide), RowsFit(won', wonTable'), PanelFits(wonPanel')
      PROVE  WonInv'
  <2>1. AnswersFit(wonReq', wide)
    BY <1>0, <1>a DEF AnswersFit
  <2> QED
    BY <1>a, <2>1 DEF WonInv
<1>1. ASSUME WonOpen \/ WonNodeChange PROVE WonInv'
  <2>1. PICK url : WonAsk(url)
    BY <1>1 DEF WonOpen, WonNodeChange
  <2> QED
    BY <2>1, WonAsked
<1>2. ASSUME WonTick PROVE WonInv'
  <2>1. getSlots(won) /\ UNCHANGED <<won, wonTable, wonPanel, wide>>
    BY <1>2 DEF WonTick
  <2>2. AnswersFit(wonReq', wide)
    BY <2>1, SlotsAsked
  <2> QED
    BY <1>0, <2>1, <2>2 DEF WonInv
<1>3. ASSUME WonAnswered PROVE WonInv'
  <2>1. PICK r \in wonReq, response \in WonAnswers :
          wonReq' = {[sent |-> FALSE, slots |-> mapWonSlots(response), activeSlot |-> newActiveSlot(mapWonSlots(response), r)]}
    BY <1>3 DEF WonAnswered
  <2> DEFINE slots == mapWonSlots(response)
             row == newActiveSlot(slots, r)
  <2>2. WonRows(slots) /\ \A s \in ToSet(slots) : s.active \in BOOLEAN
    BY MapWonSlotsRows
  <2>3. wonReq' = {[sent |-> FALSE, slots |-> slots, activeSlot |-> row]}
    BY <2>1
  <2> HIDE DEF slots
  <2>4. wide /\ Urgent(slots) => row # NoRow
    BY <2>2, ActiveChosen
  <2> HIDE DEF row
  <2>5. AnswersFit(wonReq', wide)
    BY <2>2, <2>3, <2>4 DEF AnswersFit
  <2>6. UNCHANGED <<won, wonTable, wonPanel, wide>>
    BY <1>3 DEF WonAnswered
  <2> QED
    BY <1>0, <2>5, <2>6 DEF WonInv
<1>4. ASSUME WonSlotsSuccess PROVE WonInv'
  <2>1. PICK r \in wonReq : ~r.sent /\ WonShown(WonSlotsReduced(won, r.slots, r.activeSlot), wonUrl)
                            /\ wonReq' = Completed(wonReq, r)
    BY <1>4 DEF WonSlotsSuccess
  <2>2. WonFits(WonSlotsReduced(won, r.slots, r.activeSlot), wide)
    BY <1>0, <2>1, AnswerReduced DEF AnswersFit
  <2>3. WonFits(won', wide) /\ RowsFit(won', wonTable') /\ PanelFits(wonPanel')
    BY <1>0, <2>1, <2>2, WonListed
  <2> QED
    BY <1>4, <1>a, <2>1, <2>3 DEF WonSlotsSuccess, Completed
<1>5. ASSUME WonSlotsError PROVE WonInv'
  <2> DEFINE none == <<>>
  <2>1. WonShown(WonSlotsReduced(won, none, NoRow), wonUrl) /\ wonReq' = {} /\ wide' = wide
    BY <1>5 DEF WonSlotsError, catchErrorAndRepeat
  <2>2. WonRows(none) /\ ~Urgent(none)
    BY NothingUrgent
  <2> HIDE DEF none
  <2>3. WonFits(WonSlotsReduced(won, none, NoRow), wide)
    BY <1>0, <2>2, AnswerReduced
  <2>4. WonFits(won', wide) /\ RowsFit(won', wonTable') /\ PanelFits(wonPanel')
    BY <1>0, <2>1, <2>3, WonListed
  <2> QED
    BY <1>a, <2>1, <2>4
<1>6. ASSUME WonRowClick \/ WonPill PROVE WonInv'
  <2>1. UNCHANGED <<wonReq, wide>>
    BY <1>6 DEF WonRowClick, WonPill
  <2>2. CASE UNCHANGED <<won, wonTable, wonPanel>>
    BY <1>0, <1>a, <2>1, <2>2
  <2>3. ASSUME NEW row, row # NoRow, NEW url, WonSelected(WonActiveReduced(won, row), url) PROVE WonInv'
    <3> DEFINE s == WonActiveReduced(won, row)
    <3>1. WonFits(s, wide) /\ s.filteredSlots = won.filteredSlots
      BY <1>0, <2>3, SlotSelected
    <3>2. WonSelected(s, url)
      BY <2>3
    <3> HIDE DEF s
    <3>3. WonFits(won', wide) /\ RowsFit(won', wonTable') /\ PanelFits(wonPanel')
      BY <1>0, <3>1, <3>2, WonChosen
    <3> QED
      BY <1>a, <2>1, <3>3
  <2>4. CASE WonRowClick
    BY <1>0, <2>3, <2>4 DEF WonRowClick, TableSlice
  <2>5. CASE WonPill
    BY <2>2, <2>3, <2>5 DEF WonPill
  <2> QED
    BY <1>6, <2>4, <2>5
<1>7. ASSUME WonSort PROVE WonInv'
  <2> DEFINE t == sortTable(won.sort, "slotTime")
             list == filterSlots(sort(won.slots, t), won.filters)
             s == [won EXCEPT !.sort = t, !.filteredSlots = list]
  <2>1. UNCHANGED <<wonReq, wide>> /\ WonShown(s, wonUrl)
    BY <1>7 DEF WonSort
  <2>2. t.sortBy = "slotTime"
    BY DEF sortTable
  <2>3. s = [won EXCEPT !.sort = t, !.filteredSlots = list]
    OBVIOUS
  <2> HIDE DEF t, list, s
  <2>4. /\ WonSlice(s) /\ s.slots = won.slots /\ s.filteredSlots = list /\ s.activeSlot = won.activeSlot
        /\ s.filters = won.filters /\ s.sort = t /\ s.serverResponded = won.serverResponded
    BY <1>0, <2>3 DEF WonFits, WonSlice
  <2>5. WonFits(s, wide)
    BY <1>0, <2>2, <2>4 DEF WonFits, list
  <2>6. WonFits(won', wide) /\ RowsFit(won', wonTable') /\ PanelFits(wonPanel')
    BY <1>0, <2>1, <2>5, WonListed
  <2> QED
    BY <1>a, <2>1, <2>6
<1>8. ASSUME WonChangeFilter PROVE WonInv'
  <2>1. PICK f : WonShown([won EXCEPT !.filters = [won.filters EXCEPT ![f] = ~@],
                   !.filteredSlots = filterSlots(sort(won.slots, won.sort), [won.filters EXCEPT ![f] = ~@])], wonUrl)
    BY <1>8 DEF WonChangeFilter
  <2> DEFINE filters == [won.filters EXCEPT ![f] = ~@]
             list == filterSlots(sort(won.slots, won.sort), filters)
             s == [won EXCEPT !.filters = filters, !.filteredSlots = list]
  <2>2. UNCHANGED <<wonReq, wide>> /\ WonShown(s, wonUrl)
    BY <1>8, <2>1 DEF WonChangeFilter
  <2>3. s = [won EXCEPT !.filters = filters, !.filteredSlots = list]
    OBVIOUS
  <2> HIDE DEF filters, list, s
  <2>4. /\ WonSlice(s) /\ s.slots = won.slots /\ s.filteredSlots = list /\ s.activeSlot = won.activeSlot
        /\ s.filters = filters /\ s.sort = won.sort /\ s.serverResponded = won.serverResponded
    BY <1>0, <2>3 DEF WonFits, WonSlice
  <2>5. WonFits(s, wide)
    BY <1>0, <2>4 DEF WonFits, list
  <2>6. WonFits(won', wide) /\ RowsFit(won', wonTable') /\ PanelFits(wonPanel')
    BY <1>0, <2>2, <2>5, WonListed
  <2> QED
    BY <1>a, <2>2, <2>6
<1>9. ASSUME WonClosePanel PROVE WonInv'
  <2> DEFINE s == [won EXCEPT !.openSidePanel = FALSE, !.activeSlot = NoRow, !.activeSlotRoute = NoSlot]
  <2>1. UNCHANGED <<wonReq, wide>> /\ ~wide /\ WonSelected(s, NoSlot)
    BY <1>9 DEF WonClosePanel
  <2>2. s = [won EXCEPT !.openSidePanel = FALSE, !.activeSlot = NoRow, !.activeSlotRoute = NoSlot]
    OBVIOUS
  <2> HIDE DEF s
  <2>3. /\ WonSlice(s) /\ s.slots = won.slots /\ s.filteredSlots = won.filteredSlots
        /\ s.filters = won.filters /\ s.sort = won.sort
    BY <1>0, <2>2 DEF WonFits, WonSlice
  <2>4. WonFits(s, wide)
    BY <1>0, <2>1, <2>3 DEF WonFits
  <2>5. WonFits(won', wide) /\ RowsFit(won', wonTable') /\ PanelFits(wonPanel')
    BY <1>0, <2>1, <2>3, <2>4, WonChosen
  <2> QED
    BY <1>a, <2>1, <2>5
<1>10. ASSUME WonCountdownEnds PROVE WonInv'
  <2> DEFINE zero == [globalSlot |-> wonPanel.slot.globalSlot, status |-> wonPanel.slot.status]
             p == wonPanel'
  <2>1. p = [wonPanel EXCEPT !.stopTimer = TRUE, !.stateWhenReachedZero = zero]
        /\ UNCHANGED <<won, wonReq, wonTable, wide>>
    BY <1>10 DEF WonCountdownEnds
  <2> HIDE DEF zero, p
  <2>2. /\ p = [slot |-> p.slot, stopTimer |-> p.stopTimer, stateWhenReachedZero |-> p.stateWhenReachedZero]
        /\ p.stopTimer
    BY <1>0, <2>1 DEF PanelFits
  <2>3. PanelFits(p)
    BY <2>2 DEF PanelFits
  <2> QED
    BY <1>0, <1>a, <2>1, <2>3 DEF p
<1>11. ASSUME WonClose PROVE WonInv'
  <2>1. won' = initialWon /\ wonReq' = {} /\ wonTable' = NoWonTable /\ wonPanel' = NoWonPanel /\ wide' = wide
    BY <1>11 DEF WonClose
  <2> QED
    BY <1>a, <2>1, WonInitial, NoPanelFits
<1> QED
  BY <1>1, <1>2, <1>3, <1>4, <1>5, <1>6, <1>7, <1>8, <1>9, <1>10, <1>11 DEF WonNext

\* The page Won Slots, for every list of won slots, every link and every order of
\* answers, failures, clicks, filters, countdowns and node changes: an answer with a
\* slot in production, committed or scheduled leaves a slot selected on a wide screen,
\* the marked row is the slot of the store, the rows are those of the last answer
\* that pass the filters in their order, and the countdown runs only for a slot in
\* production whose time is not up.
THEOREM WonTheorem == NodePagesSpec => []WonSound
<1>1. NodePagesInit => WonInv
  <2> SUFFICES ASSUME NodePagesInit PROVE WonInv
    OBVIOUS
  <2>1. won = initialWon /\ wonReq = {} /\ wonTable = NoWonTable /\ wonPanel = NoWonPanel
    BY DEF NodePagesInit, WonInit
  <2> QED
    BY <2>1, WonInitial, NoPanelFits DEF WonInv, AnswersFit
<1>2. WonInv /\ [NodePagesNext]_allVars => WonInv'
  <2> SUFFICES ASSUME WonInv, [NodePagesNext]_allVars PROVE WonInv'
    OBVIOUS
  <2>1. CASE UNCHANGED wonVars
    BY <2>1 DEF wonVars, WonInv
  <2>2. CASE WonNext
    BY <2>2, WonKept
  <2>3. CASE Reload
    <3>1. won' = initialWon /\ wonReq' = {} /\ wonTable' = NoWonTable /\ wonPanel' = NoWonPanel /\ wide' = wide
      BY <2>3 DEF Reload
    <3> QED
      BY <3>1, WonInitial, NoPanelFits DEF WonInv, AnswersFit
  <2> QED
    BY <2>1, <2>2, <2>3 DEF NodePagesNext, allVars, producedVars, PickNode
<1> QED
  BY <1>1, <1>2, WonInvSound, PTL DEF NodePagesSpec, allVars

(***************************************************************************)
(* Fuzzing.                                                                *)
(***************************************************************************)

\* One round of the loop of getLineColor.
ColorStep(counters, f, i) ==
    IF i = 0 THEN [color |-> "aware", break |-> FALSE]
    ELSE IF f[i - 1].break THEN f[i - 1]
    ELSE IF f[i - 1].color \in {"aware", IF counters[i] > 0 THEN "success" ELSE "warn"}
    THEN [color |-> IF counters[i] > 0 THEN "success" ELSE "warn", break |-> FALSE]
    ELSE [color |-> "aware", break |-> TRUE]

LEMMA ColorEquation ==
    ASSUME NEW counters \in Seq(Int), counters # <<>>
    PROVE  \E f : /\ getLineColor(counters) = f[Len(counters)].color
                  /\ \A i \in 0..Len(counters) : f[i] = ColorStep(counters, f, i)
<1> DEFINE Colored(f, n) == f = [i \in 0..n |-> ColorStep(counters, f, i)]
           Bad == {n \in 0..Len(counters) : ~ \E f : Colored(f, n)}
<1>1. Bad = {}
  <2> SUFFICES ASSUME Bad # {} PROVE FALSE
    OBVIOUS
  <2>1. PICK n \in Bad : \A m \in Bad : n =< m
    <3>1. Bad \in SUBSET Nat
      OBVIOUS
    <3> QED
      BY <3>1, LeastNatural
  <2>2. CASE n = 0
    <3>1. Colored([i \in 0..0 |-> [color |-> "aware", break |-> FALSE]], 0)
      BY DEF ColorStep
    <3> QED
      BY <2>1, <2>2, <3>1
  <2>3. CASE n # 0
    <3>1. PICK f : Colored(f, n - 1)
      <4> HIDE DEF Colored
      <4>1. n - 1 \in 0..Len(counters) /\ ~ (n =< n - 1)
        BY <2>1, <2>3
      <4> QED
        BY <2>1, <4>1
    <3> DEFINE g == [i \in 0..n |-> IF i = n THEN ColorStep(counters, f, n) ELSE f[i]]
    <3>2. ASSUME NEW i \in 0..n PROVE g[i] = ColorStep(counters, g, i)
      <4>0. i # 0 => i - 1 \in 0..n /\ i - 1 # n
        BY <2>1
      <4>1. CASE i = n
        <5>1. g[i] = ColorStep(counters, f, n) /\ g[i - 1] = f[i - 1]
          BY <2>1, <2>3, <4>0, <4>1
        <5> QED
          BY <4>1, <5>1 DEF ColorStep
      <4>2. CASE i # n
        <5>1. i \in 0..(n - 1)
          BY <2>1, <4>2
        <5>2. f[i] = ColorStep(counters, f, i)
          BY <3>1, <5>1
        <5>3. g[i] = f[i] /\ (i # 0 => g[i - 1] = f[i - 1])
          BY <2>1, <4>0, <4>2, <5>1
        <5> QED
          BY <5>2, <5>3 DEF ColorStep
      <4> QED
        BY <4>1, <4>2
    <3>3. Colored(g, n)
      <4> DEFINE h == [i \in 0..n |-> ColorStep(counters, g, i)]
      <4>1. DOMAIN g = 0..n /\ DOMAIN h = 0..n
        OBVIOUS
      <4>2. \A i \in 0..n : h[i] = ColorStep(counters, g, i)
        OBVIOUS
      <4>3. g = h
        <5> SUFFICES \A i \in 0..n : g[i] = h[i]
          OBVIOUS
        <5> HIDE DEF g, h
        <5> QED
          BY <3>2, <4>2
      <4> QED
        BY <4>3
    <3> QED
      BY <2>1, <3>3
  <2> QED
    BY <2>2, <2>3
<1> DEFINE line == CHOOSE f : Colored(f, Len(counters))
<1>2. Colored(line, Len(counters))
  <2>1. Len(counters) \in 0..Len(counters)
    OBVIOUS
  <2> HIDE DEF Colored
  <2> QED
    BY <1>1, <2>1
<1>3. getLineColor(counters) = line[Len(counters)].color
  BY DEF getLineColor, ColorStep
<1>4. \A i \in 0..Len(counters) : line[i] = ColorStep(counters, line, i)
  <2> HIDE DEF line
  <2> QED
    BY <1>2
<1> HIDE DEF line
<1> QED
  BY <1>3, <1>4

\* The loop has a color of its own as long as the counters agree.
LEMMA LineColor ==
    ASSUME NEW counters \in Seq(Int), counters # <<>>
    PROVE  /\ getLineColor(counters) = "success" <=> \A c \in ToSet(counters) : c > 0
           /\ getLineColor(counters) = "warn" <=> \A c \in ToSet(counters) : c <= 0
<1> DEFINE n == Len(counters)
           Hit(i) == \A j \in 1..i : counters[j] > 0
           Missed(i) == \A j \in 1..i : counters[j] <= 0
<1>1. PICK f : /\ getLineColor(counters) = f[n].color
               /\ \A i \in 0..n : f[i] = ColorStep(counters, f, i)
  BY ColorEquation
<1>2. n \in Nat \ {0} /\ \A j \in 1..n : counters[j] \in Int
  OBVIOUS
<1> DEFINE Right(i) == \/ i = 0 /\ f[i] = [color |-> "aware", break |-> FALSE]
                       \/ i # 0 /\ Hit(i) /\ f[i] = [color |-> "success", break |-> FALSE]
                       \/ i # 0 /\ Missed(i) /\ f[i] = [color |-> "warn", break |-> FALSE]
                       \/ i # 0 /\ ~Hit(i) /\ ~Missed(i) /\ f[i] = [color |-> "aware", break |-> TRUE]
           Wrong == {i \in 0..n : ~Right(i)}
<1>3. Wrong = {}
  <2> SUFFICES ASSUME Wrong # {} PROVE FALSE
    OBVIOUS
  <2>1. PICK i \in Wrong : \A j \in Wrong : i =< j
    <3>1. Wrong \in SUBSET Nat
      BY <1>2
    <3> QED
      BY <3>1, LeastNatural
  <2>2. i \in 0..n /\ f[i] = ColorStep(counters, f, i)
    BY <1>1, <2>1
  <2>3. i # 0
    <3> SUFFICES ASSUME i = 0 PROVE FALSE
      OBVIOUS
    <3> QED
      BY <2>1, <2>2 DEF ColorStep
  <2>4. i - 1 \in 0..n /\ Right(i - 1)
    <3>1. i - 1 \in 0..n /\ ~(i =< i - 1)
      BY <1>2, <2>2, <2>3
    <3> HIDE DEF Right
    <3> QED
      BY <2>1, <3>1
  <2>5. counters[i] \in Int
    BY <1>2, <2>2, <2>3
  <2>6. /\ Hit(i) <=> Hit(i - 1) /\ counters[i] > 0
        /\ Missed(i) <=> Missed(i - 1) /\ counters[i] <= 0
    <3>1. 1..i = (1..(i - 1)) \cup {i}
      BY <1>2, <2>2, <2>3
    <3> QED
      BY <3>1
  <2>7. i - 1 # 0 => 1 \in 1..(i - 1) /\ counters[1] \in Int
    BY <1>2, <2>2, <2>3
  <2>8. i - 1 # 0 => ~(Hit(i - 1) /\ Missed(i - 1))
    BY <2>7
  <2>9. i - 1 = 0 => Hit(i - 1) /\ Missed(i - 1)
    BY <2>2
  <2>h. Hit(i) \in BOOLEAN /\ Missed(i) \in BOOLEAN /\ Hit(i - 1) \in BOOLEAN /\ Missed(i - 1) \in BOOLEAN
    OBVIOUS
  <2> HIDE DEF Hit, Missed
  <2>10. Right(i)
    <3> DEFINE hit == counters[i] > 0
               b == f[i - 1]
    <3>0. hit \in BOOLEAN /\ (counters[i] <= 0 <=> ~hit)
      BY <2>5
    <3>1. f[i] = IF b.break THEN b
                 ELSE IF b.color \in {"aware", IF hit THEN "success" ELSE "warn"}
                 THEN [color |-> IF hit THEN "success" ELSE "warn", break |-> FALSE]
                 ELSE [color |-> "aware", break |-> TRUE]
      BY <2>2, <2>3 DEF ColorStep
    <3> HIDE DEF hit
    <3>2. CASE i - 1 = 0 /\ b = [color |-> "aware", break |-> FALSE]
      <4>1. CASE hit
        <5>1. f[i] = [color |-> "success", break |-> FALSE]
          BY <3>1, <3>2, <4>1
        <5> QED
          BY <2>3, <2>6, <2>9, <2>h, <3>0, <3>2, <4>1, <5>1
      <4>2. CASE ~hit
        <5>1. f[i] = [color |-> "warn", break |-> FALSE]
          BY <3>1, <3>2, <4>2
        <5> QED
          BY <2>3, <2>6, <2>9, <2>h, <3>0, <3>2, <4>2, <5>1
      <4> QED
        BY <4>1, <4>2
    <3>3. CASE Hit(i - 1) /\ ~Missed(i - 1) /\ b = [color |-> "success", break |-> FALSE]
      <4>1. CASE hit
        <5>1. f[i] = [color |-> "success", break |-> FALSE]
          BY <3>1, <3>3, <4>1
        <5> QED
          BY <2>3, <2>6, <2>9, <2>h, <3>0, <3>3, <4>1, <5>1
      <4>2. CASE ~hit
        <5>1. f[i] = [color |-> "aware", break |-> TRUE]
          BY <3>1, <3>3, <4>2
        <5> QED
          BY <2>3, <2>6, <2>9, <2>h, <3>0, <3>3, <4>2, <5>1
      <4> QED
        BY <4>1, <4>2
    <3>4. CASE Missed(i - 1) /\ ~Hit(i - 1) /\ b = [color |-> "warn", break |-> FALSE]
      <4>1. CASE hit
        <5>1. f[i] = [color |-> "aware", break |-> TRUE]
          BY <3>1, <3>4, <4>1
        <5> QED
          BY <2>3, <2>6, <2>9, <2>h, <3>0, <3>4, <4>1, <5>1
      <4>2. CASE ~hit
        <5>1. f[i] = [color |-> "warn", break |-> FALSE]
          BY <3>1, <3>4, <4>2
        <5> QED
          BY <2>3, <2>6, <2>9, <2>h, <3>0, <3>4, <4>2, <5>1
      <4> QED
        BY <4>1, <4>2
    <3>5. CASE ~Hit(i - 1) /\ ~Missed(i - 1) /\ b = [color |-> "aware", break |-> TRUE]
      <4>1. CASE hit
        <5>1. f[i] = [color |-> "aware", break |-> TRUE]
          BY <3>1, <3>5, <4>1
        <5> QED
          BY <2>3, <2>6, <2>9, <2>h, <3>0, <3>5, <4>1, <5>1
      <4>2. CASE ~hit
        <5>1. f[i] = [color |-> "aware", break |-> TRUE]
          BY <3>1, <3>5, <4>2
        <5> QED
          BY <2>3, <2>6, <2>9, <2>h, <3>0, <3>5, <4>2, <5>1
      <4> QED
        BY <4>1, <4>2
    <3> QED
      BY <2>4, <2>8, <2>h, <3>2, <3>3, <3>4, <3>5
  <2> QED
    BY <2>1, <2>10
<1>4. Right(n)
  <2>1. n \in 0..n
    BY <1>2
  <2> HIDE DEF Right
  <2> QED
    BY <1>3, <2>1
<1>5. Hit(n) <=> \A c \in ToSet(counters) : c > 0
  BY DEF ToSet
<1>6. Missed(n) <=> \A c \in ToSet(counters) : c <= 0
  BY DEF ToSet
<1>7. ~(Hit(n) /\ Missed(n))
  <2>1. 1 \in 1..n /\ counters[1] \in Int
    BY <1>2
  <2> QED
    BY <2>1
<1>8. n # 0
  BY <1>2
<1> HIDE DEF Hit, Missed, n
<1> QED
  BY <1>1, <1>4, <1>5, <1>6, <1>7, <1>8

-----------------------------------------------------------------------------
(* What the slice, the requests and the routes have in common at every     *)
(* place of a step.                                                        *)

FileRows(files) ==
    /\ files \in Seq(ToSet(files))
    /\ \A f \in ToSet(files) : f.path \in Nat \ {0} /\ f.coverage \in Nat

FuzzingSlice(s) ==
    s = [directories |-> s.directories, activeDirectory |-> s.activeDirectory, files |-> s.files,
         filteredFiles |-> s.filteredFiles, activeFile |-> s.activeFile,
         activeFileDetails |-> s.activeFileDetails, filterText |-> s.filterText, answered |-> s.answered,
         sort |-> s.sort]

\* The table holds the files that the search finds, in the order of the columns.
TableFits(files, filteredFiles, filterText, tableSort) ==
    /\ FileRows(files) /\ FileRows(filteredFiles) /\ tableSort.sortBy \in {"path", "coverage"}
    /\ SortedBy(filteredFiles, tableSort)
    /\ ToSet(filteredFiles) = ToSet(filterFiles(files, filterText))

ColorsFit(details) ==
    details.counters # <<>> =>
        /\ details.lineColor = "success" <=> \A c \in ToSet(details.counters) : c > 0
        /\ details.lineColor = "warn" <=> \A c \in ToSet(details.counters) : c <= 0

FuzzingFits(s) ==
    /\ FuzzingSlice(s)
    /\ s.directories \in Seq(DOMAIN FilesOf)
    /\ s.activeDirectory \in DOMAIN FilesOf \cup {NoDirectory}
    /\ TableFits(s.files, s.filteredFiles, s.filterText, s.sort)
    /\ ColorsFit(s.activeFileDetails)

RequestsFit(req) ==
    /\ req = [directories |-> req.directories, files |-> req.files, details |-> req.details]
    /\ \A r \in req.files : r.dir \in DOMAIN FilesOf

WorkFits(w) ==
    /\ w = [slice |-> w.slice, req |-> w.req, route |-> w.route]
    /\ FuzzingFits(w.slice) /\ RequestsFit(w.req)
    /\ w.route = [dir |-> w.route.dir, file |-> w.route.file]

\* The files kept look like an answer of the directory, under the search it met.
AnswerKept(files, answered) ==
    \E answer \in FilesOf[answered.dir] \cup {<<>>} :
      ToSet(filterFiles(files, answered.text)) = ToSet(filterFiles(answer, answered.text))

\* The files on display or on their way are those of the active directory,
\* the report that of the active file.
FilesFit(s, req) ==
    s.activeDirectory # NoDirectory =>
        IF req.files = {} THEN s.answered.dir = s.activeDirectory /\ AnswerKept(s.files, s.answered)
                          ELSE req.files = {[dir |-> s.activeDirectory]}

ReportFits(s, req) ==
    s.activeFile \notin {NoRow, BlankFile} =>
        IF req.details = {}
        THEN \/ s.activeFileDetails = EmptyDetails
             \/ s.activeFileDetails.dir = s.activeDirectory /\ s.activeFileDetails.path = s.activeFile.path
        ELSE req.details = {[dir |-> s.activeDirectory, path |-> s.activeFile.path]}

WorkOpen(w) == WorkFits(w) /\ FilesFit(w.slice, w.req) /\ ReportFits(w.slice, w.req)

WorkClosed(w) == WorkFits(w) /\ w.slice.activeDirectory = NoDirectory /\ w.slice.activeFile \in {NoRow, BlankFile}

FuzzingInv == IF page = "fuzzing" THEN WorkOpen(Now) ELSE WorkClosed(Now)

LEMMA FuzzingInvSound == FuzzingInv => FuzzingSound
<1> SUFFICES ASSUME FuzzingInv PROVE FuzzingSound
  OBVIOUS
<1>1. WorkFits(Now) /\ (page = "fuzzing" => FilesFit(fuzzing, fuzzingReq) /\ ReportFits(fuzzing, fuzzingReq))
  BY DEF FuzzingInv, WorkOpen, WorkClosed, Now
<1>2. FuzzingFits(fuzzing)
  BY <1>1 DEF WorkFits, Now
<1>3. FilesFound
  BY <1>2 DEF FuzzingFits, TableFits, FilesFound
<1>4. DirectoryFilesFit
  <2> SUFFICES ASSUME page = "fuzzing", fuzzing.activeDirectory # NoDirectory, fuzzingReq.files = {},
                      fuzzing.filterText = fuzzing.answered.text
               PROVE  \E answer \in FilesOf[fuzzing.activeDirectory] \cup {<<>>} :
                        ToSet(fuzzing.filteredFiles) = ToSet(filterFiles(answer, fuzzing.filterText))
    BY <1>1 DEF FilesFit, DirectoryFilesFit
  <2>1. fuzzing.answered.dir = fuzzing.activeDirectory /\ AnswerKept(fuzzing.files, fuzzing.answered)
    BY <1>1 DEF FilesFit
  <2> QED
    BY <1>3, <2>1 DEF AnswerKept, FilesFound
<1>5. FileDetailsFit
  BY <1>1, <1>2 DEF ReportFits, FuzzingFits, ColorsFit, FileDetailsFit
<1> QED
  BY <1>3, <1>4, <1>5 DEF FuzzingSound

LEMMA ClosedOpen == ASSUME NEW w, WorkClosed(w) PROVE WorkOpen(w)
BY DEF WorkClosed, WorkOpen, FilesFit, ReportFits

\* A step ends with w.
LEMMA BecomeFits ==
    ASSUME NEW w, WorkFits(w), Become(w), IF page' = "fuzzing" THEN WorkOpen(w) ELSE WorkClosed(w)
    PROVE  FuzzingInv'
<1>1. Now' = w
  BY DEF Become, Now, WorkFits
<1> QED
  BY <1>1 DEF FuzzingInv, WorkOpen, WorkClosed, WorkFits, FuzzingFits, FuzzingSlice, TableFits, FileRows,
              ColorsFit, RequestsFit, FilesFit, ReportFits
-----------------------------------------------------------------------------
(* The table of the files.                                                 *)

LEMMA FilesSearched ==
    ASSUME NEW files, FileRows(files), NEW text
    PROVE  /\ FileRows(filterFiles(files, text))
           /\ ToSet(filterFiles(files, text)) =
                {f \in ToSet(files) : text = "" \/ text \in f.words}
<1> DEFINE found == {f \in ToSet(files) : text = "" \/ text \in f.words}
           s == filterFiles(files, text)
<1>1. s = filter(files, found)
  BY DEF filterFiles
<1>2. files \in Seq(ToSet(files))
  BY DEF FileRows
<1>3. found \subseteq ToSet(files)
  OBVIOUS
<1> HIDE DEF found, s
<1>4. s \in Seq(ToSet(files)) /\ ToSet(s) = ToSet(files) \cap found
  BY <1>1, <1>2, FilterRows
<1>5. s \in Seq(ToSet(s))
  BY <1>4 DEF ToSet
<1>6. FileRows(s)
  BY <1>4, <1>5 DEF FileRows
<1>7. ToSet(s) = found
  BY <1>3, <1>4
<1> QED
  BY <1>6, <1>7 DEF s, found

LEMMA FilesSorted ==
    ASSUME NEW files, FileRows(files), NEW tableSort, tableSort.sortBy \in {"path", "coverage"}
    PROVE  /\ FileRows(sort(files, tableSort)) /\ SortedBy(sort(files, tableSort), tableSort)
           /\ ToSet(sort(files, tableSort)) = ToSet(files)
<1> DEFINE s == sort(files, tableSort)
<1>1. files \in Seq(ToSet(files))
  BY DEF FileRows
<1>2. Comparable(files, tableSort)
  <2> SUFFICES ASSUME NEW i \in DOMAIN files PROVE files[i][tableSort.sortBy] \in Int
    BY DEF Comparable
  <2>1. files[i] \in ToSet(files)
    BY DEF ToSet
  <2>2. files[i].path \in Int /\ files[i].coverage \in Int
    BY <2>1 DEF FileRows
  <2> QED
    BY <2>2
<1>3. s \in Seq(ToSet(files)) /\ SortedBy(s, tableSort) /\ ToSet(s) = ToSet(files)
  BY <1>1, <1>2, SortRows
<1> HIDE DEF s
<1>4. FileRows(s)
  BY <1>3 DEF FileRows
<1> QED
  BY <1>3, <1>4 DEF s

\* FUZZING_GET_FILES_SUCCESS: rows that are sorted and then searched stay sorted.
LEMMA TableAnswered ==
    ASSUME NEW response, FileRows(response), NEW text, NEW tableSort, tableSort.sortBy \in {"path", "coverage"}
    PROVE  LET files == sort(response, tableSort)
           IN  TableFits(files, filterFiles(files, text), text, tableSort)
<1> DEFINE files == sort(response, tableSort)
           found == {f \in ToSet(files) : text = "" \/ text \in f.words}
<1>1. FileRows(files) /\ SortedBy(files, tableSort)
  BY FilesSorted
<1> HIDE DEF files
<1>2. FileRows(filterFiles(files, text))
  BY <1>1, FilesSearched
<1>3. SortedBy(filter(files, found), tableSort)
  <2>1. files \in Seq(ToSet(files))
    BY <1>1 DEF FileRows
  <2> HIDE DEF found
  <2> QED
    BY <1>1, <2>1, FilterSorted
<1>4. SortedBy(filterFiles(files, text), tableSort)
  BY <1>3 DEF filterFiles
<1>5. TableFits(files, filterFiles(files, text), text, tableSort)
  BY <1>1, <1>2, <1>4 DEF TableFits
<1> QED
  BY <1>5 DEF files

LEMMA TableSearched ==
    ASSUME NEW files, FileRows(files), NEW text, NEW tableSort, tableSort.sortBy \in {"path", "coverage"}
    PROVE  TableFits(files, sort(filterFiles(files, text), tableSort), text, tableSort)
<1>1. FileRows(filterFiles(files, text))
  BY FilesSearched
<1> QED
  BY <1>1, FilesSorted DEF TableFits

LEMMA TableSorted ==
    ASSUME NEW files, NEW rows, NEW text, NEW old, TableFits(files, rows, text, old),
           NEW tableSort, tableSort.sortBy \in {"path", "coverage"}
    PROVE  TableFits(files, sort(rows, tableSort), text, tableSort)
BY FilesSorted DEF TableFits

LEMMA NoFiles == FileRows(<<>>)
<1>1. ToSet(<<>>) = {}
  BY DEF ToSet
<1> QED
  BY <1>1 DEF FileRows

LEMMA ResponseRows == ASSUME NEW d \in DOMAIN FilesOf, NEW answer \in FilesOf[d] PROVE FileRows(answer)
BY FuzzingAssumption DEF FileRows

\* The names are put in order, and stay the names of directories.
LEMMA DirectoriesMapped ==
    ASSUME NEW answer \in DirectoriesAnswers
    PROVE  mapGetDirectoryNamesResponse(answer) \in Seq(DOMAIN FilesOf)
<1> DEFINE D == DOMAIN FilesOf
           T == [dateNumber : D]
           rows == [i \in DOMAIN answer |-> [dateNumber |-> answer[i]]]
           order == [sortBy |-> "dateNumber", sortDirection |-> "descending"]
           s == sort(rows, order)
<1>1. answer \in Seq(D) /\ D \subseteq Nat
  BY FuzzingAssumption
<1>2. rows \in Seq(T)
  <2>1. DOMAIN answer = 1..Len(answer) /\ Len(answer) \in Nat /\ \A i \in 1..Len(answer) : answer[i] \in D
    BY <1>1
  <2> HIDE DEF D
  <2>2. rows = [i \in 1..Len(answer) |-> [dateNumber |-> answer[i]]]
    BY <2>1
  <2>3. \A i \in 1..Len(answer) : [dateNumber |-> answer[i]] \in T
    BY <2>1
  <2> HIDE DEF T, rows
  <2> QED
    BY <2>1, <2>2, <2>3
<1>3. \A i \in DOMAIN rows : rows[i].dateNumber \in Int
  BY <1>1
<1>4. order.sortBy = "dateNumber"
  OBVIOUS
<1>5. mapGetDirectoryNamesResponse(answer) = [i \in DOMAIN s |-> s[i].dateNumber]
  BY DEF mapGetDirectoryNamesResponse
<1> HIDE DEF rows, order, s, D, T
<1>6. Comparable(rows, order)
  BY <1>3, <1>4 DEF Comparable
<1>7. s \in Seq(T)
  BY <1>2, <1>6, SortRows DEF s
<1>8. [i \in DOMAIN s |-> s[i].dateNumber] \in Seq(D)
  <2>1. DOMAIN s = 1..Len(s) /\ Len(s) \in Nat /\ \A i \in 1..Len(s) : s[i] \in T
    BY <1>7
  <2>2. \A i \in 1..Len(s) : s[i].dateNumber \in D
    BY <2>1 DEF T
  <2>3. [i \in DOMAIN s |-> s[i].dateNumber] = [i \in 1..Len(s) |-> s[i].dateNumber]
    BY <2>1
  <2> DEFINE n == Len(s)
             names == [i \in 1..n |-> s[i].dateNumber]
  <2>4. n \in Nat /\ \A i \in 1..n : s[i].dateNumber \in D
    BY <2>1, <2>2
  <2> HIDE DEF n
  <2>5. names \in Seq(D)
    BY <2>4
  <2> QED
    BY <2>3, <2>5 DEF n
<1> QED
  BY <1>5, <1>8 DEF D
-----------------------------------------------------------------------------
(* What a step is made of.                                                 *)

LEMMA NoDirectoryApart == NoDirectory \notin DOMAIN FilesOf
BY FuzzingAssumption DEF NoDirectory

LEMMA EmptyColors == ColorsFit(NoDetails) /\ ColorsFit(EmptyDetails)
<1>1. NoDetails.counters = <<>> /\ EmptyDetails.counters = <<>>
  BY DEF NoDetails, EmptyDetails
<1> QED
  BY <1>1 DEF ColorsFit

LEMMA MappedColors ==
    ASSUME NEW r, NEW counters \in LineCounters
    PROVE  LET d == mapFileDetails(r, counters)
           IN  ColorsFit(d) /\ d.dir = r.dir /\ d.path = r.path
<1> DEFINE d == mapFileDetails(r, counters)
<1>1. d.dir = r.dir /\ d.path = r.path /\ d.counters = counters /\ d.lineColor = getLineColor(counters)
  BY DEF mapFileDetails
<1> HIDE DEF d
<1>2. counters \in Seq(Int)
  BY FuzzingAssumption
<1>3. ColorsFit(d)
  <2> SUFFICES ASSUME counters # <<>>
               PROVE  /\ d.lineColor = "success" <=> \A c \in ToSet(d.counters) : c > 0
                      /\ d.lineColor = "warn" <=> \A c \in ToSet(d.counters) : c <= 0
    BY <1>1 DEF ColorsFit
  <2> QED
    BY <1>1, <1>2, LineColor
<1> QED
  BY <1>1, <1>3 DEF d

\* FUZZING_GET_FILE_DETAILS_SUCCESS.
LEMMA ReportReduced ==
    ASSUME NEW s, FuzzingFits(s), NEW details, ColorsFit(details)
    PROVE  LET t == GetFileDetailsSuccessReduced(s, details)
           IN  /\ FuzzingFits(t) /\ t.activeFileDetails = details
               /\ t.activeDirectory = s.activeDirectory /\ t.answered = s.answered /\ t.files = s.files
               /\ t.activeFile = s.activeFile \/ (s.activeFile = NoRow /\ t.activeFile = BlankFile)
<1> DEFINE t == GetFileDetailsSuccessReduced(s, details)
           file == IF s.activeFile = NoRow THEN BlankFile ELSE s.activeFile
<1>1. CASE details = s.activeFileDetails
  <2>1. t = s
    BY <1>1 DEF GetFileDetailsSuccessReduced
  <2> QED
    BY <1>1, <2>1
<1>2. CASE details # s.activeFileDetails
  <2>1. t = [s EXCEPT !.activeFileDetails = details, !.activeFile = file]
    BY <1>2 DEF GetFileDetailsSuccessReduced, FuzzingFits, FuzzingSlice
  <2>2. file = s.activeFile \/ (s.activeFile = NoRow /\ file = BlankFile)
    OBVIOUS
  <2> HIDE DEF t, file
  <2>3. /\ FuzzingSlice(t) /\ t.activeFileDetails = details /\ t.activeFile = file
        /\ t.activeDirectory = s.activeDirectory /\ t.answered = s.answered /\ t.directories = s.directories
        /\ t.files = s.files /\ t.filteredFiles = s.filteredFiles /\ t.filterText = s.filterText /\ t.sort = s.sort
    BY <2>1 DEF FuzzingFits, FuzzingSlice
  <2>4. FuzzingFits(t)
    BY <2>3 DEF FuzzingFits
  <2> QED
    BY <2>2, <2>3, <2>4 DEF t
<1> QED
  BY <1>1, <1>2

\* FUZZING_GET_FILES.
LEMMA FilesAsked ==
    ASSUME NEW w, WorkFits(w), ReportFits(w.slice, w.req), w.slice.activeDirectory \in DOMAIN FilesOf
    PROVE  WorkOpen(getFiles(w))
<1> DEFINE v == getFiles(w)
           r == [dir |-> w.slice.activeDirectory]
           q == [w.req EXCEPT !.files = {r}]
<1>1. v = [slice |-> w.slice, req |-> q, route |-> w.route]
  BY DEF getFiles, switchMap, WorkFits
<1>2. q = [w.req EXCEPT !.files = {r}] /\ r = [dir |-> w.slice.activeDirectory] /\ r.dir = w.slice.activeDirectory
  OBVIOUS
<1> HIDE DEF v, q, r
<1>3. RequestsFit(q) /\ q.files = {r} /\ q.details = w.req.details
  BY <1>2 DEF WorkFits, RequestsFit
<1>4. v.slice = w.slice /\ v.req = q /\ v.route = w.route /\ v = [slice |-> v.slice, req |-> v.req, route |-> v.route]
  BY <1>1
<1>5. WorkFits(v)
  BY <1>3, <1>4 DEF WorkFits
<1>6. FilesFit(v.slice, v.req) /\ ReportFits(v.slice, v.req)
  BY <1>2, <1>3, <1>4 DEF FilesFit, ReportFits
<1> QED
  BY <1>5, <1>6 DEF WorkOpen, v

\* FUZZING_SET_ACTIVE_DIRECTORY.
LEMMA DirectorySet ==
    ASSUME NEW w, WorkFits(w), ReportFits(w.slice, w.req), NEW dir \in DOMAIN FilesOf
    PROVE  WorkOpen(setActiveDirectory(w, dir))
<1> DEFINE s == SetActiveDirectoryReduced(w.slice, dir)
           v == [slice |-> s, req |-> w.req, route |-> w.route]
<1>1. setActiveDirectory(w, dir) = getFiles(v)
  BY DEF setActiveDirectory, WorkFits
<1>2. FuzzingFits(s) /\ s.activeDirectory = dir /\ (s = w.slice \/ s.activeFile = NoRow)
  <2>1. CASE dir = w.slice.activeDirectory
    BY <2>1 DEF SetActiveDirectoryReduced, WorkFits
  <2>2. CASE dir # w.slice.activeDirectory
    <3>1. s = [w.slice EXCEPT !.activeDirectory = dir, !.activeFile = NoRow, !.activeFileDetails = NoDetails]
      BY <2>2 DEF SetActiveDirectoryReduced
    <3> HIDE DEF s
    <3>2. /\ FuzzingSlice(s) /\ s.activeFileDetails = NoDetails /\ s.activeFile = NoRow /\ s.activeDirectory = dir
          /\ s.directories = w.slice.directories /\ s.files = w.slice.files
          /\ s.filteredFiles = w.slice.filteredFiles /\ s.filterText = w.slice.filterText /\ s.sort = w.slice.sort
      BY <3>1 DEF WorkFits, FuzzingFits, FuzzingSlice
    <3> QED
      BY <3>2, EmptyColors DEF WorkFits, FuzzingFits
  <2> QED
    BY <2>1, <2>2
<1> HIDE DEF s
<1>3. v.slice = s /\ v.req = w.req /\ v.route = w.route /\ v = [slice |-> v.slice, req |-> v.req, route |-> v.route]
  OBVIOUS
<1> HIDE DEF v
<1>4. WorkFits(v)
  BY <1>2, <1>3 DEF WorkFits
<1>5. ReportFits(v.slice, v.req)
  BY <1>2, <1>3 DEF ReportFits
<1> QED
  BY <1>1, <1>2, <1>3, <1>4, <1>5, FilesAsked

\* FUZZING_GET_FILE_DETAILS.
LEMMA DetailsAsked ==
    ASSUME NEW w, WorkOpen(w), NEW file
    PROVE  WorkOpen(getFileDetails(w, file))
<1> DEFINE s == [w.slice EXCEPT !.activeFile = file]
           v == getFileDetails(w, file)
<1>1. s = [w.slice EXCEPT !.activeFile = file]
  OBVIOUS
<1>2. WorkFits(w) /\ FuzzingFits(w.slice) /\ RequestsFit(w.req) /\ FilesFit(w.slice, w.req)
  BY DEF WorkOpen, WorkFits
<1>3. CASE w.slice.activeDirectory = NoDirectory
  <2> DEFINE t == GetFileDetailsSuccessReduced(s, EmptyDetails)
             q == [w.req EXCEPT !.details = {}]
  <2>1. v = [slice |-> t, req |-> q, route |-> w.route]
    BY <1>3 DEF getFileDetails, catchErrorAndRepeat, WorkFits, WorkOpen
  <2>2. q = [w.req EXCEPT !.details = {}]
    OBVIOUS
  <2> HIDE DEF s, q, v
  <2>3. /\ FuzzingSlice(s) /\ s.activeFileDetails = w.slice.activeFileDetails
        /\ s.activeDirectory = w.slice.activeDirectory
        /\ s.directories = w.slice.directories /\ s.files = w.slice.files
        /\ s.filteredFiles = w.slice.filteredFiles /\ s.filterText = w.slice.filterText /\ s.sort = w.slice.sort
    BY <1>1, <1>2 DEF FuzzingFits, FuzzingSlice
  <2>4. FuzzingFits(s)
    BY <1>2, <2>3 DEF FuzzingFits
  <2>5. FuzzingFits(t) /\ t.activeFileDetails = EmptyDetails /\ t.activeDirectory = NoDirectory
    <3>1. ColorsFit(EmptyDetails)
      BY EmptyColors
    <3>2. FuzzingFits(t) /\ t.activeFileDetails = EmptyDetails /\ t.activeDirectory = s.activeDirectory
      BY <2>4, <3>1, ReportReduced
    <3> QED
      BY <1>3, <2>3, <3>2
  <2>6. RequestsFit(q) /\ q.files = w.req.files /\ q.details = {}
    BY <1>2, <2>2 DEF RequestsFit
  <2> HIDE DEF t
  <2>7. v.slice = t /\ v.req = q /\ v.route = w.route /\ v = [slice |-> v.slice, req |-> v.req, route |-> v.route]
    BY <2>1
  <2>8. WorkFits(v)
    BY <1>2, <2>5, <2>6, <2>7 DEF WorkFits
  <2> QED
    BY <2>5, <2>6, <2>7, <2>8 DEF WorkOpen, FilesFit, ReportFits, v
<1>4. CASE w.slice.activeDirectory # NoDirectory
  <2> DEFINE r == [dir |-> w.slice.activeDirectory, path |-> file.path]
             q == [w.req EXCEPT !.details = {r}]
  <2>1. v = [slice |-> s, req |-> q, route |-> w.route]
    BY <1>4 DEF getFileDetails, switchMap, WorkFits, WorkOpen
  <2>2. q = [w.req EXCEPT !.details = {r}] /\ r = [dir |-> w.slice.activeDirectory, path |-> file.path]
    OBVIOUS
  <2> HIDE DEF s, q, v, r
  <2>3. /\ FuzzingSlice(s) /\ s.activeFileDetails = w.slice.activeFileDetails /\ s.activeFile = file
        /\ s.activeDirectory = w.slice.activeDirectory /\ s.answered = w.slice.answered
        /\ s.directories = w.slice.directories /\ s.files = w.slice.files
        /\ s.filteredFiles = w.slice.filteredFiles /\ s.filterText = w.slice.filterText /\ s.sort = w.slice.sort
    BY <1>1, <1>2 DEF FuzzingFits, FuzzingSlice
  <2>4. FuzzingFits(s)
    BY <1>2, <2>3 DEF FuzzingFits
  <2>6. RequestsFit(q) /\ q.files = w.req.files /\ q.details = {r}
    BY <1>2, <2>2 DEF RequestsFit
  <2>7. v.slice = s /\ v.req = q /\ v.route = w.route /\ v = [slice |-> v.slice, req |-> v.req, route |-> v.route]
    BY <2>1
  <2>8. WorkFits(v)
    BY <1>2, <2>4, <2>6, <2>7 DEF WorkFits
  <2>9. FilesFit(v.slice, v.req)
    BY <1>2, <2>3, <2>6, <2>7 DEF FilesFit
  <2>10. ReportFits(v.slice, v.req)
    BY <2>2, <2>3, <2>6, <2>7 DEF ReportFits
  <2> QED
    BY <2>8, <2>9, <2>10 DEF WorkOpen, v
<1> QED
  BY <1>3, <1>4

\* The two tables look for what the route names.
LEMMA RouteChanged ==
    ASSUME NEW w, NEW dir, NEW file
    PROVE  LET v == [w EXCEPT !.route = [dir |-> dir, file |-> file]]
           IN  (WorkFits(w) => WorkFits(v)) /\ (WorkOpen(w) => WorkOpen(v))
<1> DEFINE v == [w EXCEPT !.route = [dir |-> dir, file |-> file]]
<1> SUFFICES ASSUME WorkFits(w) PROVE WorkFits(v) /\ v.slice = w.slice /\ v.req = w.req
  BY DEF WorkOpen
<1>1. w = [slice |-> w.slice, req |-> w.req, route |-> w.route]
  BY DEF WorkFits
<1>2. /\ v = [slice |-> v.slice, req |-> v.req, route |-> v.route] /\ v.slice = w.slice /\ v.req = w.req
      /\ v.route = [dir |-> v.route.dir, file |-> v.route.file]
  BY <1>1
<1> HIDE DEF v
<1> QED
  BY <1>2 DEF WorkFits

LEMMA DirectoriesShown ==
    ASSUME NEW w, WorkOpen(w)
    PROVE  WorkOpen(directoriesShown(w))
<1> DEFINE dirs == w.slice.directories
           looked == [w EXCEPT !.route.dir = NoDirectory]
<1>1. /\ WorkFits(w) /\ ReportFits(w.slice, w.req) /\ dirs \in Seq(DOMAIN FilesOf)
      /\ w.route = [dir |-> w.route.dir, file |-> w.route.file]
  BY DEF WorkOpen, WorkFits, FuzzingFits
<1>2. looked = [w EXCEPT !.route = [dir |-> NoDirectory, file |-> w.route.file]]
  BY <1>1 DEF WorkFits
<1>3. WorkOpen(looked) /\ WorkFits(looked)
  BY <1>1, <1>2, RouteChanged
<1>4. ReportFits(looked.slice, looked.req)
  BY <1>3 DEF WorkOpen
<1> HIDE DEF looked
<1>5. CASE dirs = <<>>
  BY <1>5 DEF directoriesShown
<1>6. CASE dirs # <<>> /\ w.route.dir # NoDirectory /\ w.route.dir \in ToSet(dirs)
  <2>1. directoriesShown(w) = setActiveDirectory(looked, w.route.dir)
    BY <1>6 DEF directoriesShown, looked
  <2>2. w.route.dir \in DOMAIN FilesOf
    BY <1>1, <1>6 DEF ToSet
  <2> QED
    BY <1>3, <1>4, <2>1, <2>2, DirectorySet
<1>7. CASE dirs # <<>> /\ w.route.dir # NoDirectory /\ w.route.dir \notin ToSet(dirs)
  BY <1>3, <1>7 DEF directoriesShown, looked
<1>8. CASE dirs # <<>> /\ w.route.dir = NoDirectory /\ w.slice.activeDirectory = NoDirectory
  <2>1. directoriesShown(w) = setActiveDirectory(w, Head(dirs))
    BY <1>8 DEF directoriesShown
  <2>2. Head(dirs) \in DOMAIN FilesOf
    BY <1>1, <1>8
  <2> QED
    BY <1>1, <2>1, <2>2, DirectorySet
<1>9. CASE dirs # <<>> /\ w.route.dir = NoDirectory /\ w.slice.activeDirectory # NoDirectory
  BY <1>9 DEF directoriesShown
<1> QED
  BY <1>5, <1>6, <1>7, <1>8, <1>9

LEMMA FilesShown ==
    ASSUME NEW w, WorkOpen(w)
    PROVE  WorkOpen(filesShown(w))
<1> DEFINE file == find(w.slice.filteredFiles, "path", w.route.file)
           looked == [w EXCEPT !.route.file = NoPath]
<1>1. WorkFits(w) /\ w.route = [dir |-> w.route.dir, file |-> w.route.file]
  BY DEF WorkOpen, WorkFits
<1>2. looked = [w EXCEPT !.route = [dir |-> w.route.dir, file |-> NoPath]]
  BY <1>1 DEF WorkFits
<1>3. WorkOpen(looked)
  BY <1>1, <1>2, RouteChanged
<1>4. filesShown(w) = IF file = NoRow THEN w ELSE getFileDetails(looked, file)
  BY DEF filesShown
<1> HIDE DEF looked, file
<1> QED
  BY <1>3, <1>4, DetailsAsked
-----------------------------------------------------------------------------
(* The steps.                                                              *)

LEMMA FuzzingOpened == ASSUME FuzzingInv, FuzzingOpen PROVE FuzzingInv'
<1> DEFINE w == Now
<1>1. page = "none" /\ page' = "fuzzing"
  BY DEF FuzzingOpen, Enter
<1>2. PICK route : /\ \E dir, file : route = [dir |-> dir, file |-> file]
                   /\ Become(filesShown(directoriesShown([w EXCEPT !.route = route])))
  BY DEF FuzzingOpen, initialRoute
<1>3. WorkOpen(w)
  BY <1>1, ClosedOpen DEF FuzzingInv
<1> HIDE DEF w
<1> DEFINE v == [w EXCEPT !.route = route]
           u == filesShown(directoriesShown(v))
<1>4. WorkOpen(v)
  BY <1>2, <1>3, RouteChanged
<1> HIDE DEF v
<1>5. WorkOpen(u)
  BY <1>4, DirectoriesShown, FilesShown
<1>6. Become(u)
  BY <1>2 DEF v
<1> HIDE DEF u
<1> QED
  BY <1>1, <1>5, <1>6, BecomeFits DEF WorkOpen

\* Another list of directories, or another request for it.
LEMMA ListChanged ==
    ASSUME NEW w, NEW asked, NEW dirs \in Seq(DOMAIN FilesOf)
    PROVE  LET v == [w EXCEPT !.req.directories = asked, !.slice.directories = dirs]
           IN  (WorkOpen(w) => WorkOpen(v)) /\ (WorkClosed(w) => WorkClosed(v))
<1> DEFINE v == [w EXCEPT !.req.directories = asked, !.slice.directories = dirs]
           s == [w.slice EXCEPT !.directories = dirs]
           q == [w.req EXCEPT !.directories = asked]
<1> SUFFICES ASSUME WorkFits(w)
             PROVE  /\ WorkFits(v) /\ v.slice.activeDirectory = w.slice.activeDirectory
                    /\ v.slice.activeFile = w.slice.activeFile
                    /\ FilesFit(w.slice, w.req) => FilesFit(v.slice, v.req)
                    /\ ReportFits(w.slice, w.req) => ReportFits(v.slice, v.req)
  BY DEF WorkOpen, WorkClosed
<1>1. v = [slice |-> s, req |-> q, route |-> w.route]
  <2> DEFINE a == [w EXCEPT !.req.directories = asked]
  <2>1. v = [a EXCEPT !.slice.directories = dirs]
    OBVIOUS
  <2>0. a = [w EXCEPT !.req = q]
    OBVIOUS
  <2> HIDE DEF a, q
  <2>2. a = [slice |-> w.slice, req |-> q, route |-> w.route]
    BY <2>0 DEF WorkFits
  <2>3. a.slice = w.slice
    BY <2>2
  <2> QED
    BY <2>1, <2>2, <2>3
<1>2. s = [w.slice EXCEPT !.directories = dirs] /\ q = [w.req EXCEPT !.directories = asked]
  OBVIOUS
<1> HIDE DEF v, s, q
<1>3. v.slice = s /\ v.req = q /\ v.route = w.route /\ v = [slice |-> v.slice, req |-> v.req, route |-> v.route]
  BY <1>1
<1>4. /\ FuzzingSlice(s) /\ s.activeFileDetails = w.slice.activeFileDetails /\ s.activeFile = w.slice.activeFile
      /\ s.activeDirectory = w.slice.activeDirectory /\ s.answered = w.slice.answered
      /\ s.directories = dirs /\ s.files = w.slice.files
      /\ s.filteredFiles = w.slice.filteredFiles /\ s.filterText = w.slice.filterText /\ s.sort = w.slice.sort
  BY <1>2 DEF WorkFits, FuzzingFits, FuzzingSlice
<1>5. RequestsFit(q) /\ q.files = w.req.files /\ q.details = w.req.details
  BY <1>2 DEF WorkFits, RequestsFit
<1>6. FuzzingFits(s)
  BY <1>4 DEF WorkFits, FuzzingFits
<1>7. WorkFits(v)
  BY <1>3, <1>5, <1>6 DEF WorkFits
<1> QED
  BY <1>3, <1>4, <1>5, <1>7 DEF FilesFit, ReportFits

LEMMA FuzzingTicked == ASSUME FuzzingInv, FuzzingTick PROVE FuzzingInv'
<1> DEFINE w == Now
           v == [w EXCEPT !.req.directories = {"index"}]
<1>1. page = "fuzzing" /\ page' = "fuzzing" /\ WorkOpen(w)
  BY DEF FuzzingTick, On, FuzzingInv
<1>2. Become(IF w.slice.activeDirectory = NoDirectory THEN v ELSE getFiles(v))
  BY DEF FuzzingTick, switchMap, Now
<1> HIDE DEF w
<1>3. w.slice.directories \in Seq(DOMAIN FilesOf)
  BY <1>1 DEF WorkOpen, WorkFits, FuzzingFits
<1>4. v = [w EXCEPT !.req.directories = {"index"}, !.slice.directories = w.slice.directories]
  <2> DEFINE dirs == w.slice.directories
  <2>1. w.slice = [w.slice EXCEPT !.directories = dirs]
    BY <1>1 DEF WorkOpen, WorkFits, FuzzingFits, FuzzingSlice
  <2>2. v = [slice |-> w.slice, req |-> v.req, route |-> w.route]
    BY <1>1 DEF WorkOpen, WorkFits
  <2>3. [w EXCEPT !.req.directories = {"index"}, !.slice.directories = dirs] = [v EXCEPT !.slice.directories = dirs]
    OBVIOUS
  <2>4. v.slice = w.slice /\ [v EXCEPT !.slice.directories = dirs] = [v EXCEPT !.slice = [v.slice EXCEPT !.directories = dirs]]
    BY <2>2
  <2>5. [v EXCEPT !.slice = w.slice] = v
    <3> HIDE DEF v
    <3> QED
      BY <2>2
  <2> HIDE DEF v, dirs
  <2> QED
    BY <2>1, <2>3, <2>4, <2>5 DEF dirs
<1>5. WorkOpen(v)
  <2> DEFINE asked == {"index"}
             dirs == w.slice.directories
  <2>1. v = [w EXCEPT !.req.directories = asked, !.slice.directories = dirs] /\ dirs \in Seq(DOMAIN FilesOf)
    BY <1>3, <1>4
  <2> HIDE DEF v, asked, dirs
  <2> QED
    BY <1>1, <2>1, ListChanged
<1>6. v.slice = w.slice
  BY <1>1 DEF WorkOpen, WorkFits
<1> HIDE DEF v
<1>7. CASE w.slice.activeDirectory = NoDirectory
  BY <1>1, <1>2, <1>5, <1>7, BecomeFits DEF WorkOpen
<1>8. CASE w.slice.activeDirectory # NoDirectory
  <2>1. v.slice.activeDirectory \in DOMAIN FilesOf
    BY <1>1, <1>6, <1>8 DEF WorkOpen, WorkFits, FuzzingFits
  <2>2. WorkOpen(getFiles(v))
    BY <1>5, <2>1, FilesAsked DEF WorkOpen
  <2> QED
    BY <1>1, <1>2, <1>8, <2>2, BecomeFits DEF WorkOpen
<1> QED
  BY <1>7, <1>8

LEMMA FileTicked == ASSUME FuzzingInv, FileTick \/ FileRowClick PROVE FuzzingInv'
<1>1. page = "fuzzing" /\ page' = "fuzzing" /\ WorkOpen(Now)
  BY DEF FileTick, FileRowClick, On, FuzzingInv
<1>2. PICK file : Become(getFileDetails(Now, file))
  BY DEF FileTick, FileRowClick
<1>3. WorkOpen(getFileDetails(Now, file))
  BY <1>1, DetailsAsked
<1> QED
  BY <1>1, <1>2, <1>3, BecomeFits DEF WorkOpen

LEMMA FuzzingDirectoriesAnswered ==
    ASSUME FuzzingInv, NEW directories \in Seq(DOMAIN FilesOf), DirectoriesAnswered(directories), page' = page
    PROVE  FuzzingInv'
<1> DEFINE w == Now
           v == [w EXCEPT !.req.directories = {}, !.slice.directories = directories]
<1>1. Become(v) \/ (page = "fuzzing" /\ Become(directoriesShown(v)))
  <2>1. CASE page = "fuzzing" /\ directories # fuzzing.directories
    BY <2>1 DEF DirectoriesAnswered
  <2>2. CASE ~(page = "fuzzing" /\ directories # fuzzing.directories)
    BY <2>2 DEF DirectoriesAnswered
  <2> QED
    BY <2>1, <2>2
<1>2. /\ WorkFits(w) /\ (page = "fuzzing" => WorkOpen(w)) /\ (page # "fuzzing" => WorkClosed(w))
  BY DEF FuzzingInv, WorkOpen, WorkClosed
<1> HIDE DEF w
<1>3. (page = "fuzzing" => WorkOpen(v)) /\ (page # "fuzzing" => WorkClosed(v))
  BY <1>2, ListChanged
<1> HIDE DEF v
<1>4. page = "fuzzing" => WorkOpen(directoriesShown(v))
  BY <1>3, DirectoriesShown
<1>5. CASE Become(v)
  BY <1>3, <1>5, BecomeFits DEF WorkOpen, WorkClosed
<1>6. CASE page = "fuzzing" /\ Become(directoriesShown(v))
  BY <1>4, <1>6, BecomeFits DEF WorkOpen
<1> QED
  BY <1>1, <1>5, <1>6

\* FUZZING_GET_FILES_SUCCESS.
LEMMA FuzzingFilesAnswered ==
    ASSUME FuzzingInv, NEW r \in fuzzingReq.files, NEW response \in FilesOf[r.dir] \cup {<<>>},
           FileRows(response), FilesAnswered(r.dir, response), page' = page
    PROVE  FuzzingInv'
<1> DEFINE w == Now
           s == GetFilesSuccessReduced(r.dir, response)
           v == [w EXCEPT !.req.files = {}, !.slice = s]
           files == sort(response, fuzzing.sort)
           rows == filterFiles(files, fuzzing.filterText)
           last == [dir |-> r.dir, text |-> fuzzing.filterText]
<1>1. Become(v) \/ (page = "fuzzing" /\ Become(filesShown(v)))
  <2>1. CASE page = "fuzzing" /\ v.slice.filteredFiles # fuzzing.filteredFiles
    BY <2>1 DEF FilesAnswered
  <2>2. CASE ~(page = "fuzzing" /\ v.slice.filteredFiles # fuzzing.filteredFiles)
    BY <2>2 DEF FilesAnswered
  <2> QED
    BY <2>1, <2>2
<1>2. /\ WorkFits(w) /\ (page = "fuzzing" => WorkOpen(w)) /\ (page # "fuzzing" => WorkClosed(w))
      /\ w.slice = fuzzing /\ w.req = fuzzingReq
  BY DEF FuzzingInv, WorkOpen, WorkClosed, Now
<1>3. TableFits(files, rows, fuzzing.filterText, fuzzing.sort)
  BY <1>2, TableAnswered DEF WorkFits, FuzzingFits, TableFits
<1>4. \/ s = [fuzzing EXCEPT !.answered = last] /\ rows = fuzzing.filteredFiles
      \/ s = [fuzzing EXCEPT !.answered = last, !.files = files, !.filteredFiles = rows]
  <2>1. s = IF rows = fuzzing.filteredFiles THEN [fuzzing EXCEPT !.answered = last]
                  ELSE [[fuzzing EXCEPT !.answered = last] EXCEPT !.files = files, !.filteredFiles = rows]
    BY DEF GetFilesSuccessReduced
  <2> HIDE DEF s, rows, files, last
  <2>2. FuzzingSlice(fuzzing)
    BY <1>2 DEF WorkFits, FuzzingFits
  <2>3. [[fuzzing EXCEPT !.answered = last] EXCEPT !.files = files, !.filteredFiles = rows] =
        [fuzzing EXCEPT !.answered = last, !.files = files, !.filteredFiles = rows]
    BY <2>2 DEF FuzzingSlice
  <2> QED
    BY <2>1, <2>3
<1> DEFINE q == [w.req EXCEPT !.files = {}]
<1>5. v = [slice |-> s, req |-> q, route |-> w.route]
  <2> DEFINE a == [w EXCEPT !.req.files = {}]
  <2>1. v = [a EXCEPT !.slice = s]
    OBVIOUS
  <2>2. w = [slice |-> w.slice, req |-> w.req, route |-> w.route]
    BY <1>2 DEF WorkFits
  <2> HIDE DEF s, w
  <2>3. a = [w EXCEPT !.req = q]
    OBVIOUS
  <2> HIDE DEF a, q, v
  <2>4. a = [slice |-> w.slice, req |-> q, route |-> w.route]
    BY <2>2, <2>3
  <2> QED
    BY <2>1, <2>4
<1>6. q = [fuzzingReq EXCEPT !.files = {}]
  BY <1>2
<1>7. ToSet(filterFiles(response, fuzzing.filterText)) = ToSet(rows)
  <2>1. fuzzing.sort.sortBy \in {"path", "coverage"}
    BY <1>2 DEF WorkFits, FuzzingFits, TableFits
  <2>2. FileRows(files) /\ ToSet(files) = ToSet(response)
    BY <2>1, FilesSorted
  <2> HIDE DEF files
  <2>3. ToSet(rows) = {f \in ToSet(files) : fuzzing.filterText = "" \/ fuzzing.filterText \in f.words}
    BY <2>2, FilesSearched
  <2>4. ToSet(filterFiles(response, fuzzing.filterText)) =
          {f \in ToSet(response) : fuzzing.filterText = "" \/ fuzzing.filterText \in f.words}
    BY FilesSearched
  <2> QED
    BY <2>2, <2>3, <2>4
<1>8. /\ last.dir = r.dir /\ last.text = fuzzing.filterText /\ rows = filterFiles(files, fuzzing.filterText)
       /\ ToSet(fuzzing.filteredFiles) = ToSet(filterFiles(fuzzing.files, fuzzing.filterText))
  BY <1>2 DEF WorkFits, FuzzingFits, TableFits
<1> HIDE DEF files, rows, s, v, w, q, last
<1>9. /\ FuzzingSlice(s) /\ s.activeFileDetails = fuzzing.activeFileDetails /\ s.activeFile = fuzzing.activeFile
      /\ s.activeDirectory = fuzzing.activeDirectory /\ s.answered = last
      /\ s.directories = fuzzing.directories /\ s.filterText = fuzzing.filterText /\ s.sort = fuzzing.sort
      /\ \/ s.files = fuzzing.files /\ s.filteredFiles = fuzzing.filteredFiles /\ rows = fuzzing.filteredFiles
         \/ s.files = files /\ s.filteredFiles = rows
  <2>1. FuzzingSlice(fuzzing)
    BY <1>2 DEF WorkFits, FuzzingFits
  <2>2. CASE s = [fuzzing EXCEPT !.answered = last] /\ rows = fuzzing.filteredFiles
    BY <2>1, <2>2 DEF FuzzingSlice
  <2>3. CASE s = [fuzzing EXCEPT !.answered = last, !.files = files, !.filteredFiles = rows]
    BY <2>1, <2>3 DEF FuzzingSlice
  <2> QED
    BY <1>4, <2>2, <2>3
<1>10. FuzzingFits(s)
  BY <1>2, <1>3, <1>9 DEF WorkFits, FuzzingFits
<1>11. RequestsFit(q) /\ q.files = {} /\ q.details = fuzzingReq.details
  BY <1>2, <1>6 DEF WorkFits, RequestsFit
<1>12. v.slice = s /\ v.req = q /\ v.route = w.route /\ v = [slice |-> v.slice, req |-> v.req, route |-> v.route]
  BY <1>5
<1>13. WorkFits(v)
  BY <1>2, <1>10, <1>11, <1>12 DEF WorkFits
<1>14. page # "fuzzing" => WorkClosed(v)
  BY <1>2, <1>9, <1>12, <1>13 DEF WorkClosed
<1>15. page = "fuzzing" => WorkOpen(v)
  <2> SUFFICES ASSUME page = "fuzzing" PROVE FilesFit(v.slice, v.req) /\ ReportFits(v.slice, v.req)
    BY <1>13 DEF WorkOpen
  <2>1. FilesFit(fuzzing, fuzzingReq) /\ ReportFits(fuzzing, fuzzingReq)
    BY <1>2 DEF WorkOpen
  <2>2. ReportFits(v.slice, v.req)
    BY <1>9, <1>11, <1>12, <2>1 DEF ReportFits
  <2>3. fuzzing.activeDirectory # NoDirectory => r.dir = fuzzing.activeDirectory
    BY <2>1 DEF FilesFit
  <2>4. AnswerKept(s.files, s.answered)
    BY <1>9, <1>7, <1>8 DEF AnswerKept
  <2> QED
    BY <1>9, <1>11, <1>12, <1>8, <2>2, <2>3, <2>4 DEF FilesFit
<1>16. page = "fuzzing" => WorkOpen(filesShown(v))
  BY <1>15, FilesShown
<1>17. CASE Become(v)
  BY <1>13, <1>14, <1>15, <1>17, BecomeFits
<1>18. CASE page = "fuzzing" /\ Become(filesShown(v))
  BY <1>16, <1>18, BecomeFits DEF WorkOpen
<1> QED
  BY <1>1, <1>17, <1>18

\* An answer about a file, or its failure: details is what comes of it.
LEMMA FuzzingDetailsAnswered ==
    ASSUME FuzzingInv, NEW r \in fuzzingReq.details, NEW details, ColorsFit(details), NEW left,
           details = EmptyDetails \/ (details.dir = r.dir /\ details.path = r.path),
           left \subseteq fuzzingReq.details \ {r}, page' = page,
           Become([Now EXCEPT !.slice = GetFileDetailsSuccessReduced(@, details), !.req.details = left])
    PROVE  FuzzingInv'
<1> DEFINE w == Now
           s == GetFileDetailsSuccessReduced(fuzzing, details)
           q == [fuzzingReq EXCEPT !.details = left]
           v == [slice |-> s, req |-> q, route |-> w.route]
<1>1. Become(v)
  <2> DEFINE a == [Now EXCEPT !.slice = GetFileDetailsSuccessReduced(@, details)]
  <2>1. a = [slice |-> s, req |-> fuzzingReq, route |-> fuzzingRoute] /\ w.route = fuzzingRoute
    BY DEF Now
  <2> HIDE DEF s
  <2>2. [a EXCEPT !.req.details = left] = v
    <3> HIDE DEF a
    <3>1. a.req = fuzzingReq
      BY <2>1
    <3> QED
      BY <2>1, <3>1
  <2>3. [Now EXCEPT !.slice = GetFileDetailsSuccessReduced(@, details), !.req.details = left] = [a EXCEPT !.req.details = left]
    OBVIOUS
  <2> HIDE DEF a, v
  <2> QED
    BY <2>2, <2>3
<1>2. /\ WorkFits(w) /\ (page = "fuzzing" => WorkOpen(w)) /\ (page # "fuzzing" => WorkClosed(w))
      /\ w.slice = fuzzing /\ w.req = fuzzingReq
  BY DEF FuzzingInv, WorkOpen, WorkClosed, Now
<1>3. FuzzingFits(fuzzing) /\ RequestsFit(fuzzingReq)
  BY <1>2 DEF WorkFits
<1>4. /\ FuzzingFits(s) /\ s.activeFileDetails = details
      /\ s.activeDirectory = fuzzing.activeDirectory /\ s.answered = fuzzing.answered /\ s.files = fuzzing.files
      /\ s.activeFile = fuzzing.activeFile \/ (fuzzing.activeFile = NoRow /\ s.activeFile = BlankFile)
  BY <1>3, ReportReduced
<1>5. q = [fuzzingReq EXCEPT !.details = left]
  OBVIOUS
<1>6. v.slice = s /\ v.req = q /\ v.route = w.route /\ v = [slice |-> v.slice, req |-> v.req, route |-> v.route]
  OBVIOUS
<1> HIDE DEF w, s, q, v
<1>7. RequestsFit(q) /\ q.files = fuzzingReq.files /\ q.details = left
  BY <1>3, <1>5 DEF RequestsFit
<1>8. WorkFits(v)
  BY <1>2, <1>4, <1>6, <1>7 DEF WorkFits
<1>9. page # "fuzzing" => WorkClosed(v)
  BY <1>2, <1>4, <1>6, <1>8 DEF WorkClosed
<1>10. page = "fuzzing" => WorkOpen(v)
  <2> SUFFICES ASSUME page = "fuzzing" PROVE FilesFit(v.slice, v.req) /\ ReportFits(v.slice, v.req)
    BY <1>8 DEF WorkOpen
  <2>1. FilesFit(fuzzing, fuzzingReq) /\ ReportFits(fuzzing, fuzzingReq)
    BY <1>2 DEF WorkOpen
  <2>2. FilesFit(v.slice, v.req)
    BY <1>4, <1>6, <1>7, <2>1 DEF FilesFit
  <2>3. ASSUME s.activeFile \notin {NoRow, BlankFile}
        PROVE  /\ left = {} /\ s.activeFile = fuzzing.activeFile
               /\ r = [dir |-> fuzzing.activeDirectory, path |-> fuzzing.activeFile.path]
    BY <1>4, <2>1, <2>3 DEF ReportFits
  <2>4. ReportFits(v.slice, v.req)
    BY <1>4, <1>6, <1>7, <2>3 DEF ReportFits
  <2> QED
    BY <2>2, <2>4
<1> QED
  BY <1>1, <1>8, <1>9, <1>10, BecomeFits

LEMMA SliceReplaced ==
    ASSUME NEW w, WorkOpen(w), NEW s, FuzzingFits(s), s.activeDirectory = w.slice.activeDirectory,
           s.answered = w.slice.answered, s.files = w.slice.files, s.activeFileDetails = w.slice.activeFileDetails,
           s.activeFile = w.slice.activeFile
    PROVE  WorkOpen([w EXCEPT !.slice = s])
<1> DEFINE v == [w EXCEPT !.slice = s]
<1>1. w = [slice |-> w.slice, req |-> w.req, route |-> w.route]
  BY DEF WorkOpen, WorkFits
<1>2. v = [slice |-> v.slice, req |-> v.req, route |-> v.route] /\ v.slice = s /\ v.req = w.req /\ v.route = w.route
  BY <1>1
<1> HIDE DEF v
<1>3. WorkFits(v)
  BY <1>2 DEF WorkOpen, WorkFits
<1>4. FilesFit(v.slice, v.req) /\ ReportFits(v.slice, v.req)
  BY <1>2 DEF WorkOpen, FilesFit, ReportFits
<1> QED
  BY <1>3, <1>4 DEF WorkOpen, v

\* The user sorts or searches the table of the files.
LEMMA FuzzingTableChanged == ASSUME FuzzingInv, FuzzingSort \/ FuzzingFilterFiles PROVE FuzzingInv'
<1> DEFINE w == Now
<1>1. page = "fuzzing" /\ page' = "fuzzing" /\ WorkOpen(w) /\ w.slice = fuzzing
  BY DEF FuzzingSort, FuzzingFilterFiles, On, FuzzingInv, Now
<1>2. FuzzingFits(fuzzing)
  BY <1>1 DEF WorkOpen, WorkFits
<1>3. ASSUME NEW rows, NEW text, NEW order, TableFits(fuzzing.files, rows, text, order), NEW s,
             s = [fuzzing EXCEPT !.filterText = text, !.sort = order, !.filteredFiles = rows]
      PROVE  WorkOpen([w EXCEPT !.slice = s])
  <2>1. /\ FuzzingSlice(s) /\ s.activeFileDetails = fuzzing.activeFileDetails /\ s.activeFile = fuzzing.activeFile
        /\ s.activeDirectory = fuzzing.activeDirectory /\ s.answered = fuzzing.answered
        /\ s.directories = fuzzing.directories /\ s.files = fuzzing.files
        /\ s.filteredFiles = rows /\ s.filterText = text /\ s.sort = order
    BY <1>2, <1>3 DEF FuzzingFits, FuzzingSlice
  <2>2. FuzzingFits(s)
    BY <1>2, <1>3, <2>1 DEF FuzzingFits
  <2> HIDE DEF w
  <2> QED
    BY <1>1, <2>1, <2>2, SliceReplaced
<1>4. CASE FuzzingSort
  <2>1. PICK column \in {"coverage", "path"} :
          LET order == sortTable(fuzzing.sort, column)
          IN  Become(filesShown([w EXCEPT !.slice.sort = order, !.slice.filteredFiles = sort(@, order)]))
    BY <1>4 DEF FuzzingSort
  <2> DEFINE order == sortTable(fuzzing.sort, column)
             rows == sort(fuzzing.filteredFiles, order)
             s == [fuzzing EXCEPT !.filterText = fuzzing.filterText, !.sort = order, !.filteredFiles = rows]
             v == [w EXCEPT !.slice = s]
  <2>2. order.sortBy \in {"path", "coverage"}
    BY DEF sortTable
  <2>3. TableFits(fuzzing.files, rows, fuzzing.filterText, order)
    <3> HIDE DEF order
    <3> QED
      BY <1>2, <2>2, TableSorted DEF FuzzingFits
  <2>4. [w EXCEPT !.slice.sort = order, !.slice.filteredFiles = sort(@, order)] = v
    <3> HIDE DEF order
    <3> DEFINE a == [w EXCEPT !.slice.sort = order]
               t == [fuzzing EXCEPT !.sort = order]
    <3>1. a = [slice |-> t, req |-> w.req, route |-> w.route]
      BY <1>1 DEF WorkOpen, WorkFits
    <3>2. t.filteredFiles = fuzzing.filteredFiles /\ [t EXCEPT !.filteredFiles = rows] = s
      <4> HIDE DEF rows
      <4> QED
        BY <1>2 DEF FuzzingFits, FuzzingSlice
    <3>3. [w EXCEPT !.slice.sort = order, !.slice.filteredFiles = sort(@, order)] =
            [a EXCEPT !.slice.filteredFiles = sort(@, order)]
      OBVIOUS
    <3> HIDE DEF a, t
    <3>4. a.slice = t
      BY <3>1
    <3>5. [a EXCEPT !.slice.filteredFiles = sort(@, order)] = [a EXCEPT !.slice = [t EXCEPT !.filteredFiles = rows]]
      BY <3>1, <3>2, <3>4
    <3>6. [a EXCEPT !.slice = s] = [slice |-> s, req |-> w.req, route |-> w.route]
      <4> HIDE DEF s
      <4> QED
        BY <3>1
    <3>7. v = [slice |-> s, req |-> w.req, route |-> w.route]
      <4> HIDE DEF s, w
      <4> QED
        BY <1>1 DEF WorkOpen, WorkFits
    <3> HIDE DEF v, s, w
    <3> QED
      BY <3>2, <3>3, <3>5, <3>6, <3>7
  <2>5. Become(filesShown(v))
    <3> HIDE DEF v
    <3> QED
      BY <2>1, <2>4
  <2>6. WorkOpen(v)
    <3> HIDE DEF rows, order, w
    <3> QED
      BY <1>3, <2>3
  <2> HIDE DEF v
  <2> QED
    BY <1>1, <2>5, <2>6, FilesShown, BecomeFits DEF WorkOpen
<1>5. CASE FuzzingFilterFiles
  <2>1. PICK text : Become(filesShown([w EXCEPT !.slice = FilterReduced(text)]))
    BY <1>5 DEF FuzzingFilterFiles
  <2> DEFINE order == fuzzing.sort
             rows == sort(filterFiles(fuzzing.files, text), order)
             s == FilterReduced(text)
             v == [w EXCEPT !.slice = s]
  <2>2. TableFits(fuzzing.files, rows, text, order)
    BY <1>2, TableSearched DEF FuzzingFits, TableFits
  <2>3. s = [fuzzing EXCEPT !.filterText = text, !.sort = order, !.filteredFiles = rows]
    <3>1. s = [fuzzing EXCEPT !.filterText = text, !.filteredFiles = rows]
      BY DEF FilterReduced
    <3> HIDE DEF s, rows
    <3> QED
      BY <1>2, <3>1 DEF FuzzingFits, FuzzingSlice
  <2>4. WorkOpen(v)
    <3> HIDE DEF rows, order, s, w
    <3> QED
      BY <1>3, <2>2, <2>3
  <2>5. Become(filesShown(v))
    BY <2>1
  <2> HIDE DEF v
  <2> QED
    BY <1>1, <2>4, <2>5, FilesShown, BecomeFits DEF WorkOpen
<1> QED
  BY <1>4, <1>5

LEMMA FuzzingPanelClosed == ASSUME FuzzingInv, closeCodePanel PROVE FuzzingInv'
<1> DEFINE w == Now
           s == [fuzzing EXCEPT !.activeFile = NoRow]
           v == [slice |-> s, req |-> fuzzingReq, route |-> fuzzingRoute]
<1>1. page = "fuzzing" /\ page' = "fuzzing" /\ WorkOpen(w)
  BY DEF closeCodePanel, On, FuzzingInv
<1>2. Become(v)
  <2>1. [Now EXCEPT !.slice.activeFile = NoRow] = v
    BY DEF Now
  <2> QED
    BY <2>1 DEF closeCodePanel
<1>3. FuzzingFits(fuzzing) /\ RequestsFit(fuzzingReq) /\ FilesFit(fuzzing, fuzzingReq)
      /\ fuzzingRoute = [dir |-> fuzzingRoute.dir, file |-> fuzzingRoute.file]
  BY <1>1 DEF WorkOpen, WorkFits, Now
<1>4. s = [fuzzing EXCEPT !.activeFile = NoRow]
  OBVIOUS
<1> HIDE DEF s, w
<1>5. /\ FuzzingSlice(s) /\ s.activeFileDetails = fuzzing.activeFileDetails /\ s.activeFile = NoRow
      /\ s.activeDirectory = fuzzing.activeDirectory /\ s.answered = fuzzing.answered
      /\ s.directories = fuzzing.directories /\ s.files = fuzzing.files
      /\ s.filteredFiles = fuzzing.filteredFiles /\ s.filterText = fuzzing.filterText /\ s.sort = fuzzing.sort
  BY <1>3, <1>4 DEF FuzzingFits, FuzzingSlice
<1>6. FuzzingFits(s)
  BY <1>3, <1>5 DEF FuzzingFits
<1>7. v.slice = s /\ v.req = fuzzingReq /\ v.route = fuzzingRoute
      /\ v = [slice |-> v.slice, req |-> v.req, route |-> v.route]
  OBVIOUS
<1> HIDE DEF v
<1>8. WorkOpen(v)
  BY <1>3, <1>5, <1>6, <1>7 DEF WorkOpen, WorkFits, FilesFit, ReportFits
<1> QED
  BY <1>1, <1>2, <1>8, BecomeFits DEF WorkOpen

LEMMA FuzzingInitial == FuzzingFits(initialFuzzing) /\ initialFuzzing.activeFile = NoRow
                        /\ initialFuzzing.activeDirectory = NoDirectory
<1> DEFINE none == <<>>
           order == [sortBy |-> "path", sortDirection |-> "ascending"]
           s == initialFuzzing
<1>1. s = [directories |-> none, activeDirectory |-> NoDirectory, files |-> none, filteredFiles |-> none,
           activeFile |-> NoRow, activeFileDetails |-> NoDetails, filterText |-> "", answered |-> [dir |-> NoDirectory, text |-> ""],
           sort |-> order]
  BY DEF initialFuzzing
<1>2. /\ FileRows(none) /\ order.sortBy \in {"path", "coverage"} /\ none = <<>> /\ none \in Seq(DOMAIN FilesOf)
      /\ SortedBy(none, order) /\ ToSet(none) = {}
  BY NoFiles DEF SortedBy, ToSet
<1> HIDE DEF none, order, s
<1>3. ToSet(filterFiles(none, "")) = {}
  BY <1>2, FilesSearched
<1>4. TableFits(none, none, "", order)
  BY <1>2, <1>3 DEF TableFits
<1>5. FuzzingSlice(s)
  BY <1>1 DEF FuzzingSlice
<1>6. FuzzingFits(s) /\ s.activeFile = NoRow /\ s.activeDirectory = NoDirectory
  BY <1>1, <1>2, <1>4, <1>5, EmptyColors DEF FuzzingFits
<1> QED
  BY <1>6 DEF s

LEMMA FuzzingKept == FuzzingInv /\ FuzzingNext => FuzzingInv'
<1> SUFFICES ASSUME FuzzingInv PROVE FuzzingNext => FuzzingInv'
  OBVIOUS
<1>0. FuzzingFits(fuzzing) /\ RequestsFit(fuzzingReq) /\ WorkFits(Now)
  BY DEF FuzzingInv, WorkOpen, WorkClosed, WorkFits, Now
<1>1. ASSUME GetDirectoriesSuccess PROVE FuzzingInv'
  BY <1>1, DirectoriesMapped, FuzzingDirectoriesAnswered DEF GetDirectoriesSuccess
<1>2. ASSUME GetDirectoriesError PROVE FuzzingInv'
  <2> DEFINE none == <<>>
  <2>1. none \in Seq(DOMAIN FilesOf) /\ DirectoriesAnswered(none) /\ page' = page
    BY <1>2 DEF GetDirectoriesError
  <2> HIDE DEF none
  <2> QED
    BY <2>1, FuzzingDirectoriesAnswered
<1>3. ASSUME GetFilesSuccess PROVE FuzzingInv'
  <2>1. PICK r \in fuzzingReq.files : \E response \in FilesOf[r.dir] : FilesAnswered(r.dir, response)
    BY <1>3 DEF GetFilesSuccess
  <2>2. PICK response \in FilesOf[r.dir] : FilesAnswered(r.dir, response)
    BY <2>1
  <2>3. page' = page /\ FileRows(response)
    BY <1>0, <1>3, ResponseRows DEF GetFilesSuccess, RequestsFit
  <2> QED
    BY <2>2, <2>3, FuzzingFilesAnswered
<1>4. ASSUME GetFilesError PROVE FuzzingInv'
  <2> DEFINE none == <<>>
  <2>1. PICK r \in fuzzingReq.files : FilesAnswered(r.dir, none)
    BY <1>4 DEF GetFilesError
  <2>2. page' = page /\ FileRows(none) /\ none \in FilesOf[r.dir] \cup {<<>>}
    BY <1>4, NoFiles DEF GetFilesError
  <2> HIDE DEF none
  <2> QED
    BY <2>1, <2>2, FuzzingFilesAnswered
<1>5. ASSUME GetFileDetailsSuccess PROVE FuzzingInv'
  <2>1. PICK r \in fuzzingReq.details, counters \in LineCounters :
          Become([Now EXCEPT !.slice = GetFileDetailsSuccessReduced(@, mapFileDetails(r, counters)),
                             !.req.details = Completed(@, r)])
    BY <1>5 DEF GetFileDetailsSuccess
  <2> DEFINE details == mapFileDetails(r, counters)
             left == fuzzingReq.details \ {r}
  <2>2. ColorsFit(details) /\ details.dir = r.dir /\ details.path = r.path
    BY MappedColors
  <2>3. Become([Now EXCEPT !.slice = GetFileDetailsSuccessReduced(@, details), !.req.details = left])
    <3> HIDE DEF details
    <3>1. [Now EXCEPT !.slice = GetFileDetailsSuccessReduced(@, details), !.req.details = Completed(@, r)] =
          [Now EXCEPT !.slice = GetFileDetailsSuccessReduced(@, details), !.req.details = left]
      BY DEF Completed, Now
    <3> QED
      BY <2>1, <3>1 DEF details
  <2>4. page' = page /\ left \subseteq fuzzingReq.details \ {r}
    BY <1>5 DEF GetFileDetailsSuccess
  <2> HIDE DEF details, left
  <2> QED
    BY <2>2, <2>3, <2>4, FuzzingDetailsAnswered
<1>6. ASSUME GetFileDetailsError PROVE FuzzingInv'
  <2> DEFINE left == {}
             details == EmptyDetails
  <2>1. PICK r : r \in fuzzingReq.details
    BY <1>6 DEF GetFileDetailsError
  <2>2. Become([Now EXCEPT !.slice = GetFileDetailsSuccessReduced(@, details), !.req.details = left])
    BY <1>6 DEF GetFileDetailsError, catchErrorAndRepeat
  <2>3. page' = page /\ left \subseteq fuzzingReq.details \ {r} /\ ColorsFit(details) /\ details = EmptyDetails
    BY <1>6, EmptyColors DEF GetFileDetailsError
  <2> HIDE DEF details, left
  <2> QED
    BY <2>1, <2>2, <2>3, FuzzingDetailsAnswered
<1>7. ASSUME DirectoryRowClick PROVE FuzzingInv'
  <2>1. PICK dir \in ToSet(fuzzing.directories) : Become(setActiveDirectory(Now, dir))
    BY <1>7 DEF DirectoryRowClick
  <2>2. page = "fuzzing" /\ page' = "fuzzing" /\ WorkOpen(Now)
    BY <1>7 DEF DirectoryRowClick, On, FuzzingInv
  <2>3. dir \in DOMAIN FilesOf
    BY <1>0 DEF FuzzingFits, ToSet
  <2>4. WorkOpen(setActiveDirectory(Now, dir))
    BY <2>2, <2>3, DirectorySet DEF WorkOpen
  <2> QED
    BY <2>1, <2>2, <2>4, BecomeFits DEF WorkOpen
<1>8. ASSUME FuzzingClose PROVE FuzzingInv'
  <2> DEFINE v == [slice |-> initialFuzzing, req |-> fuzzingReq, route |-> initialRoute]
  <2>1. [Now EXCEPT !.slice = initialFuzzing, !.route = initialRoute] = v
    <3> DEFINE a == [Now EXCEPT !.slice = initialFuzzing]
    <3>1. a = [slice |-> initialFuzzing, req |-> fuzzingReq, route |-> fuzzingRoute]
      BY DEF Now
    <3>2. [Now EXCEPT !.slice = initialFuzzing, !.route = initialRoute] = [a EXCEPT !.route = initialRoute]
      OBVIOUS
    <3> HIDE DEF a
    <3> QED
      BY <3>1, <3>2
  <2>2. Become(v) /\ page' = "none"
    BY <1>8, <2>1 DEF FuzzingClose, Leave
  <2>3. v.slice = initialFuzzing /\ v.req = fuzzingReq /\ v.route = initialRoute
        /\ v = [slice |-> v.slice, req |-> v.req, route |-> v.route]
        /\ initialRoute = [dir |-> initialRoute.dir, file |-> initialRoute.file]
    BY DEF initialRoute
  <2> HIDE DEF v
  <2>4. WorkClosed(v)
    BY <1>0, <2>3, FuzzingInitial DEF WorkClosed, WorkFits
  <2> QED
    BY <2>2, <2>4, BecomeFits DEF WorkClosed
<1> QED
  BY <1>1, <1>2, <1>3, <1>4, <1>5, <1>6, <1>7, <1>8, FuzzingOpened, FuzzingTicked, FileTicked,
     FuzzingTableChanged, FuzzingPanelClosed DEF FuzzingNext

(***************************************************************************)
(* Memory: the ids of the frames.                                          *)
(***************************************************************************)

\* The order in which build gives frames their ids: below a frame before it, and
\* from the left to the right.
IsLeft(p, q) == \E i \in DOMAIN p \cap DOMAIN q : p[i] < q[i] /\ \A j \in 1..(i - 1) : p[j] = q[j]
Earlier(p, q) == p # q /\ (IsPrefix(q, p) \/ IsLeft(p, q))

LEMMA PrefixElements ==
    ASSUME NEW p \in Seq(Nat), NEW q \in Seq(Nat)
    PROVE  IsPrefix(q, p) <=> Len(q) <= Len(p) /\ \A j \in 1..Len(q) : q[j] = p[j]
<1>1. CASE Len(q) <= Len(p)
  <2>1. /\ SubSeq(q, 1, Len(q)) \in Seq(Nat) /\ Len(SubSeq(q, 1, Len(q))) = Len(q)
        /\ \A j \in 1..Len(q) : SubSeq(q, 1, Len(q))[j] = q[j]
    OBVIOUS
  <2>2. /\ SubSeq(p, 1, Len(q)) \in Seq(Nat) /\ Len(SubSeq(p, 1, Len(q))) = Len(q)
        /\ \A j \in 1..Len(q) : SubSeq(p, 1, Len(q))[j] = p[j]
    BY <1>1
  <2> DEFINE a == SubSeq(q, 1, Len(q))
             b == SubSeq(p, 1, Len(q))
  <2> HIDE DEF a, b
  <2>3. (\A j \in 1..Len(q) : q[j] = p[j]) => a = b
    BY <2>1, <2>2, SeqEqual DEF a, b
  <2>4. a = b => \A j \in 1..Len(q) : q[j] = p[j]
    BY <2>1, <2>2 DEF a, b
  <2> QED
    BY <1>1, <2>3, <2>4 DEF IsPrefix, a, b
<1>2. CASE ~(Len(q) <= Len(p))
  BY <1>2 DEF IsPrefix
<1> QED
  BY <1>1, <1>2

LEMMA EarlierTotal ==
    ASSUME NEW p \in Seq(Nat), NEW q \in Seq(Nat), p # q
    PROVE  Earlier(p, q) \/ Earlier(q, p)
<1> DEFINE Differ == {i \in Nat : i \in DOMAIN p /\ i \in DOMAIN q /\ p[i] # q[i]}
<1>1. CASE Differ = {}
  <2>0. Len(p) \in Nat /\ Len(q) \in Nat /\ DOMAIN p = 1..Len(p) /\ DOMAIN q = 1..Len(q)
    OBVIOUS
  <2>1. ASSUME NEW i \in 1..Len(p), i \in 1..Len(q) PROVE p[i] = q[i]
    <3>1. i \in Nat /\ i \in DOMAIN p /\ i \in DOMAIN q
      BY <2>0, <2>1
    <3> QED
      BY <1>1, <3>1
  <2>2. CASE Len(p) <= Len(q)
    <3>1. IsPrefix(p, q)
      BY <2>1, <2>2, PrefixElements
    <3> QED
      BY <3>1 DEF Earlier
  <2>3. CASE Len(q) <= Len(p)
    <3>1. IsPrefix(q, p)
      BY <2>1, <2>3, PrefixElements
    <3> QED
      BY <3>1 DEF Earlier
  <2> QED
    BY <2>2, <2>3
<1>2. CASE Differ # {}
  <2>1. PICK i \in Differ : \A j \in Differ : i =< j
    <3>1. Differ \in SUBSET Nat
      OBVIOUS
    <3> QED
      BY <1>2, <3>1, LeastNatural
  <2>2. i \in DOMAIN p \cap DOMAIN q /\ p[i] # q[i] /\ p[i] \in Nat /\ q[i] \in Nat
    BY <2>1
  <2>3. \A j \in 1..(i - 1) : p[j] = q[j]
    <3> SUFFICES ASSUME NEW j \in 1..(i - 1), p[j] # q[j] PROVE FALSE
      OBVIOUS
    <3>1. j \in Nat /\ j \in DOMAIN p /\ j \in DOMAIN q /\ ~(i =< j)
      BY <2>2
    <3> QED
      BY <2>1, <3>1
  <2>4. p[i] < q[i] => IsLeft(p, q)
    BY <2>2, <2>3 DEF IsLeft
  <2>5. q[i] < p[i] => IsLeft(q, p)
    BY <2>2, <2>3 DEF IsLeft
  <2> QED
    BY <2>2, <2>4, <2>5 DEF Earlier
<1> QED
  BY <1>1, <1>2

Below(p, q, i) ==
    /\ i \in Nat /\ 1 <= i /\ i <= Len(p) /\ i <= Len(q)
    /\ p[i] \in Nat /\ q[i] \in Nat /\ p[i] < q[i]
    /\ \A j \in Nat : 1 <= j /\ j < i => p[j] = q[j]

Begins(q, p) == Len(q) <= Len(p) /\ \A j \in Nat : 1 <= j /\ j <= Len(q) => q[j] = p[j]

LEMMA LeftBelow ==
    ASSUME NEW p \in Seq(Nat), NEW q \in Seq(Nat)
    PROVE  /\ IsLeft(p, q) <=> \E i \in Nat : Below(p, q, i)
           /\ IsPrefix(q, p) <=> Begins(q, p)
           /\ \A i \in Nat : Below(p, q, i) => p # q
<1>1. ASSUME NEW i \in DOMAIN p \cap DOMAIN q, p[i] < q[i], \A j \in 1..(i - 1) : p[j] = q[j]
      PROVE  i \in Nat /\ Below(p, q, i)
  <2>1. i \in Nat /\ 1 <= i /\ i <= Len(p) /\ i <= Len(q) /\ p[i] \in Nat /\ q[i] \in Nat
    OBVIOUS
  <2>2. \A j \in Nat : 1 <= j /\ j < i => p[j] = q[j]
    BY <1>1, <2>1
  <2> QED
    BY <1>1, <2>1, <2>2 DEF Below
<1>2. ASSUME NEW i \in Nat, Below(p, q, i) PROVE IsLeft(p, q) /\ p # q
  <2>1. i \in DOMAIN p \cap DOMAIN q
    BY <1>2 DEF Below
  <2>2. \A j \in 1..(i - 1) : p[j] = q[j]
    BY <1>2 DEF Below
  <2> QED
    BY <1>2, <2>1, <2>2 DEF Below, IsLeft
<1>3. IsPrefix(q, p) <=> Begins(q, p)
  BY PrefixElements DEF Begins
<1> QED
  BY <1>1, <1>2, <1>3 DEF IsLeft

LEMMA EarlierTransitive ==
    ASSUME NEW p \in Seq(Nat), NEW q \in Seq(Nat), NEW r \in Seq(Nat), Earlier(p, q), Earlier(q, r)
    PROVE  Earlier(p, r)
<1>0. Len(p) \in Nat /\ Len(q) \in Nat /\ Len(r) \in Nat
  OBVIOUS
<1>1. CASE IsPrefix(q, p) /\ IsPrefix(r, q)
  <2>1. Begins(q, p) /\ Begins(r, q)
    BY <1>1, LeftBelow
  <2>2. Begins(r, p)
    BY <1>0, <2>1 DEF Begins
  <2>3. IsPrefix(r, p)
    BY <2>2, LeftBelow
  <2>4. p # r
    <3> SUFFICES ASSUME p = r PROVE FALSE
      OBVIOUS
    <3>1. Len(p) = Len(q)
      BY <1>0, <2>1 DEF Begins
    <3>2. \A j \in 1..Len(p) : p[j] = q[j]
      BY <1>0, <2>1, <3>1 DEF Begins
    <3>3. p = q
      BY <3>1, <3>2, SeqEqual
    <3> QED
      BY <3>3 DEF Earlier
  <2> QED
    BY <2>3, <2>4 DEF Earlier
<1>2. CASE IsPrefix(q, p) /\ IsLeft(q, r)
  <2>1. Begins(q, p)
    BY <1>2, LeftBelow
  <2>2. PICK i \in Nat : Below(q, r, i)
    BY <1>2, LeftBelow
  <2>3. q[i] = p[i]
    BY <2>1, <2>2 DEF Begins, Below
  <2>4. Below(p, r, i)
    <3>1. 1 <= i /\ i <= Len(p) /\ i <= Len(r)
      BY <1>0, <2>1, <2>2 DEF Begins, Below
    <3>2. p[i] \in Nat /\ r[i] \in Nat /\ p[i] < r[i]
      BY <2>2, <2>3 DEF Below
    <3>3. \A j \in Nat : 1 <= j /\ j < i => p[j] = r[j]
      <4> TAKE j \in Nat
      <4> HAVE 1 <= j /\ j < i
      <4>1. j <= Len(q)
        BY <1>0, <2>2 DEF Below
      <4>2. q[j] = p[j]
        BY <2>1, <4>1 DEF Begins
      <4>3. q[j] = r[j]
        BY <2>2 DEF Below
      <4> QED
        BY <4>2, <4>3
    <3> QED
      BY <3>1, <3>2, <3>3 DEF Below
  <2> QED
    BY <2>4, LeftBelow DEF Earlier
<1>3. CASE IsLeft(p, q) /\ IsPrefix(r, q)
  <2>1. Begins(r, q)
    BY <1>3, LeftBelow
  <2>2. PICK i \in Nat : Below(p, q, i)
    BY <1>3, LeftBelow
  <2>3. CASE i <= Len(r)
    <3>1. r[i] = q[i]
      BY <2>1, <2>2, <2>3 DEF Begins, Below
    <3>2. Below(p, r, i)
      <4>1. 1 <= i /\ i <= Len(p) /\ i <= Len(r)
        BY <2>2, <2>3 DEF Below
      <4>2. p[i] \in Nat /\ r[i] \in Nat /\ p[i] < r[i]
        BY <2>2, <3>1 DEF Below
      <4>3. \A j \in Nat : 1 <= j /\ j < i => p[j] = r[j]
        <5> TAKE j \in Nat
        <5> HAVE 1 <= j /\ j < i
        <5>1. j <= Len(r)
          BY <1>0, <2>3
        <5>2. r[j] = q[j]
          BY <2>1, <5>1 DEF Begins
        <5>3. p[j] = q[j]
          BY <2>2 DEF Below
        <5> QED
          BY <5>2, <5>3
      <4> QED
        BY <4>1, <4>2, <4>3 DEF Below
    <3> QED
      BY <3>2, LeftBelow DEF Earlier
  <2>4. CASE Len(r) < i
    <3>1. Begins(r, p) /\ Len(r) < Len(p)
      <4>1. Len(r) < Len(p)
        BY <1>0, <2>2, <2>4 DEF Below
      <4>2. ASSUME NEW j \in Nat, 1 <= j, j <= Len(r) PROVE r[j] = p[j]
        <5>1. j < i
          BY <1>0, <2>4, <4>2
        <5>2. r[j] = q[j]
          BY <2>1, <4>2 DEF Begins
        <5>3. p[j] = q[j]
          BY <2>2, <4>2, <5>1 DEF Below
        <5> QED
          BY <5>2, <5>3
      <4> QED
        BY <1>0, <4>1, <4>2 DEF Begins
    <3>2. IsPrefix(r, p) /\ p # r
      BY <1>0, <3>1, LeftBelow
    <3> QED
      BY <3>2 DEF Earlier
  <2> QED
    BY <1>0, <2>3, <2>4
<1>4. CASE IsLeft(p, q) /\ IsLeft(q, r)
  <2>1. PICK i \in Nat : Below(p, q, i)
    BY <1>4, LeftBelow
  <2>2. PICK k \in Nat : Below(q, r, k)
    BY <1>4, LeftBelow
  <2>3. CASE i < k
    <3>1. q[i] = r[i]
      BY <2>1, <2>2, <2>3 DEF Below
    <3>2. Below(p, r, i)
      <4>1. 1 <= i /\ i <= Len(p) /\ i <= Len(r)
        BY <1>0, <2>1, <2>2, <2>3 DEF Below
      <4>2. p[i] \in Nat /\ r[i] \in Nat /\ p[i] < r[i]
        BY <2>1, <2>2, <2>3, <3>1 DEF Below
      <4>3. \A j \in Nat : 1 <= j /\ j < i => p[j] = r[j]
        <5> TAKE j \in Nat
        <5> HAVE 1 <= j /\ j < i
        <5>1. p[j] = q[j]
          BY <2>1, <2>2, <2>3 DEF Below
        <5>2. q[j] = r[j]
          BY <2>1, <2>2, <2>3 DEF Below
        <5> QED
          BY <5>1, <5>2
      <4> QED
        BY <4>1, <4>2, <4>3 DEF Below
    <3> QED
      BY <3>2, LeftBelow DEF Earlier
  <2>4. CASE i = k
    <3>2. Below(p, r, i)
      <4>1. 1 <= i /\ i <= Len(p) /\ i <= Len(r)
        BY <1>0, <2>1, <2>2, <2>4 DEF Below
      <4>2. p[i] \in Nat /\ r[i] \in Nat /\ p[i] < r[i]
        <5>1. p[i] \in Nat /\ q[i] \in Nat /\ p[i] < q[i]
          BY <2>1 DEF Below
        <5>2. r[i] \in Nat /\ q[i] < r[i]
          BY <2>2, <2>4 DEF Below
        <5> QED
          BY <5>1, <5>2
      <4>3. \A j \in Nat : 1 <= j /\ j < i => p[j] = r[j]
        <5> TAKE j \in Nat
        <5> HAVE 1 <= j /\ j < i
        <5>1. p[j] = q[j]
          BY <2>1, <2>2, <2>4 DEF Below
        <5>2. q[j] = r[j]
          BY <2>1, <2>2, <2>4 DEF Below
        <5> QED
          BY <5>1, <5>2
      <4> QED
        BY <4>1, <4>2, <4>3 DEF Below
    <3> QED
      BY <3>2, LeftBelow DEF Earlier
  <2>5. CASE k < i
    <3>1. p[k] = q[k]
      BY <2>1, <2>2, <2>5 DEF Below
    <3>2. Below(p, r, k)
      <4>1. 1 <= k /\ k <= Len(p) /\ k <= Len(r)
        BY <1>0, <2>1, <2>2, <2>5 DEF Below
      <4>2. p[k] \in Nat /\ r[k] \in Nat /\ p[k] < r[k]
        BY <2>1, <2>2, <2>5, <3>1 DEF Below
      <4>3. \A j \in Nat : 1 <= j /\ j < k => p[j] = r[j]
        <5> TAKE j \in Nat
        <5> HAVE 1 <= j /\ j < k
        <5>1. p[j] = q[j]
          BY <2>1, <2>2, <2>5 DEF Below
        <5>2. q[j] = r[j]
          BY <2>1, <2>2, <2>5 DEF Below
        <5> QED
          BY <5>1, <5>2
      <4> QED
        BY <4>1, <4>2, <4>3 DEF Below
    <3> QED
      BY <3>2, LeftBelow DEF Earlier
  <2> QED
    BY <2>3, <2>4, <2>5
<1> QED
  BY <1>1, <1>2, <1>3, <1>4 DEF Earlier

\* Frames of one tree with the same id are the same frame.
LEMMA IdsDiffer ==
    ASSUME NEW t, IsFiniteSet(t), t \subseteq Seq(Nat), NEW r, NEW s, r.tree = t, s.tree = t,
           r.path \in t, s.path \in t, nextId(r) = nextId(s)
    PROVE  r.path = s.path
<1> DEFINE B(p) == {x \in t : Earlier(x, p)}
<1>1. nextId(r) = Cardinality(B(r.path)) /\ nextId(s) = Cardinality(B(s.path))
  <2>1. ASSUME NEW v, v.tree = t PROVE nextId(v) = Cardinality(B(v.path))
    <3>1. {p \in v.tree \ {v.path} : IsPrefix(v.path, p) \/ IsLeft(p, v.path)} = B(v.path)
      BY <2>1 DEF Earlier
    <3>2. nextId(v) = Cardinality({p \in v.tree \ {v.path} : IsPrefix(v.path, p) \/ IsLeft(p, v.path)})
      BY DEF nextId, IsLeft
    <3> QED
      BY <3>1, <3>2
  <2> QED
    BY <2>1
<1>2. ASSUME NEW p \in t, NEW q \in t, Earlier(p, q) PROVE Cardinality(B(p)) # Cardinality(B(q))
  <2>1. B(p) \subseteq B(q)
    BY <1>2, EarlierTransitive
  <2>2. p \in B(q) /\ p \notin B(p)
    BY <1>2 DEF Earlier
  <2>3. B(q) \subseteq t
    OBVIOUS
  <2> HIDE DEF B
  <2>4. IsFiniteSet(B(q)) /\ IsFiniteSet(B(p))
    BY <2>1, <2>3, FS_Subset
  <2>5. Cardinality(B(q)) = Cardinality(B(p)) => B(p) = B(q)
    BY <2>1, <2>4, FS_Subset
  <2> QED
    BY <2>2, <2>5
<1> HIDE DEF B
<1>3. r.path # s.path => Earlier(r.path, s.path) \/ Earlier(s.path, r.path)
  BY EarlierTotal
<1> QED
  BY <1>1, <1>2, <1>3

(***************************************************************************)
(* Memory: the walk through one tree.                                      *)
(***************************************************************************)

\* A frame of an answer, and a frame of the same answer as root.
Resource(r) ==
    /\ r = [tree |-> r.tree, path |-> r.path, node |-> r.node, threshold |-> r.threshold]
    /\ r.tree \in ProfilerTrees /\ r.path \in r.tree

Of(r, root) == Resource(r) /\ r.tree = root.tree /\ r.node = root.node /\ r.threshold = root.threshold

LEMMA ResourcePath ==
    ASSUME NEW r, Resource(r)
    PROVE  /\ r # NoResource /\ Of(r, r)
           /\ IsFiniteSet(r.tree) /\ r.tree \subseteq Seq(Nat) /\ r.path \in Seq(Nat) /\ Len(r.path) \in Nat
<1>1. r # NoResource
  <2>1. "tree" \in DOMAIN r
    BY DEF Resource
  <2>2. "tree" \notin DOMAIN NoResource
    BY DEF NoResource
  <2> QED
    BY <2>1, <2>2
<1>2. IsFiniteSet(r.tree) /\ r.tree \subseteq Seq(Nat)
  BY MemoryAssumption DEF Resource
<1>3. r.path \in Seq(Nat)
  BY <1>2 DEF Resource
<1> QED
  BY <1>1, <1>2, <1>3 DEF Of

LEMMA SameFrame ==
    ASSUME NEW root, NEW r, Of(r, root), NEW s, Of(s, root)
    PROVE  /\ r.path = s.path => r = s
           /\ nextId(r) = nextId(s) => r = s
<1>1. r.path = s.path => r = s
  BY DEF Of, Resource
<1>2. nextId(r) = nextId(s) => r.path = s.path
  <2> DEFINE t == root.tree
  <2>1. IsFiniteSet(t) /\ t \subseteq Seq(Nat) /\ r.tree = t /\ s.tree = t /\ r.path \in t /\ s.path \in t
    BY ResourcePath DEF Of, Resource
  <2> HIDE DEF t
  <2> QED
    BY <2>1, IdsDiffer
<1> QED
  BY <1>1, <1>2

LEMMA ChildFrame ==
    ASSUME NEW r, Resource(r), NEW c \in children(r)
    PROVE  /\ Of(c, r) /\ ~IsRoot(c) /\ parent(c) = r
           /\ Len(c.path) = Len(r.path) + 1
<1>1. PICK p \in {q \in r.tree : q # <<>> /\ SubSeq(q, 1, Len(q) - 1) = r.path} : c = [r EXCEPT !.path = p]
  BY DEF children
<1>2. p \in r.tree /\ p # <<>> /\ SubSeq(p, 1, Len(p) - 1) = r.path /\ p \in Seq(Nat)
  BY <1>1, ResourcePath
<1>3. c = [tree |-> r.tree, path |-> p, node |-> r.node, threshold |-> r.threshold]
  BY <1>1 DEF Resource
<1>4. Of(c, r) /\ ~IsRoot(c)
  BY <1>2, <1>3 DEF Of, Resource, IsRoot
<1>5. parent(c) = [tree |-> r.tree, path |-> SubSeq(p, 1, Len(p) - 1), node |-> r.node, threshold |-> r.threshold]
  <2> DEFINE above == SubSeq(p, 1, Len(p) - 1)
             q == parent(c)
  <2>1. q = [c EXCEPT !.path = above]
    BY <1>3 DEF parent
  <2> HIDE DEF above, q
  <2>2. q = [tree |-> r.tree, path |-> above, node |-> r.node, threshold |-> r.threshold]
    BY <1>3, <2>1
  <2> QED
    BY <2>2 DEF above, q
<1>6. parent(c) = r
  BY <1>2, <1>5 DEF Resource
<1>7. Len(SubSeq(p, 1, Len(p) - 1)) = Len(p) - 1 /\ Len(p) \in Nat
  <2>1. Len(p) \in Nat /\ Len(p) # 0
    BY <1>2
  <2> DEFINE k == Len(p) - 1
  <2>2. k \in Int /\ 0 <= k /\ \A i \in 1..k : p[i] \in Nat
    BY <1>2, <2>1
  <2> HIDE DEF k
  <2>3. Len(SubSeq(p, 1, k)) = IF 1 <= k THEN k - 1 + 1 ELSE 0
    BY <2>2, SubSeqProperties
  <2>4. Len(SubSeq(p, 1, k)) = k
    BY <2>2, <2>3
  <2> QED
    BY <2>1, <2>4 DEF k
<1> QED
  BY <1>2, <1>3, <1>4, <1>6, <1>7

LEMMA FindNode ==
    ASSUME NEW root, Resource(root), NEW r, Of(r, root)
    PROVE  findNodeByName(r, root) = r
<1> DEFINE found == {x \in {[root EXCEPT !.path = p] : p \in root.tree} : nextId(x) = nextId(r)}
<1>1. \A p \in root.tree : [root EXCEPT !.path = p] =
          [tree |-> root.tree, path |-> p, node |-> root.node, threshold |-> root.threshold]
  BY DEF Resource
<1>2. r \in found
  <2>1. r.path \in root.tree /\ [root EXCEPT !.path = r.path] = r
    BY <1>1 DEF Of, Resource
  <2> QED
    BY <2>1
<1>3. ASSUME NEW x \in found PROVE x = r
  <2>1. PICK p \in root.tree : x = [root EXCEPT !.path = p]
    OBVIOUS
  <2>2. x = [tree |-> root.tree, path |-> p, node |-> root.node, threshold |-> root.threshold]
    BY <1>1, <2>1
  <2>3. Of(x, root)
    BY <2>1, <2>2 DEF Of, Resource
  <2> QED
    BY <2>3, SameFrame
<1>4. root # NoResource
  BY ResourcePath
<1>5. findNodeByName(r, root) = IF found = {} THEN NoResource ELSE CHOOSE x \in found : TRUE
  BY <1>4 DEF findNodeByName
<1> HIDE DEF found
<1> QED
  BY <1>2, <1>3, <1>5

\* The breadcrumbs b lead from root to active.
Lead(b, root, active) ==
    /\ b \in Seq(ToSet(b)) /\ b # <<>> /\ Resource(root) /\ IsRoot(root)
    /\ b[1] = root /\ b[Len(b)] = active
    /\ \A i \in 1..Len(b) : Of(b[i], root) /\ Len(b[i].path) = i - 1
    /\ \A i \in 1..(Len(b) - 1) : b[i + 1] \in children(b[i])

LEMMA LeadRoot == ASSUME NEW root, Resource(root), IsRoot(root) PROVE Lead(<<root>>, root, root)
<1> DEFINE b == <<root>>
<1>1. b \in Seq(ToSet(b)) /\ b # <<>> /\ b[1] = root /\ Len(b) = 1
  BY DEF ToSet
<1>2. Of(root, root) /\ Len(root.path) = 0
  BY ResourcePath DEF IsRoot
<1> HIDE DEF b
<1>3. Lead(b, root, root)
  <2>1. \A i \in 1..Len(b) : i = 1
    BY <1>1
  <2>2. \A i \in 1..Len(b) : Of(b[i], root) /\ Len(b[i].path) = i - 1
    BY <1>1, <1>2, <2>1
  <2>3. 1..(Len(b) - 1) = {}
    BY <1>1
  <2> QED
    BY <1>1, <2>2, <2>3 DEF Lead
<1> QED
  BY <1>3 DEF b

\* A frame below the active one is new among the breadcrumbs.
LEMMA LeadAppend ==
    ASSUME NEW b, NEW root, NEW active, Lead(b, root, active), NEW c \in children(active)
    PROVE  findIndex(b, c) = {} /\ ~IsRoot(c) /\ Of(c, root) /\ Lead(Append(b, c), root, c)
<1> DEFINE a == Append(b, c)
           n == Len(b)
<1>1. b \in Seq(ToSet(b)) /\ n \in Nat /\ n # 0 /\ DOMAIN b = 1..n
  BY DEF Lead
<1>2. /\ Resource(root) /\ IsRoot(root) /\ b[1] = root /\ b[n] = active
      /\ \A i \in 1..n : Of(b[i], root) /\ Len(b[i].path) = i - 1
      /\ \A i \in 1..(n - 1) : b[i + 1] \in children(b[i])
  BY DEF Lead
<1>3. a \in Seq(ToSet(a)) /\ Len(a) = n + 1 /\ a # <<>> /\ a[n + 1] = c /\ \A i \in 1..n : a[i] = b[i]
  BY <1>1, AppendSet
<1> HIDE DEF a, n
<1>4. Of(active, root) /\ Resource(active) /\ Len(active.path) = n - 1
  BY <1>1, <1>2 DEF Of
<1>5. Of(c, root) /\ ~IsRoot(c) /\ Len(c.path) = n
  <2>1. Of(c, active) /\ ~IsRoot(c) /\ Len(c.path) = Len(active.path) + 1
    BY <1>4, ChildFrame
  <2> QED
    BY <1>1, <1>4, <2>1 DEF Of
<1>6. findIndex(b, c) = {}
  <2> SUFFICES ASSUME NEW i \in 1..n, nextId(b[i]) = nextId(c) PROVE FALSE
    BY <1>1 DEF findIndex
  <2>1. b[i] = c
    BY <1>2, <1>5, SameFrame
  <2> QED
    BY <1>1, <1>2, <1>5, <2>1
<1>7. ASSUME NEW i \in 1..(n + 1) PROVE Of(a[i], root) /\ Len(a[i].path) = i - 1
  <2>1. CASE i = n + 1
    BY <1>1, <1>3, <1>5, <2>1
  <2>2. CASE i # n + 1
    <3>1. i \in 1..n
      BY <1>1, <2>2
    <3> QED
      BY <1>2, <1>3, <3>1
  <2> QED
    BY <2>1, <2>2
<1>8. ASSUME NEW i \in 1..n PROVE a[i + 1] \in children(a[i])
  <2>1. CASE i = n
    BY <1>1, <1>2, <1>3, <2>1
  <2>2. CASE i # n
    <3>1. i \in 1..(n - 1) /\ i + 1 \in 1..n
      BY <1>1, <2>2
    <3> QED
      BY <1>2, <1>3, <3>1
  <2> QED
    BY <2>1, <2>2
<1>9. a[1] = root /\ a[Len(a)] = c /\ Len(a) - 1 = n
  BY <1>1, <1>2, <1>3
<1>10. Lead(a, root, c)
  BY <1>2, <1>3, <1>7, <1>8, <1>9 DEF Lead
<1> QED
  BY <1>5, <1>6, <1>10 DEF a

\* Going back to a breadcrumb drops those after it.
LEMMA LeadCut ==
    ASSUME NEW b, NEW root, NEW active, Lead(b, root, active), NEW k \in 1..Len(b)
    PROVE  /\ findIndex(b, b[k]) = {k} /\ Min(findIndex(b, b[k])) = k
           /\ IsRoot(b[k]) => b[k] = root
           /\ Of(b[k], root) /\ Lead(SubSeq(b, 1, k), root, b[k])
<1> DEFINE a == SubSeq(b, 1, k)
           n == Len(b)
<1>1. b \in Seq(ToSet(b)) /\ n \in Nat /\ n # 0 /\ DOMAIN b = 1..n /\ k \in 1..n
  BY DEF Lead
<1>2. /\ Resource(root) /\ IsRoot(root) /\ b[1] = root /\ b[n] = active
      /\ \A i \in 1..n : Of(b[i], root) /\ Len(b[i].path) = i - 1
      /\ \A i \in 1..(n - 1) : b[i + 1] \in children(b[i])
  BY DEF Lead
<1>3. a \in Seq(ToSet(b)) /\ Len(a) = k /\ \A i \in 1..k : a[i] = b[i]
  BY <1>1
<1> HIDE DEF a, n
<1>4. a \in Seq(ToSet(a)) /\ a # <<>>
  <2>1. \A i \in 1..Len(a) : a[i] \in ToSet(a)
    BY <1>3 DEF ToSet
  <2>2. a = [i \in 1..Len(a) |-> a[i]] /\ Len(a) \in Nat
    BY <1>3
  <2> QED
    BY <1>1, <1>3, <2>1, <2>2
<1>5. findIndex(b, b[k]) = {k}
  <2>1. ASSUME NEW i \in 1..n, nextId(b[i]) = nextId(b[k]) PROVE i = k
    <3>1. b[i] = b[k]
      BY <1>1, <1>2, <2>1, SameFrame
    <3>2. Len(b[i].path) = i - 1 /\ Len(b[k].path) = k - 1
      BY <1>1, <1>2
    <3> QED
      BY <1>1, <3>1, <3>2
  <2> QED
    BY <1>1, <2>1 DEF findIndex
<1>6. Min({k}) = k
  BY <1>1 DEF Min
<1>7. IsRoot(b[k]) => b[k] = root
  <2>1. Of(b[k], root) /\ Of(root, root)
    BY <1>1, <1>2, ResourcePath
  <2> QED
    BY <1>2, <2>1, SameFrame DEF IsRoot
<1>8. \A i \in 1..k : Of(a[i], root) /\ Len(a[i].path) = i - 1
  BY <1>1, <1>2, <1>3
<1>9. ASSUME NEW i \in 1..(k - 1) PROVE a[i + 1] \in children(a[i])
  <2>1. i \in 1..k /\ i + 1 \in 1..k /\ i \in 1..(n - 1)
    BY <1>1
  <2> QED
    BY <1>2, <1>3, <2>1
<1>10. a[1] = root /\ a[Len(a)] = b[k]
  BY <1>1, <1>2, <1>3
<1>11. Lead(a, root, b[k])
  BY <1>2, <1>3, <1>4, <1>8, <1>9, <1>10 DEF Lead
<1> QED
  BY <1>1, <1>2, <1>5, <1>6, <1>7, <1>11 DEF a

(***************************************************************************)
(* Memory: the store, the toolbar and the treemap.                         *)
(***************************************************************************)

MemorySlice(m) ==
    m = [resource |-> m.resource, activeResource |-> m.activeResource, breadcrumbs |-> m.breadcrumbs,
         granularity |-> m.granularity, treemapView |-> m.treemapView]

BarSlice(bar) ==
    bar = [breadcrumbs |-> bar.breadcrumbs, granularity |-> bar.granularity, treemapView |-> bar.treemapView]

TreemapSlice(t) ==
    /\ t = [svg |-> t.svg, tree |-> t.tree, shown |-> t.shown, baseResource |-> t.baseResource,
            activeResource |-> t.activeResource, lastClicked |-> t.lastClicked,
            breadcrumbs |-> t.breadcrumbs, isFirstTime |-> t.isFirstTime]
    /\ t.svg \in BOOLEAN /\ t.isFirstTime \in BOOLEAN

\* What the store holds, and how the toolbar follows it.
Walks(m) ==
    /\ MemorySlice(m) /\ (m.activeResource = NoResource \/ Resource(m.activeResource))
    /\ m.resource # NoResource => Lead(m.breadcrumbs, m.resource, m.activeResource)

BarFits(bar, m) ==
    /\ BarSlice(bar) /\ bar.breadcrumbs \in Seq(ToSet(bar.breadcrumbs))
    /\ \A r \in ToSet(bar.breadcrumbs) : Resource(r)
    /\ m.resource # NoResource => bar.breadcrumbs = m.breadcrumbs

\* A treemap that shows the frame s of the tree of the store m.
Shows(t, m, s) ==
    /\ TreemapSlice(t) /\ t.breadcrumbs = m.breadcrumbs /\ (t.svg <=> m.resource # NoResource)
    /\ t.svg => /\ t.shown = s /\ t.lastClicked \in {NoResource, s} /\ ~t.isFirstTime
                /\ t.baseResource = m.resource /\ t.tree = m.resource
                /\ t.activeResource = m.activeResource
    /\ ~t.svg => /\ t.baseResource = NoResource
                 /\ t.isFirstTime => t.lastClicked = NoResource /\ t.breadcrumbs = <<>>

\* What was asked of the profilers, and whom.
MemoryAsked(m, req, node) ==
    /\ \A r \in req : r = [node |-> node, granularity |-> m.granularity]
    /\ m.resource # NoResource =>
         m.resource.threshold = m.granularity /\ (m.resource.node = node \/ req # {})

MemoryInv ==
    /\ Walks(memory) /\ BarFits(memoryBar, memory) /\ MemoryAsked(memory, memoryReq, rust)
    /\ page # "ended" => Shows(treemap, memory, memory.activeResource)
    /\ page \notin {"memory", "ended"} => memory.resource = NoResource /\ memoryReq = {}

LEMMA MemoryInvSound == MemoryInv => MemorySound
<1> SUFFICES ASSUME MemoryInv PROVE MemorySound
  OBVIOUS
<1>1. MemoryTreeFit
  BY DEF MemoryInv, MemoryAsked, MemoryTreeFit
<1>2. BreadcrumbsLead
  BY DEF MemoryInv, Walks, Lead, BreadcrumbsLead
<1>3. TreemapFollows
  BY DEF MemoryInv, Shows, TreemapFollows
<1> QED
  BY <1>1, <1>2, <1>3 DEF MemorySound

\* A choice in the store: a breadcrumb or a frame below the active one.
Choosable(m, payload) ==
    /\ Resource(payload)
    /\ m.resource # NoResource =>
         payload \in ToSet(m.breadcrumbs) \/ payload \in children(m.activeResource)

LEMMA ChoiceLeads ==
    ASSUME NEW b, NEW root, NEW active, Lead(b, root, active), NEW payload,
           payload \in ToSet(b) \/ payload \in children(active), payload # active
    PROVE  /\ Of(payload, root)
           /\ Lead(IF IsRoot(payload) THEN <<root>>
                   ELSE IF findIndex(b, payload) # {} THEN SubSeq(b, 1, Min(findIndex(b, payload)))
                   ELSE Append(b, payload), root, payload)
<1>1. Resource(root) /\ IsRoot(root)
  BY DEF Lead
<1>2. CASE payload \in children(active)
  BY <1>2, LeadAppend
<1>3. CASE payload \in ToSet(b)
  <2>1. PICK k \in 1..Len(b) : payload = b[k]
    BY <1>3 DEF ToSet, Lead
  <2>2. /\ findIndex(b, payload) = {k} /\ Min(findIndex(b, payload)) = k
        /\ IsRoot(payload) => payload = root
        /\ Of(payload, root) /\ Lead(SubSeq(b, 1, k), root, payload)
    BY <2>1, LeadCut
  <2>3. CASE IsRoot(payload)
    BY <1>1, <2>2, <2>3, LeadRoot
  <2>4. CASE ~IsRoot(payload)
    BY <2>2, <2>4
  <2> QED
    BY <2>3, <2>4
<1> QED
  BY <1>2, <1>3

LEMMA ResourceChosen ==
    ASSUME NEW m, Walks(m), NEW payload, Choosable(m, payload),
           NEW new, new = SetActiveResourceReduced(m, payload)
    PROVE  /\ Walks(new) /\ new.resource = m.resource /\ new.activeResource = payload
           /\ new.granularity = m.granularity /\ new.treemapView = m.treemapView
           /\ payload = m.activeResource => new = m
           /\ m.resource # NoResource => Of(payload, m.resource)
<1>1. CASE payload = m.activeResource
  <2>1. new = m
    BY <1>1 DEF SetActiveResourceReduced
  <2>2. m.resource # NoResource => Of(payload, m.resource)
    <3> SUFFICES ASSUME m.resource # NoResource PROVE Of(payload, m.resource)
      OBVIOUS
    <3> DEFINE b == m.breadcrumbs
    <3>1. Lead(b, m.resource, payload)
      BY <1>1 DEF Walks
    <3>2. Len(b) \in 1..Len(b) /\ b[Len(b)] = payload
      BY <3>1 DEF Lead
    <3> QED
      BY <3>1, <3>2 DEF Lead
  <2> QED
    BY <1>1, <2>1, <2>2
<1>2. CASE payload # m.activeResource
  <2> DEFINE b == IF IsRoot(payload) THEN <<m.resource>>
                  ELSE IF findIndex(m.breadcrumbs, payload) # {}
                       THEN SubSeq(m.breadcrumbs, 1, Min(findIndex(m.breadcrumbs, payload)))
                  ELSE Append(m.breadcrumbs, payload)
  <2>1. new = [m EXCEPT !.activeResource = payload, !.breadcrumbs = b]
    BY <1>2 DEF SetActiveResourceReduced
  <2>2. m.resource # NoResource => Of(payload, m.resource) /\ Lead(b, m.resource, payload)
    <3> SUFFICES ASSUME m.resource # NoResource PROVE Of(payload, m.resource) /\ Lead(b, m.resource, payload)
      OBVIOUS
    <3>1. /\ Lead(m.breadcrumbs, m.resource, m.activeResource)
          /\ payload \in ToSet(m.breadcrumbs) \/ payload \in children(m.activeResource)
      BY DEF Walks, Choosable
    <3> QED
      BY <1>2, <3>1, ChoiceLeads
  <2> HIDE DEF b
  <2>3. new = [resource |-> m.resource, activeResource |-> payload, breadcrumbs |-> b,
               granularity |-> m.granularity, treemapView |-> m.treemapView]
    BY <2>1 DEF Walks, MemorySlice
  <2>4. Resource(payload)
    BY DEF Choosable
  <2> QED
    BY <1>2, <2>2, <2>3, <2>4 DEF Walks, MemorySlice
<1> QED
  BY <1>1, <1>2

\* The toolbar follows a choice.
LEMMA BarFollows ==
    ASSUME NEW new, Walks(new), BarFits(memoryBar, new) \/ new.resource # NoResource, BarSlice(memoryBar)
    PROVE  BarFits(listenToActiveResource(new), new)
<1>1. CASE new.resource = NoResource
  BY <1>1 DEF listenToActiveResource
<1>2. CASE new.resource # NoResource
  <2> DEFINE bar == listenToActiveResource(new)
             b == new.breadcrumbs
  <2>1. bar = [memoryBar EXCEPT !.breadcrumbs = b, !.granularity = new.granularity,
                                !.treemapView = new.treemapView]
    BY <1>2 DEF listenToActiveResource
  <2> HIDE DEF bar
  <2>2. bar = [breadcrumbs |-> b, granularity |-> new.granularity, treemapView |-> new.treemapView]
    BY <2>1 DEF BarSlice
  <2>3. Lead(b, new.resource, new.activeResource)
    BY <1>2 DEF Walks
  <2>4. b \in Seq(ToSet(b))
    BY <2>3 DEF Lead
  <2>5. \A r \in ToSet(b) : Resource(r)
    <3>1. \A i \in 1..Len(b) : Resource(b[i])
      BY <2>3 DEF Lead, Of
    <3>2. DOMAIN b = 1..Len(b)
      BY <2>4
    <3> HIDE DEF b
    <3> QED
      BY <3>1, <3>2 DEF ToSet
  <2> QED
    BY <2>2, <2>4, <2>5 DEF BarFits, BarSlice, bar
<1> QED
  BY <1>1, <1>2

LEMMA ZoomedIn ==
    ASSUME NEW t, TreemapSlice(t), NEW d, NEW z, z = zoomIn(t, d)
    PROVE  /\ TreemapSlice(z) /\ z.svg = t.svg /\ z.tree = t.tree /\ z.baseResource = t.baseResource
           /\ z.activeResource = t.activeResource /\ z.breadcrumbs = t.breadcrumbs
           /\ z.isFirstTime = t.isFirstTime
           /\ d # NoResource => z.lastClicked = d /\ (t.svg => z.shown = d)
<1>1. CASE d = NoResource
  BY <1>1 DEF zoomIn
<1>2. CASE d # NoResource
  <2> DEFINE s == IF t.svg THEN d ELSE t.shown
  <2>1. z = [t EXCEPT !.lastClicked = d, !.shown = s]
    BY <1>2 DEF zoomIn
  <2>2. t.svg => s = d
    OBVIOUS
  <2> HIDE DEF s
  <2>3. z = [svg |-> t.svg, tree |-> t.tree, shown |-> s, baseResource |-> t.baseResource,
             activeResource |-> t.activeResource, lastClicked |-> d,
             breadcrumbs |-> t.breadcrumbs, isFirstTime |-> t.isFirstTime]
    BY <2>1 DEF TreemapSlice
  <2> QED
    BY <2>2, <2>3 DEF TreemapSlice
<1> QED
  BY <1>1, <1>2

LEMMA BreadcrumbsHeard ==
    ASSUME NEW t, TreemapSlice(t), NEW new, NEW z, z = onBreadcrumbs(t, new)
    PROVE  /\ TreemapSlice(z) /\ z.svg = t.svg /\ z.tree = t.tree /\ z.baseResource = t.baseResource
           /\ z.activeResource = t.activeResource /\ z.breadcrumbs = new.breadcrumbs
           /\ z.isFirstTime = t.isFirstTime /\ z.lastClicked = t.lastClicked /\ z.shown = t.shown
<1> DEFINE b == new.breadcrumbs
<1>1. z = [t EXCEPT !.breadcrumbs = b]
  BY DEF onBreadcrumbs
<1> HIDE DEF b
<1>2. z = [svg |-> t.svg, tree |-> t.tree, shown |-> t.shown, baseResource |-> t.baseResource,
           activeResource |-> t.activeResource, lastClicked |-> t.lastClicked,
           breadcrumbs |-> b, isFirstTime |-> t.isFirstTime]
  BY <1>1 DEF TreemapSlice
<1> QED
  BY <1>2 DEF TreemapSlice, b

\* The treemap is told of a frame that is not the one of before.
LEMMA ActiveHeard ==
    ASSUME NEW t, TreemapSlice(t), NEW new, NEW payload, new.activeResource = payload,
           payload # NoResource, NEW isNew \in BOOLEAN, isNew \/ payload # memory.activeResource,
           NEW z, z = onActiveResource(t, new, isNew)
    PROVE  /\ TreemapSlice(z) /\ z.svg = t.svg /\ z.tree = t.tree /\ z.baseResource = t.baseResource
           /\ z.activeResource = payload /\ z.breadcrumbs = t.breadcrumbs /\ ~z.isFirstTime
           /\ (t.isFirstTime \/ (~isNew /\ t.lastClicked = payload)) =>
                z.lastClicked = t.lastClicked /\ z.shown = t.shown
           /\ ~(t.isFirstTime \/ (~isNew /\ t.lastClicked = payload)) =>
                (t.svg /\ findNodeByName(payload, t.tree) = payload =>
                    z.lastClicked = payload /\ z.shown = payload)
<1> DEFINE no == FALSE
           given == [t EXCEPT !.activeResource = payload, !.isFirstTime = no]
<1>0. no \in BOOLEAN /\ ~no
  OBVIOUS
<1>2. z = IF t.isFirstTime \/ (~isNew /\ t.lastClicked = payload) THEN given
          ELSE zoomIn([given EXCEPT !.lastClicked = payload], findNodeByName(payload, t.tree))
  BY DEF onActiveResource
<1>6. given = [t EXCEPT !.activeResource = payload, !.isFirstTime = no]
  OBVIOUS
<1> HIDE DEF no, given
<1>1. given = [svg |-> t.svg, tree |-> t.tree, shown |-> t.shown, baseResource |-> t.baseResource,
               activeResource |-> payload, lastClicked |-> t.lastClicked,
               breadcrumbs |-> t.breadcrumbs, isFirstTime |-> no]
  BY <1>6 DEF TreemapSlice
<1>3. TreemapSlice(given)
  BY <1>0, <1>1 DEF TreemapSlice
<1>4. CASE t.isFirstTime \/ (~isNew /\ t.lastClicked = payload)
  <2>1. z = given
    BY <1>2, <1>4
  <2> QED
    BY <1>0, <1>1, <1>3, <1>4, <2>1
<1>5. CASE ~(t.isFirstTime \/ (~isNew /\ t.lastClicked = payload))
  <2> DEFINE a == [given EXCEPT !.lastClicked = payload]
             d == findNodeByName(payload, t.tree)
  <2>1. a = [svg |-> t.svg, tree |-> t.tree, shown |-> t.shown, baseResource |-> t.baseResource,
             activeResource |-> payload, lastClicked |-> payload,
             breadcrumbs |-> t.breadcrumbs, isFirstTime |-> no]
    BY <1>1
  <2>2. z = zoomIn(a, d)
    BY <1>2, <1>5
  <2> HIDE DEF a, d
  <2>3. TreemapSlice(a)
    BY <1>0, <2>1 DEF TreemapSlice
  <2>4. /\ TreemapSlice(z) /\ z.svg = a.svg /\ z.tree = a.tree /\ z.baseResource = a.baseResource
        /\ z.activeResource = a.activeResource /\ z.breadcrumbs = a.breadcrumbs
        /\ z.isFirstTime = a.isFirstTime
        /\ d # NoResource => z.lastClicked = d /\ (a.svg => z.shown = d)
    BY <2>2, <2>3, ZoomedIn
  <2> QED
    BY <1>0, <1>5, <2>1, <2>4 DEF d
<1> QED
  BY <1>4, <1>5

\* The treemap is told of a choice, which it made itself or not.
LEMMA TreemapChosen ==
    ASSUME Walks(memory), NEW payload, Choosable(memory, payload),
           NEW new, new = SetActiveResourceReduced(memory, payload),
           NEW t, NEW s, Shows(t, memory, s),
           t.svg => s = memory.activeResource \/ (s = payload /\ t.lastClicked = payload)
    PROVE  Shows(listenToMemoryResourcesChanges(t, new, FALSE), new, payload)
<1>1. /\ Walks(new) /\ new.resource = memory.resource /\ new.activeResource = payload
      /\ new.treemapView = memory.treemapView
      /\ payload = memory.activeResource => new = memory
      /\ memory.resource # NoResource => Of(payload, memory.resource)
  BY ResourceChosen
<1>2. payload # NoResource
  BY ResourcePath DEF Choosable
<1> DEFINE no == FALSE
           a == onActiveResource(t, new, no)
           z == onBreadcrumbs(a, new)
<1>3. listenToMemoryResourcesChanges(t, new, FALSE) = z
  <2>1. onTreemapView(t, new) = t
    BY <1>1 DEF onTreemapView
  <2>2. onResource(t, new, FALSE) = t
    BY <1>1 DEF onResource
  <2> QED
    BY <2>1, <2>2 DEF listenToMemoryResourcesChanges
<1>4. no \in BOOLEAN /\ ~no
  OBVIOUS
<1> HIDE DEF no
<1>5. TreemapSlice(t) /\ (t.svg <=> memory.resource # NoResource)
  BY DEF Shows
<1>6. CASE payload = memory.activeResource
  <2>1. a = t
    BY <1>1, <1>4, <1>6 DEF onActiveResource
  <2>2. /\ TreemapSlice(z) /\ z.svg = a.svg /\ z.tree = a.tree /\ z.baseResource = a.baseResource
        /\ z.activeResource = a.activeResource /\ z.breadcrumbs = new.breadcrumbs
        /\ z.isFirstTime = a.isFirstTime /\ z.lastClicked = a.lastClicked /\ z.shown = a.shown
    BY <1>5, <2>1, BreadcrumbsHeard
  <2> HIDE DEF a, z
  <2>3. Shows(z, new, payload)
    BY <1>1, <1>6, <2>1, <2>2 DEF Shows
  <2> QED
    BY <1>3, <2>3
<1>7. CASE payload # memory.activeResource
  <2>1. /\ TreemapSlice(a) /\ a.svg = t.svg /\ a.tree = t.tree /\ a.baseResource = t.baseResource
        /\ a.activeResource = payload /\ ~a.isFirstTime
        /\ (t.isFirstTime \/ t.lastClicked = payload) =>
                a.lastClicked = t.lastClicked /\ a.shown = t.shown
        /\ ~(t.isFirstTime \/ t.lastClicked = payload) =>
                (t.svg /\ findNodeByName(payload, t.tree) = payload =>
                    a.lastClicked = payload /\ a.shown = payload)
    <3> HIDE DEF a
    <3>1. a = onActiveResource(t, new, no)
      BY DEF a
    <3> QED
      BY <1>1, <1>2, <1>4, <1>5, <1>7, <3>1, ActiveHeard
  <2>2. /\ TreemapSlice(z) /\ z.svg = a.svg /\ z.tree = a.tree /\ z.baseResource = a.baseResource
        /\ z.activeResource = a.activeResource /\ z.breadcrumbs = new.breadcrumbs
        /\ z.isFirstTime = a.isFirstTime /\ z.lastClicked = a.lastClicked /\ z.shown = a.shown
    <3> HIDE DEF a
    <3> QED
      BY <2>1, BreadcrumbsHeard
  <2> HIDE DEF a, z
  <2>3. CASE t.svg
    <3>1. /\ t.shown = s /\ t.lastClicked \in {NoResource, s} /\ ~t.isFirstTime
          /\ t.baseResource = memory.resource /\ t.tree = memory.resource
          /\ s = memory.activeResource \/ (s = payload /\ t.lastClicked = payload)
      BY <2>3 DEF Shows
    <3>2. Resource(memory.resource) /\ Of(payload, memory.resource)
      BY <1>1, <1>5, <2>3 DEF Walks, Lead
    <3>3. findNodeByName(payload, t.tree) = payload
      BY <3>1, <3>2, FindNode
    <3>4. a.shown = payload /\ a.lastClicked = payload
      <4>1. CASE t.lastClicked = payload
        BY <1>2, <1>7, <2>1, <3>1, <4>1
      <4>2. CASE t.lastClicked # payload
        BY <2>1, <2>3, <3>1, <3>3, <4>2
      <4> QED
        BY <4>1, <4>2
    <3>5. /\ TreemapSlice(z) /\ z.svg /\ z.shown = payload /\ z.lastClicked = payload /\ ~z.isFirstTime
          /\ z.baseResource = memory.resource /\ z.tree = memory.resource /\ z.activeResource = payload
          /\ z.breadcrumbs = new.breadcrumbs
      BY <2>1, <2>2, <2>3, <3>1, <3>4
    <3>6. Shows(z, new, payload)
      BY <1>1, <1>5, <2>3, <3>5 DEF Shows
    <3> QED
      BY <1>3, <3>6
  <2>4. CASE ~t.svg
    <3>1. t.baseResource = NoResource
      BY <2>4 DEF Shows
    <3> QED
      BY <1>1, <1>3, <1>5, <2>1, <2>2, <2>4, <3>1 DEF Shows
  <2> QED
    BY <2>3, <2>4
<1> QED
  BY <1>6, <1>7

\* An answer: the chart is drawn from its root.
LEMMA TreemapAnswered ==
    ASSUME NEW t, Shows(t, memory, memory.activeResource), NEW root, Resource(root),
           NEW new, new.resource = root, new.activeResource = root, new.treemapView = memory.treemapView
    PROVE  Shows(listenToMemoryResourcesChanges(t, new, TRUE), new, root)
<1> DEFINE yes == TRUE
           c == onResource(t, new, yes)
           a == onActiveResource(c, new, yes)
           z == onBreadcrumbs(a, new)
<1>1. listenToMemoryResourcesChanges(t, new, TRUE) = z
  <2>1. onTreemapView(t, new) = t
    BY DEF onTreemapView
  <2> QED
    BY <2>1 DEF listenToMemoryResourcesChanges
<1>2. yes \in BOOLEAN /\ yes
  OBVIOUS
<1>3. root # NoResource /\ Of(root, root)
  BY ResourcePath
<1> DEFINE based == [t EXCEPT !.baseResource = root]
           treed == [based EXCEPT !.tree = root]
<1>4. c = [treed EXCEPT !.svg = yes, !.shown = root]
  BY <1>3 DEF onResource, createChart, createTreemapValues
<1>5. based = [t EXCEPT !.baseResource = root] /\ treed = [based EXCEPT !.tree = root]
  OBVIOUS
<1> HIDE DEF yes, based, treed
<1>6. TreemapSlice(t)
  BY DEF Shows
<1>7. based = [svg |-> t.svg, tree |-> t.tree, shown |-> t.shown, baseResource |-> root,
            activeResource |-> t.activeResource, lastClicked |-> t.lastClicked,
            breadcrumbs |-> t.breadcrumbs, isFirstTime |-> t.isFirstTime]
  BY <1>5, <1>6 DEF TreemapSlice
<1>8. treed = [svg |-> t.svg, tree |-> root, shown |-> t.shown, baseResource |-> root,
            activeResource |-> t.activeResource, lastClicked |-> t.lastClicked,
            breadcrumbs |-> t.breadcrumbs, isFirstTime |-> t.isFirstTime]
  BY <1>5, <1>7
<1> HIDE DEF c
<1>9. c = [svg |-> yes, tree |-> root, shown |-> root, baseResource |-> root,
            activeResource |-> t.activeResource, lastClicked |-> t.lastClicked,
            breadcrumbs |-> t.breadcrumbs, isFirstTime |-> t.isFirstTime]
  BY <1>4, <1>8
<1>10. TreemapSlice(c)
  BY <1>2, <1>6, <1>9 DEF TreemapSlice
<1>11. findNodeByName(root, c.tree) = root
  BY <1>3, <1>9, FindNode
<1> HIDE DEF a
<1>12. a = onActiveResource(c, new, yes)
  BY DEF a
<1>13. /\ TreemapSlice(a) /\ a.svg = c.svg /\ a.tree = c.tree /\ a.baseResource = c.baseResource
       /\ a.activeResource = root /\ ~a.isFirstTime
       /\ c.isFirstTime => a.lastClicked = c.lastClicked /\ a.shown = c.shown
       /\ ~c.isFirstTime =>
            (c.svg /\ findNodeByName(root, c.tree) = root => a.lastClicked = root /\ a.shown = root)
  <2>1. yes \/ root # memory.activeResource
    BY <1>2
  <2>2. yes \in BOOLEAN /\ root # NoResource /\ new.activeResource = root
    BY <1>2, <1>3
  <2>3. /\ TreemapSlice(a) /\ a.svg = c.svg /\ a.tree = c.tree /\ a.baseResource = c.baseResource
        /\ a.activeResource = root /\ a.breadcrumbs = c.breadcrumbs /\ ~a.isFirstTime
        /\ (c.isFirstTime \/ (~yes /\ c.lastClicked = root)) =>
             a.lastClicked = c.lastClicked /\ a.shown = c.shown
        /\ ~(c.isFirstTime \/ (~yes /\ c.lastClicked = root)) =>
             (c.svg /\ findNodeByName(root, c.tree) = root => a.lastClicked = root /\ a.shown = root)
    BY <1>10, <1>12, <2>1, <2>2, ActiveHeard
  <2> QED
    BY <1>2, <2>3
<1>14. a.shown = root /\ a.lastClicked \in {NoResource, root}
  <2>1. CASE t.isFirstTime
    <3>1. t.lastClicked = NoResource
      BY <2>1 DEF Shows
    <3> QED
      BY <1>9, <1>13, <2>1, <3>1
  <2>2. CASE ~t.isFirstTime
    BY <1>2, <1>9, <1>11, <1>13, <2>2
  <2> QED
    BY <2>1, <2>2
<1>15. /\ TreemapSlice(z) /\ z.svg = a.svg /\ z.tree = a.tree /\ z.baseResource = a.baseResource
       /\ z.activeResource = a.activeResource /\ z.breadcrumbs = new.breadcrumbs
       /\ z.isFirstTime = a.isFirstTime /\ z.lastClicked = a.lastClicked /\ z.shown = a.shown
  BY <1>13, BreadcrumbsHeard
<1> HIDE DEF z
<1> QED
  BY <1>1, <1>2, <1>3, <1>9, <1>13, <1>14, <1>15 DEF Shows

\* No tree any more.
LEMMA TreemapEmptied ==
    ASSUME NEW t, Shows(t, memory, memory.activeResource), NEW new, new.resource = NoResource,
           new.activeResource = NoResource, new.treemapView = memory.treemapView, new.breadcrumbs = <<>>
    PROVE  Shows(listenToMemoryResourcesChanges(t, new, FALSE), new, NoResource)
<1> DEFINE c == onResource(t, new, FALSE)
           z == onBreadcrumbs(c, new)
<1>1. listenToMemoryResourcesChanges(t, new, FALSE) = z
  <2>1. onTreemapView(t, new) = t
    BY DEF onTreemapView
  <2>2. onActiveResource(c, new, FALSE) = c
    BY DEF onActiveResource
  <2> QED
    BY <2>1, <2>2 DEF listenToMemoryResourcesChanges
<1>2. TreemapSlice(t) /\ (t.svg <=> memory.resource # NoResource)
  BY DEF Shows
<1>3. /\ TreemapSlice(c) /\ ~c.svg /\ c.baseResource = NoResource
      /\ c.isFirstTime => c.lastClicked = NoResource
  <2>1. CASE memory.resource = NoResource
    <3>1. c = t
      BY <2>1 DEF onResource
    <3> QED
      BY <1>2, <2>1, <3>1 DEF Shows
  <2>2. CASE memory.resource # NoResource
    <3> DEFINE no == FALSE
               yes == TRUE
    <3>0. no \in BOOLEAN /\ yes \in BOOLEAN /\ ~no
      OBVIOUS
    <3>1. c = [t EXCEPT !.svg = no, !.shown = NoResource, !.isFirstTime = yes, !.baseResource = NoResource,
                        !.lastClicked = NoResource]
      BY <2>2 DEF onResource
    <3> HIDE DEF c, no, yes
    <3>2. c = [svg |-> no, tree |-> t.tree, shown |-> NoResource, baseResource |-> NoResource,
               activeResource |-> t.activeResource, lastClicked |-> NoResource,
               breadcrumbs |-> t.breadcrumbs, isFirstTime |-> yes]
      BY <1>2, <3>1 DEF TreemapSlice
    <3> QED
      BY <3>0, <3>2 DEF TreemapSlice
  <2> QED
    BY <2>1, <2>2
<1> HIDE DEF c
<1>4. /\ TreemapSlice(z) /\ z.svg = c.svg /\ z.tree = c.tree /\ z.baseResource = c.baseResource
      /\ z.activeResource = c.activeResource /\ z.breadcrumbs = new.breadcrumbs
      /\ z.isFirstTime = c.isFirstTime /\ z.lastClicked = c.lastClicked /\ z.shown = c.shown
  BY <1>3, BreadcrumbsHeard
<1> HIDE DEF z
<1> QED
  BY <1>1, <1>3, <1>4 DEF Shows

\* Another layout.
LEMMA TreemapViewed ==
    ASSUME Walks(memory), NEW t, Shows(t, memory, memory.activeResource), NEW new,
           new.resource = memory.resource, new.activeResource = memory.activeResource,
           new.breadcrumbs = memory.breadcrumbs
    PROVE  Shows(listenToMemoryResourcesChanges(t, new, FALSE), new, memory.activeResource)
<1> DEFINE v == onTreemapView(t, new)
           z == onBreadcrumbs(v, new)
<1>1. listenToMemoryResourcesChanges(t, new, FALSE) = z
  <2>1. onResource(v, new, FALSE) = v
    BY DEF onResource
  <2>2. onActiveResource(v, new, FALSE) = v
    BY DEF onActiveResource
  <2> QED
    BY <2>1, <2>2 DEF listenToMemoryResourcesChanges
<1>2. TreemapSlice(t) /\ (t.svg <=> memory.resource # NoResource) /\ t.breadcrumbs = memory.breadcrumbs
  BY DEF Shows
<1>3. Shows(v, memory, memory.activeResource)
  <2>1. CASE v = t
    BY <2>1
  <2>2. CASE v # t
    <3>1. t.baseResource # NoResource /\ v = zoomIn([t EXCEPT !.tree = t.baseResource],
                          findNodeByName(t.activeResource, [t EXCEPT !.tree = t.baseResource].tree))
      BY <2>2 DEF onTreemapView, createTreemapValues
    <3>2. /\ t.svg /\ ~t.isFirstTime /\ t.activeResource = memory.activeResource
          /\ t.baseResource = memory.resource /\ t.tree = memory.resource
      BY <1>2, <3>1 DEF Shows
    <3>3. [t EXCEPT !.tree = t.baseResource] = t
      BY <1>2, <3>2 DEF TreemapSlice
    <3>4. v = zoomIn(t, findNodeByName(memory.activeResource, memory.resource))
      BY <3>1, <3>2, <3>3
    <3>5. Resource(memory.resource) /\ Of(memory.activeResource, memory.resource)
      <4> DEFINE b == memory.breadcrumbs
      <4>1. Lead(b, memory.resource, memory.activeResource)
        BY <1>2, <3>2 DEF Walks
      <4>2. Len(b) \in 1..Len(b) /\ b[Len(b)] = memory.activeResource
        BY <4>1 DEF Lead
      <4> QED
        BY <4>1, <4>2 DEF Lead
    <3>6. v = zoomIn(t, memory.activeResource) /\ memory.activeResource # NoResource
      BY <3>4, <3>5, FindNode, ResourcePath DEF Of
    <3>7. /\ TreemapSlice(v) /\ v.svg = t.svg /\ v.tree = t.tree /\ v.baseResource = t.baseResource
          /\ v.activeResource = t.activeResource /\ v.breadcrumbs = t.breadcrumbs
          /\ v.isFirstTime = t.isFirstTime
          /\ v.lastClicked = memory.activeResource /\ v.shown = memory.activeResource
      <4> DEFINE d == memory.activeResource
      <4>1. v = zoomIn(t, d) /\ d # NoResource
        BY <3>6
      <4> HIDE DEF v, d
      <4>2. /\ TreemapSlice(v) /\ v.svg = t.svg /\ v.tree = t.tree /\ v.baseResource = t.baseResource
            /\ v.activeResource = t.activeResource /\ v.breadcrumbs = t.breadcrumbs
            /\ v.isFirstTime = t.isFirstTime
            /\ d # NoResource => v.lastClicked = d /\ (t.svg => v.shown = d)
        BY <1>2, <4>1, ZoomedIn
      <4> QED
        BY <3>2, <4>1, <4>2 DEF d
    <3> HIDE DEF v
    <3> QED
      BY <1>2, <3>2, <3>7 DEF Shows
  <2> QED
    BY <2>1, <2>2
<1> HIDE DEF v
<1>4. /\ TreemapSlice(z) /\ z.svg = v.svg /\ z.tree = v.tree /\ z.baseResource = v.baseResource
      /\ z.activeResource = v.activeResource /\ z.breadcrumbs = new.breadcrumbs
      /\ z.isFirstTime = v.isFirstTime /\ z.lastClicked = v.lastClicked /\ z.shown = v.shown
  BY <1>3, BreadcrumbsHeard DEF Shows
<1> HIDE DEF z
<1> QED
  BY <1>1, <1>3, <1>4 DEF Shows

LEMMA MemoryChosen ==
    ASSUME MemoryInv, NEW payload, Choosable(memory, payload), NEW t, setActiveResource(payload, t),
           NEW s, Shows(t, memory, s),
           t.svg => s = memory.activeResource \/ (s = payload /\ t.lastClicked = payload)
    PROVE  MemoryInv'
<1>1. page = "memory" /\ rust' = rust /\ memoryReq' = memoryReq
  BY DEF setActiveResource
<1>2. CASE BreadcrumbUndefined(payload)
  <2>1. page' = "ended" /\ memory' = memory /\ memoryBar' = memoryBar
    BY <1>2 DEF setActiveResource, Throws
  <2> QED
    BY <1>1, <2>1 DEF MemoryInv
<1>3. CASE ~BreadcrumbUndefined(payload)
  <2> DEFINE new == SetActiveResourceReduced(memory, payload)
  <2>1. /\ page' = page /\ memory' = new /\ memoryBar' = listenToActiveResource(new)
        /\ treemap' = listenToMemoryResourcesChanges(t, new, FALSE)
    BY <1>3 DEF setActiveResource, Emit
  <2> HIDE DEF new
  <2>2. /\ Walks(new) /\ new.resource = memory.resource /\ new.activeResource = payload
        /\ new.granularity = memory.granularity
    BY ResourceChosen DEF new, MemoryInv
  <2>3. Shows(treemap', new, payload)
    BY <2>1, TreemapChosen DEF MemoryInv, new
  <2>4. BarFits(memoryBar', new)
    <3>1. BarFits(memoryBar, new) \/ new.resource # NoResource
      BY <2>2 DEF MemoryInv, BarFits
    <3>2. BarSlice(memoryBar)
      BY DEF MemoryInv, BarFits
    <3> QED
      BY <2>1, <2>2, <3>1, <3>2, BarFollows
  <2>5. MemoryAsked(new, memoryReq, rust)
    BY <2>2 DEF MemoryInv, MemoryAsked
  <2> QED
    BY <1>1, <2>1, <2>2, <2>3, <2>4, <2>5 DEF MemoryInv
<1> QED
  BY <1>2, <1>3

\* The active frame is one of the tree.
LEMMA ActiveOf ==
    ASSUME NEW m, Walks(m), m.resource # NoResource
    PROVE  /\ Lead(m.breadcrumbs, m.resource, m.activeResource)
           /\ Resource(m.resource) /\ Of(m.activeResource, m.resource)
           /\ m.activeResource # NoResource /\ m.activeResource \in ToSet(m.breadcrumbs)
<1> DEFINE b == m.breadcrumbs
<1>1. Lead(b, m.resource, m.activeResource)
  BY DEF Walks
<1>2. Len(b) \in 1..Len(b) /\ DOMAIN b = 1..Len(b) /\ b[Len(b)] = m.activeResource
  BY <1>1 DEF Lead
<1>3. Resource(m.resource) /\ Of(m.activeResource, m.resource)
  BY <1>1, <1>2 DEF Lead
<1> QED
  BY <1>1, <1>2, <1>3, ResourcePath DEF ToSet, Of

LEMMA RowChosen == ASSUME MemoryInv, page # "ended", MemoryRowClick PROVE MemoryInv'
<1>1. PICK row \in children(memory.activeResource) : setActiveResource(row, treemap)
  BY DEF MemoryRowClick
<1>2. Resource(memory.activeResource)
  BY DEF MemoryRowClick, MemoryInv, Walks
<1>3. Choosable(memory, row)
  BY <1>2, ChildFrame DEF Choosable, Of
<1>4. Shows(treemap, memory, memory.activeResource)
  BY DEF MemoryInv
<1> QED
  BY <1>1, <1>3, <1>4, MemoryChosen

LEMMA BreadcrumbChosen ==
    ASSUME MemoryInv, page # "ended", MemoryBreadcrumbClick \/ back
    PROVE  MemoryInv'
<1> DEFINE b == memoryBar.breadcrumbs
<1>0. /\ b \in Seq(ToSet(b)) /\ (\A r \in ToSet(b) : Resource(r))
      /\ memory.resource # NoResource => b = memory.breadcrumbs
  BY DEF MemoryInv, BarFits
<1>1. PICK breadcrumb \in ToSet(b) : setActiveResource(breadcrumb, treemap)
  <2>1. CASE MemoryBreadcrumbClick
    BY <2>1 DEF MemoryBreadcrumbClick
  <2>2. CASE back
    <3> DEFINE k == Len(b) - 1
    <3>1. Len(b) >= 2 /\ setActiveResource(b[k], treemap)
      BY <2>2 DEF back
    <3>2. k \in 1..Len(b) /\ DOMAIN b = 1..Len(b)
      BY <1>0, <3>1
    <3> HIDE DEF k
    <3>3. b[k] \in ToSet(b)
      BY <3>2 DEF ToSet
    <3> QED
      BY <3>1, <3>3
  <2> QED
    BY <2>1, <2>2
<1>2. Choosable(memory, breadcrumb)
  BY <1>0, <1>1 DEF Choosable
<1>3. Shows(treemap, memory, memory.activeResource)
  BY DEF MemoryInv
<1> QED
  BY <1>1, <1>2, <1>3, MemoryChosen

LEMMA CellChosen == ASSUME MemoryInv, page # "ended", TreemapClick PROVE MemoryInv'
<1>1. PICK d \in cells(treemap) : setActiveResource(d, zoomIn(treemap, d))
  BY DEF TreemapClick
<1>2. Shows(treemap, memory, memory.activeResource) /\ TreemapSlice(treemap) /\ Walks(memory)
  BY DEF MemoryInv, Shows
<1>3. treemap.svg /\ d \in children(treemap.shown)
  BY <1>1 DEF cells
<1>4. memory.resource # NoResource /\ d \in children(memory.activeResource)
  BY <1>2, <1>3 DEF Shows
<1>5. Resource(memory.activeResource)
  BY <1>2, <1>4, ActiveOf DEF Of
<1>6. Choosable(memory, d) /\ d # NoResource
  BY <1>4, <1>5, ChildFrame, ResourcePath DEF Choosable, Of
<1> DEFINE z == zoomIn(treemap, d)
<1> HIDE DEF z
<1>7. /\ TreemapSlice(z) /\ z.svg = treemap.svg /\ z.tree = treemap.tree
      /\ z.baseResource = treemap.baseResource
      /\ z.activeResource = treemap.activeResource /\ z.breadcrumbs = treemap.breadcrumbs
      /\ z.isFirstTime = treemap.isFirstTime
      /\ d # NoResource => z.lastClicked = d /\ (treemap.svg => z.shown = d)
  BY <1>2, ZoomedIn DEF z
<1>8. Shows(z, memory, d) /\ z.lastClicked = d
  BY <1>2, <1>3, <1>6, <1>7 DEF Shows
<1> QED
  BY <1>1, <1>6, <1>8, MemoryChosen DEF z

LEMMA ChartRedrawn == ASSUME MemoryInv, page # "ended", redrawChart PROVE MemoryInv'
<1>1. Shows(treemap, memory, memory.activeResource) /\ TreemapSlice(treemap) /\ Walks(memory)
  BY DEF MemoryInv, Shows
<1>2. /\ treemap.svg /\ memory.resource # NoResource /\ treemap.activeResource = memory.activeResource
      /\ treemap.baseResource = memory.resource /\ treemap.tree = memory.resource
  BY <1>1 DEF Shows, redrawChart
<1>3. createTreemapValues(treemap, treemap.baseResource) = treemap
  <2>1. [treemap EXCEPT !.tree = treemap.baseResource] = treemap
    BY <1>1, <1>2 DEF TreemapSlice
  <2> QED
    BY <2>1 DEF createTreemapValues
<1> DEFINE d == memory.activeResource
           z == zoomIn(treemap, d)
<1>4. Resource(memory.resource) /\ Of(d, memory.resource) /\ d # NoResource /\ d \in ToSet(memory.breadcrumbs)
  BY <1>1, <1>2, ActiveOf
<1>5. findNodeByName(treemap.activeResource, treemap.tree) = d
  BY <1>2, <1>4, FindNode
<1>6. setActiveResource(d, z)
  <2> HIDE DEF d
  <2> QED
    BY <1>3, <1>5 DEF redrawChart
<1>7. Choosable(memory, d)
  BY <1>4 DEF Choosable, Of
<1> HIDE DEF z, d
<1>8. /\ TreemapSlice(z) /\ z.svg = treemap.svg /\ z.tree = treemap.tree
      /\ z.baseResource = treemap.baseResource
      /\ z.activeResource = treemap.activeResource /\ z.breadcrumbs = treemap.breadcrumbs
      /\ z.isFirstTime = treemap.isFirstTime
      /\ d # NoResource => z.lastClicked = d /\ (treemap.svg => z.shown = d)
  BY <1>1, ZoomedIn DEF z
<1>9. Shows(z, memory, d) /\ z.lastClicked = d
  BY <1>1, <1>2, <1>4, <1>8 DEF Shows
<1> QED
  BY <1>6, <1>7, <1>9, MemoryChosen

LEMMA ZoomedOut == ASSUME MemoryInv, page # "ended", zoomOut PROVE MemoryInv'
<1>1. Shows(treemap, memory, memory.activeResource) /\ TreemapSlice(treemap) /\ Walks(memory)
  BY DEF MemoryInv, Shows
<1> DEFINE b == treemap.breadcrumbs
           d == findNodeByName(b[Len(b)], treemap.tree)
           p == parent(d)
           out == [treemap EXCEPT !.lastClicked = p]
<1>2. out = [treemap EXCEPT !.lastClicked = p]
  OBVIOUS
<1>3. /\ Len(b) > 1 /\ ~IsRoot(d)
      /\ \/ treemap.svg /\ setActiveResource(p, [out EXCEPT !.shown = p])
         \/ /\ On("memory") /\ ~treemap.svg /\ treemap' = out
            /\ UNCHANGED <<loading, rust, memory, memoryStorage, memoryReq, memoryBar>>
  BY DEF zoomOut
<1> HIDE DEF p, out, d
<1>4. out = [svg |-> treemap.svg, tree |-> treemap.tree, shown |-> treemap.shown,
             baseResource |-> treemap.baseResource, activeResource |-> treemap.activeResource,
             lastClicked |-> p, breadcrumbs |-> b, isFirstTime |-> treemap.isFirstTime]
  BY <1>1, <1>2 DEF TreemapSlice
<1>5. CASE ~treemap.svg
  <2>1. /\ page' = page /\ treemap' = out /\ rust' = rust /\ memory' = memory /\ memoryReq' = memoryReq
        /\ memoryBar' = memoryBar
    BY <1>3, <1>5 DEF On
  <2>2. ~treemap.isFirstTime /\ treemap.baseResource = NoResource
    <3>1. b # <<>>
      BY <1>3
    <3> QED
      BY <1>1, <1>5, <3>1 DEF Shows
  <2>3. TreemapSlice(out)
    BY <1>1, <1>4 DEF TreemapSlice
  <2>4. Shows(out, memory, memory.activeResource)
    BY <1>1, <1>4, <1>5, <2>2, <2>3 DEF Shows
  <2> QED
    BY <2>1, <2>4 DEF MemoryInv
<1>6. CASE treemap.svg
  <2> DEFINE z == [out EXCEPT !.shown = p]
  <2>1. z = [out EXCEPT !.shown = p] /\ setActiveResource(p, z)
    BY <1>3, <1>6
  <2> HIDE DEF z
  <2>2. z = [svg |-> treemap.svg, tree |-> treemap.tree, shown |-> p,
             baseResource |-> treemap.baseResource, activeResource |-> treemap.activeResource,
             lastClicked |-> p, breadcrumbs |-> b, isFirstTime |-> treemap.isFirstTime]
    BY <1>4, <2>1
  <2>3. /\ memory.resource # NoResource /\ b = memory.breadcrumbs /\ treemap.tree = memory.resource
        /\ treemap.activeResource = memory.activeResource /\ treemap.baseResource = memory.resource
        /\ ~treemap.isFirstTime
    BY <1>1, <1>6 DEF Shows
  <2>4. /\ Lead(b, memory.resource, memory.activeResource)
        /\ Resource(memory.resource) /\ Of(memory.activeResource, memory.resource)
    BY <1>1, <2>3, ActiveOf
  <2>5. d = memory.activeResource
    <3>1. b[Len(b)] = memory.activeResource
      BY <2>4 DEF Lead
    <3> QED
      BY <2>3, <2>4, <3>1, FindNode DEF d
  <2> DEFINE k == Len(b) - 1
  <2>6. k \in 1..(Len(b) - 1) /\ k \in 1..Len(b) /\ k + 1 = Len(b) /\ DOMAIN b = 1..Len(b)
    BY <1>3, <2>4 DEF Lead
  <2> HIDE DEF k
  <2>7. d \in children(b[k]) /\ Of(b[k], memory.resource)
    BY <2>4, <2>5, <2>6 DEF Lead
  <2>8. p = b[k]
    BY <2>7, ChildFrame DEF p, Of
  <2>9. Choosable(memory, p)
    <3>1. p \in ToSet(memory.breadcrumbs)
      BY <2>3, <2>6, <2>8 DEF ToSet
    <3> QED
      BY <2>7, <2>8, <3>1 DEF Choosable, Of
  <2>10. TreemapSlice(z)
    BY <1>1, <2>2 DEF TreemapSlice
  <2>11. Shows(z, memory, p) /\ z.lastClicked = p
    BY <1>1, <1>6, <2>2, <2>3, <2>10 DEF Shows
  <2> QED
    BY <2>1, <2>9, <2>11, MemoryChosen
<1> QED
  BY <1>1, <1>5, <1>6 DEF TreemapSlice

LEMMA MemoryAnswered == ASSUME MemoryInv, page # "ended", MemoryGetSuccess PROVE MemoryInv'
<1>1. PICK r \in memoryReq, tree \in ProfilerTrees :
        /\ Emit(GetSuccessReduced(mapMemoryResponse(r, tree)), treemap, TRUE)
        /\ memoryReq' = Completed(memoryReq, r)
  BY DEF MemoryGetSuccess
<1> DEFINE root == mapMemoryResponse(r, tree)
           b == <<root>>
           new == GetSuccessReduced(root)
<1>2. /\ page' = page /\ rust' = rust /\ memory' = new /\ memoryBar' = listenToActiveResource(new)
      /\ treemap' = listenToMemoryResourcesChanges(treemap, new, TRUE)
      /\ memoryReq' \subseteq memoryReq
  BY <1>1 DEF MemoryGetSuccess, Emit, Completed
<1>3. r = [node |-> rust, granularity |-> memory.granularity] /\ page = "memory"
  BY <1>1 DEF MemoryInv, MemoryAsked
<1>4. /\ Resource(root) /\ IsRoot(root) /\ root.node = rust /\ root.threshold = memory.granularity
  <2>1. root = [tree |-> tree, path |-> <<>>, node |-> rust, threshold |-> memory.granularity]
    BY <1>3 DEF mapMemoryResponse
  <2>2. <<>> \in tree
    BY MemoryAssumption
  <2> HIDE DEF root
  <2> QED
    BY <2>1, <2>2 DEF Resource, IsRoot
<1>5. root # NoResource
  BY <1>4, ResourcePath
<1> HIDE DEF root
<1>6. new = [memory EXCEPT !.resource = root, !.activeResource = root, !.breadcrumbs = b]
  BY <1>5 DEF GetSuccessReduced
<1>7. Lead(b, root, root)
  BY <1>4, LeadRoot
<1> HIDE DEF b, new
<1>8. new = [resource |-> root, activeResource |-> root, breadcrumbs |-> b,
             granularity |-> memory.granularity, treemapView |-> memory.treemapView]
  BY <1>6 DEF MemoryInv, Walks, MemorySlice
<1>9. Walks(new)
  BY <1>4, <1>7, <1>8 DEF Walks, MemorySlice
<1>10. BarFits(memoryBar', new)
  BY <1>2, <1>5, <1>8, <1>9, BarFollows DEF MemoryInv, BarFits
<1>11. Shows(treemap', new, root)
  <2>1. Shows(treemap, memory, memory.activeResource)
    BY DEF MemoryInv
  <2> QED
    BY <1>2, <1>4, <1>8, <2>1, TreemapAnswered
<1>12. MemoryAsked(new, memoryReq', rust)
  BY <1>2, <1>4, <1>8 DEF MemoryAsked, MemoryInv
<1> QED
  BY <1>2, <1>3, <1>8, <1>9, <1>10, <1>11, <1>12 DEF MemoryInv

\* No tree: an error, or another granularity.
LEMMA MemoryEmptied ==
    ASSUME MemoryInv, page = "memory", page' = page, NEW new, NEW g,
           new = [resource |-> NoResource, activeResource |-> NoResource, breadcrumbs |-> <<>>,
                  granularity |-> g, treemapView |-> memory.treemapView],
           memory' = new, memoryBar' = memoryBar, rust' = rust,
           treemap' = listenToMemoryResourcesChanges(treemap, new, FALSE),
           \A r \in memoryReq' : r = [node |-> rust, granularity |-> g]
    PROVE  MemoryInv'
<1>1. Walks(new)
  BY DEF Walks, MemorySlice
<1>2. BarFits(memoryBar', new)
  BY DEF MemoryInv, BarFits
<1>3. Shows(treemap', new, NoResource)
  <2>1. Shows(treemap, memory, memory.activeResource)
    BY DEF MemoryInv
  <2> QED
    BY <2>1, TreemapEmptied
<1>4. MemoryAsked(new, memoryReq', rust)
  BY DEF MemoryAsked
<1> QED
  BY <1>1, <1>2, <1>3, <1>4 DEF MemoryInv

LEMMA MemoryLost == ASSUME MemoryInv, page # "ended", MemoryGetError \/ setGranularity PROVE MemoryInv'
<1>0. MemorySlice(memory)
  BY DEF MemoryInv, Walks
<1>1. CASE MemoryGetError
  <2> DEFINE new == GetSuccessReduced(NoResource)
             b == <<>>
             g == memory.granularity
  <2>1. /\ page = "memory" /\ page' = page /\ rust' = rust /\ memory' = new
        /\ memoryBar' = listenToActiveResource(new) /\ memoryReq' = {}
        /\ treemap' = listenToMemoryResourcesChanges(treemap, new, FALSE)
    BY <1>1 DEF MemoryGetError, Emit, catchErrorAndRepeat, MemoryInv
  <2>2. new = [memory EXCEPT !.resource = NoResource, !.activeResource = NoResource, !.breadcrumbs = b]
    BY DEF GetSuccessReduced
  <2> HIDE DEF new, b
  <2>3. new = [resource |-> NoResource, activeResource |-> NoResource, breadcrumbs |-> b,
               granularity |-> g, treemapView |-> memory.treemapView]
    BY <1>0, <2>2 DEF MemorySlice
  <2>4. memoryBar' = memoryBar
    BY <2>1, <2>3 DEF listenToActiveResource
  <2> HIDE DEF g
  <2> QED
    BY <2>1, <2>3, <2>4, MemoryEmptied DEF b
<1>2. CASE setGranularity
  <2>1. PICK g \in Granularities :
          LET new == SetGranularityReduced(g)
          IN  /\ memory' = new /\ treemap' = listenToMemoryResourcesChanges(treemap, new, FALSE)
              /\ getStorageResources(new)
    BY <1>2 DEF setGranularity
  <2> DEFINE new == SetGranularityReduced(g)
             b == <<>>
  <2>2. /\ page = "memory" /\ page' = page /\ rust' = rust /\ memory' = new /\ memoryBar' = memoryBar
        /\ memoryReq' = {[node |-> rust', granularity |-> new.granularity]}
        /\ treemap' = listenToMemoryResourcesChanges(treemap, new, FALSE)
    BY <1>2, <2>1 DEF setGranularity, getStorageResources, switchMap, On
  <2>3. new = [memory EXCEPT !.granularity = g, !.resource = NoResource, !.activeResource = NoResource,
                             !.breadcrumbs = b]
    BY DEF SetGranularityReduced
  <2> HIDE DEF new, b
  <2>4. new = [resource |-> NoResource, activeResource |-> NoResource, breadcrumbs |-> b,
               granularity |-> g, treemapView |-> memory.treemapView]
    BY <1>0, <2>3 DEF MemorySlice
  <2>5. \A r \in memoryReq' : r = [node |-> rust, granularity |-> g]
    BY <2>2, <2>4
  <2> QED
    BY <2>2, <2>4, <2>5, MemoryEmptied DEF b
<1> QED
  BY <1>1, <1>2

LEMMA MemoryViewed == ASSUME MemoryInv, page # "ended", setTreemapView PROVE MemoryInv'
<1>1. PICK view \in TreemapViews :
        LET new == [memory EXCEPT !.treemapView = view]
        IN  /\ memory' = new /\ treemap' = listenToMemoryResourcesChanges(treemap, new, FALSE)
            /\ memoryBar' = listenToActiveResource(new)
  BY DEF setTreemapView
<1> DEFINE new == [memory EXCEPT !.treemapView = view]
<1>2. /\ page = "memory" /\ page' = page /\ rust' = rust /\ memoryReq' = memoryReq /\ memory' = new
      /\ treemap' = listenToMemoryResourcesChanges(treemap, new, FALSE)
      /\ memoryBar' = listenToActiveResource(new) /\ new = [memory EXCEPT !.treemapView = view]
  BY <1>1 DEF setTreemapView, On
<1> HIDE DEF new
<1>3. new = [resource |-> memory.resource, activeResource |-> memory.activeResource,
             breadcrumbs |-> memory.breadcrumbs, granularity |-> memory.granularity, treemapView |-> view]
  BY <1>2 DEF MemoryInv, Walks, MemorySlice
<1>4. Walks(new) /\ MemoryAsked(new, memoryReq, rust) /\ BarFits(memoryBar, new)
  BY <1>3 DEF MemoryInv, Walks, MemorySlice, MemoryAsked, BarFits
<1>5. BarFits(memoryBar', new)
  BY <1>2, <1>4, BarFollows DEF BarFits
<1>6. Shows(treemap', new, memory.activeResource)
  <2>1. Shows(treemap, memory, memory.activeResource) /\ Walks(memory)
    BY <1>2 DEF MemoryInv
  <2> QED
    BY <1>2, <1>3, <2>1, TreemapViewed
<1> QED
  BY <1>2, <1>3, <1>4, <1>5, <1>6 DEF MemoryInv

LEMMA MemoryInitial ==
    ASSUME NEW loaded
    PROVE  /\ Walks(initialMemory(loaded)) /\ BarFits(initialBar, initialMemory(loaded))
           /\ initialMemory(loaded).resource = NoResource
           /\ initialMemory(loaded).activeResource = NoResource
           /\ Shows(initialTreemap, initialMemory(loaded), NoResource)
           /\ \A node : MemoryAsked(initialMemory(loaded), {}, node)
<1> DEFINE m == initialMemory(loaded)
           t == initialTreemap
           bar == initialBar
           b == <<>>
           no == FALSE
           yes == TRUE
<1>1. /\ m = [resource |-> NoResource, activeResource |-> NoResource, breadcrumbs |-> b,
              granularity |-> loaded.granularity, treemapView |-> loaded.treemapView]
      /\ bar = [breadcrumbs |-> b, granularity |-> NoGranularity, treemapView |-> NoView]
      /\ t = [svg |-> no, tree |-> NoResource, shown |-> NoResource, baseResource |-> NoResource,
              activeResource |-> NoResource, lastClicked |-> NoResource, breadcrumbs |-> b,
              isFirstTime |-> yes]
  BY DEF initialMemory, initialBar, initialTreemap
<1>2. no \in BOOLEAN /\ yes \in BOOLEAN /\ ~no /\ yes /\ b = <<>> /\ ToSet(b) = {} /\ b \in Seq(ToSet(b))
  BY DEF ToSet
<1> HIDE DEF m, t, bar, b, no, yes
<1>3. Walks(m) /\ m.resource = NoResource /\ m.activeResource = NoResource
  BY <1>1 DEF Walks, MemorySlice
<1>4. BarFits(bar, m)
  BY <1>1, <1>2 DEF BarFits, BarSlice
<1>5. TreemapSlice(t)
  BY <1>1, <1>2 DEF TreemapSlice
<1>6. Shows(t, m, NoResource)
  BY <1>1, <1>2, <1>5 DEF Shows
<1>7. \A node : MemoryAsked(m, {}, node)
  BY <1>3 DEF MemoryAsked
<1> QED
  BY <1>3, <1>4, <1>6, <1>7 DEF m, t, bar

LEMMA MemoryStarts ==
    ASSUME NEW loaded, memory' = initialMemory(loaded), memoryReq' = {}, memoryBar' = initialBar,
           treemap' = initialTreemap
    PROVE  MemoryInv'
BY MemoryInitial DEF MemoryInv

LEMMA MemoryKept == MemoryInv /\ page # "ended" /\ MemoryNext => MemoryInv'
<1> SUFFICES ASSUME MemoryInv, page # "ended" PROVE MemoryNext => MemoryInv'
  OBVIOUS
<1>1. ASSUME MemoryOpen PROVE MemoryInv'
  <2>1. /\ page = "none" /\ page' = "memory" /\ rust' = rust /\ memory' = memory /\ memoryBar' = memoryBar
        /\ treemap' = treemap /\ memoryReq' = {[node |-> rust, granularity |-> memory.granularity]}
    BY <1>1 DEF MemoryOpen, Enter, getStorageResources, switchMap
  <2>2. memory.resource = NoResource
    BY <2>1 DEF MemoryInv
  <2>3. MemoryAsked(memory, memoryReq', rust)
    BY <2>1, <2>2 DEF MemoryAsked
  <2> QED
    BY <2>1, <2>3 DEF MemoryInv
<1>2. ASSUME MemoryNodeChange PROVE MemoryInv'
  <2>1. /\ page = "memory" /\ page' = page /\ memory' = memory /\ memoryBar' = memoryBar
        /\ treemap' = treemap /\ memoryReq' = {[node |-> rust', granularity |-> memory.granularity]}
    BY <1>2 DEF MemoryNodeChange, On, getStorageResources, switchMap
  <2>2. MemoryAsked(memory, memoryReq', rust')
    BY <2>1 DEF MemoryInv, MemoryAsked
  <2> QED
    BY <2>1, <2>2 DEF MemoryInv
<1>3. ASSUME MemoryClose PROVE MemoryInv'
  BY <1>3, MemoryStarts DEF MemoryClose
<1> QED
  BY <1>1, <1>2, <1>3, MemoryAnswered, MemoryLost, RowChosen, BreadcrumbChosen, CellChosen, ZoomedOut,
     ChartRedrawn, MemoryViewed DEF MemoryNext

LEMMA MemoryUndisturbed ==
    ASSUME MemoryInv, NEW p, NEW type, p # "memory", Apart(p, type), page # "ended", UNCHANGED memoryVars
    PROVE  MemoryInv'
<1>1. /\ memory' = memory /\ memoryReq' = memoryReq /\ memoryBar' = memoryBar /\ treemap' = treemap
  BY DEF memoryVars
<1>2. CASE page = "memory"
  BY <1>1, <1>2 DEF Apart, MemoryInv
<1>3. CASE page # "memory"
  <2>1. memory.resource = NoResource /\ memoryReq = {} /\ page' # "memory"
    BY <1>3 DEF MemoryInv, Apart
  <2>2. MemoryAsked(memory, memoryReq, rust')
    BY <2>1 DEF MemoryAsked
  <2> QED
    BY <1>1, <2>1, <2>2 DEF MemoryInv
<1> QED
  BY <1>2, <1>3

LEMMA FuzzingStarts ==
    ASSUME fuzzing' = initialFuzzing, fuzzingReq' = initialFuzzingReq, fuzzingRoute' = initialRoute,
           page' # "fuzzing"
    PROVE  FuzzingInv'
<1> DEFINE w == [slice |-> initialFuzzing, req |-> initialFuzzingReq, route |-> initialRoute]
<1>1. Now' = w
  BY DEF Now
<1>2. RequestsFit(initialFuzzingReq) /\ initialRoute = [dir |-> initialRoute.dir, file |-> initialRoute.file]
  BY DEF RequestsFit, initialFuzzingReq, initialRoute
<1>3. w.slice = initialFuzzing /\ w.req = initialFuzzingReq /\ w.route = initialRoute
      /\ w = [slice |-> w.slice, req |-> w.req, route |-> w.route]
  OBVIOUS
<1> HIDE DEF w
<1>4. WorkClosed(w)
  BY <1>2, <1>3, FuzzingInitial DEF WorkClosed, WorkFits
<1> QED
  BY <1>1, <1>4 DEF FuzzingInv

LEMMA FuzzingUndisturbed ==
    ASSUME FuzzingInv, NEW p, NEW type, p # "fuzzing", Apart(p, type), UNCHANGED fuzzingVars
    PROVE  FuzzingInv'
<1>1. Now' = Now
  BY DEF fuzzingVars, Now
<1>2. page' = "fuzzing" <=> page = "fuzzing"
  BY DEF Apart
<1> QED
  BY <1>1, <1>2 DEF FuzzingInv

ReportsInv == MemoryInv /\ FuzzingInv

LEMMA ReportsInit == NodePagesInit => ReportsInv
<1> SUFFICES ASSUME NodePagesInit PROVE ReportsInv
  OBVIOUS
<1>1. /\ page = "none" /\ memory = initialMemory(stored) /\ memoryReq = {} /\ memoryBar = initialBar
      /\ treemap = initialTreemap
      /\ fuzzing = initialFuzzing /\ fuzzingReq = initialFuzzingReq /\ fuzzingRoute = initialRoute
  BY DEF NodePagesInit, LayoutInit, MemoryInit, FuzzingInit
<1>2. MemoryInv
  BY <1>1, MemoryInitial DEF MemoryInv
<1>3. FuzzingInv
  <2> DEFINE w == [slice |-> initialFuzzing, req |-> initialFuzzingReq, route |-> initialRoute]
  <2>1. Now = w
    BY <1>1 DEF Now
  <2>2. RequestsFit(initialFuzzingReq) /\ initialRoute = [dir |-> initialRoute.dir, file |-> initialRoute.file]
    BY DEF RequestsFit, initialFuzzingReq, initialRoute
  <2>3. w.slice = initialFuzzing /\ w.req = initialFuzzingReq /\ w.route = initialRoute
        /\ w = [slice |-> w.slice, req |-> w.req, route |-> w.route]
    OBVIOUS
  <2> HIDE DEF w
  <2>4. WorkClosed(w)
    BY <2>2, <2>3, FuzzingInitial DEF WorkClosed, WorkFits
  <2> QED
    BY <1>1, <2>1, <2>4 DEF FuzzingInv
<1> QED
  BY <1>2, <1>3 DEF ReportsInv

LEMMA ReportsStep == ReportsInv /\ [NodePagesNext]_allVars => ReportsInv'
<1> SUFFICES ASSUME ReportsInv, [NodePagesNext]_allVars PROVE ReportsInv'
  OBVIOUS
<1>0. MemoryInv /\ FuzzingInv
  BY DEF ReportsInv
<1>1. ASSUME NEW p, NEW type, p \notin {"memory", "fuzzing"}, Apart(p, type), page # "ended",
             UNCHANGED reportVars
      PROVE  ReportsInv'
  BY <1>0, <1>1, MemoryUndisturbed, FuzzingUndisturbed DEF ReportsInv, reportVars
<1>2. CASE page # "ended" /\ OverviewNext /\ UNCHANGED reportVars
  BY <1>1, <1>2, OverviewApart
<1>3. CASE page # "ended" /\ BootstrapNext /\ UNCHANGED reportVars
  BY <1>1, <1>3, BootstrapApart
<1>4. CASE page # "ended" /\ LiveNext /\ UNCHANGED reportVars
  BY <1>1, <1>4, LiveApart
<1>5. CASE page # "ended" /\ EpochNext /\ UNCHANGED reportVars
  BY <1>1, <1>5, EpochApart
<1>6. CASE page # "ended" /\ WonNext /\ UNCHANGED reportVars
  BY <1>1, <1>6, WonApart
<1>7. CASE page # "ended" /\ MemoryNext /\ UNCHANGED fuzzingVars
  BY <1>0, <1>7, MemoryKept, MemoryApart, FuzzingUndisturbed DEF ReportsInv
<1>8. CASE page # "ended" /\ FuzzingNext /\ UNCHANGED memoryVars
  BY <1>0, <1>8, FuzzingKept, FuzzingApart, MemoryUndisturbed DEF ReportsInv
<1>9. CASE PickNode
  <2>1. page = "none" /\ Apart("none", "none") /\ UNCHANGED reportVars
    BY <1>9 DEF PickNode, On, changeRustNode, Apart
  <2> QED
    BY <1>1, <2>1
<1>10. CASE Reload
  <2>1. /\ page' = "none" /\ memory' = initialMemory(memoryStorage.stored) /\ memoryReq' = {}
        /\ memoryBar' = initialBar /\ treemap' = initialTreemap
        /\ fuzzing' = initialFuzzing /\ fuzzingReq' = initialFuzzingReq /\ fuzzingRoute' = initialRoute
    BY <1>10 DEF Reload, MemoryReload
  <2> QED
    BY <2>1, MemoryStarts, FuzzingStarts DEF ReportsInv
<1>11. CASE UNCHANGED allVars
  <2>1. page' = page /\ rust' = rust /\ UNCHANGED memoryVars /\ UNCHANGED fuzzingVars
    BY <1>11 DEF allVars, layoutVars, reportVars
  <2>2. MemoryInv'
    BY <1>0, <2>1 DEF memoryVars, MemoryInv
  <2>3. FuzzingInv'
    BY <1>0, <2>1 DEF fuzzingVars, FuzzingInv, Now
  <2> QED
    BY <2>2, <2>3 DEF ReportsInv
<1> QED
  BY <1>2, <1>3, <1>4, <1>5, <1>6, <1>7, <1>8, <1>9, <1>10, <1>11 DEF NodePagesNext

\* What Resources > Memory and Fuzzing show is one report each, for any nodes,
\* trees of allocations, directories, files, counters and sessions: the ways to
\* walk a tree, which find a frame by the id build gave it, never leave the tree of
\* the answer, and the treemap, which keeps its own copy of what is shown, follows
\* the store; and FuzzingEffects, whose answers come in any order or not at all,
\* never mix two directories or two files.
THEOREM ReportsTheorem == NodePagesSpec => []ReportsSound
<1>1. ReportsInv => ReportsSound
  BY MemoryInvSound, FuzzingInvSound DEF ReportsInv, ReportsSound
<1> QED
  BY <1>1, ReportsInit, ReportsStep, PTL DEF NodePagesSpec, allVars
=============================================================================
