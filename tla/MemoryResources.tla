--------------------------- MODULE MemoryResources ---------------------------
(***************************************************************************)
(* The page "Resources > Memory": the tree of allocations of the active    *)
(* node's memory profiler, walked through in a table, by breadcrumbs and   *)
(* in a treemap, which each keep what the store last gave them.            *)
(*                                                                         *)
(* A tree is the set of its paths, the root is <<>>.  A resource is a path *)
(* in the tree of an answer.                                               *)
(***************************************************************************)
EXTENDS RustService

CONSTANTS Granularities,   \* the thresholds of the toolbar, in KB
          TreemapViews,    \* the layouts of the treemap
          stored,          \* what local storage holds at first: granularity, treemapView
          ProfilerTrees    \* what a profiler may answer

ASSUME MemoryAssumption ==
    /\ stored \in [granularity : Granularities, treemapView : TreemapViews]
    /\ \A t \in ProfilerTrees :
         /\ IsFiniteSet(t) /\ t \subseteq Seq(Nat) /\ <<>> \in t
         /\ \A p \in t \ {<<>>} : SubSeq(p, 1, Len(p) - 1) \in t

VARIABLES memory,        \* the slice resources.memory
          memoryStorage, \* local storage, and what was read of it at the start
          memoryReq,     \* the request of getResources$
          memoryBar,     \* the copy of the toolbar and the breadcrumbs
          treemap        \* the component of the treemap

memoryVars == <<memory, memoryStorage, memoryReq, memoryBar, treemap>>

NoResource == [none |-> TRUE]
NoView == "undefined"
NoGranularity == 0

initialMemory(loaded) ==
    [resource |-> NoResource, activeResource |-> NoResource, breadcrumbs |-> <<>>,
     granularity |-> loaded.granularity, treemapView |-> loaded.treemapView]

initialBar == [breadcrumbs |-> <<>>, granularity |-> NoGranularity, treemapView |-> NoView]

\* svg: whether the chart is drawn; tree: the root of the last layout; shown: the
\* node whose children are the cells.
initialTreemap ==
    [svg |-> FALSE, tree |-> NoResource, shown |-> NoResource, baseResource |-> NoResource,
     activeResource |-> NoResource, lastClicked |-> NoResource, breadcrumbs |-> <<>>, isFirstTime |-> TRUE]
-----------------------------------------------------------------------------
\* mapMemoryResponse; sizes, names and the order of the children are left out.
mapMemoryResponse(request, tree) ==
    [tree |-> tree, path |-> <<>>, node |-> request.node, threshold |-> request.granularity]

IsRoot(resource) == resource.path = <<>>

children(resource) ==
    {[resource EXCEPT !.path = p] :
        p \in {q \in resource.tree : q # <<>> /\ SubSeq(q, 1, Len(q) - 1) = resource.path}}

parent(resource) == [resource EXCEPT !.path = SubSeq(@, 1, Len(@) - 1)]

\* build: a frame gets its id after its own frames have theirs.  The ids of each
\* answer begin at 0.
nextId(resource) ==
    LET Left(p, q) == \E i \in DOMAIN p \cap DOMAIN q : p[i] < q[i] /\ \A j \in 1..(i - 1) : p[j] = q[j]
    IN  Cardinality({p \in resource.tree \ {resource.path} :
                        IsPrefix(resource.path, p) \/ Left(p, resource.path)})

\* breadcrumbs.findIndex: by the id alone.
findIndex(breadcrumbs, resource) ==
    {i \in DOMAIN breadcrumbs : nextId(breadcrumbs[i]) = nextId(resource)}

SetActiveResourceReduced_Appends(state, payload) ==
    IF state.activeResource = payload THEN state
    ELSE [state EXCEPT !.activeResource = payload,
             !.breadcrumbs = IF IsRoot(payload) THEN <<state.resource>> ELSE Append(@, payload)]

SetActiveResourceReduced(state, payload) ==
    LET index == findIndex(state.breadcrumbs, payload)
    IN  IF state.activeResource = payload THEN state
        ELSE [state EXCEPT !.activeResource = payload,
                 !.breadcrumbs = IF IsRoot(payload) THEN <<state.resource>>
                                 ELSE IF index # {} THEN SubSeq(@, 1, Min(index))
                                 ELSE Append(@, payload)]

GetSuccessReduced(payload) ==
    [memory EXCEPT !.resource = payload, !.activeResource = payload,
                   !.breadcrumbs = IF payload = NoResource THEN <<>> ELSE <<payload>>]

SetGranularityReduced(granularity) ==
    [memory EXCEPT !.granularity = granularity, !.resource = NoResource,
                   !.activeResource = NoResource, !.breadcrumbs = <<>>]
-----------------------------------------------------------------------------
\* The treemap.  A subscriber that throws has done what precedes the error.
findNodeByName(resource, root) ==
    LET found == IF root = NoResource THEN {}
                 ELSE {r \in {[root EXCEPT !.path = p] : p \in root.tree} : nextId(r) = nextId(resource)}
    IN  IF found = {} THEN NoResource ELSE CHOOSE r \in found : TRUE

\* zoomIn without its dispatch.  Without a drawing it ends after the first line.
zoomIn(t, d) ==
    IF d = NoResource THEN t
    ELSE [t EXCEPT !.lastClicked = d, !.shown = IF t.svg THEN d ELSE @]

createTreemapValues(t, resource) == IF resource = NoResource THEN t ELSE [t EXCEPT !.tree = resource]

createChart(t, resource) == [createTreemapValues(t, resource) EXCEPT !.svg = TRUE, !.shown = resource]

\* The four subscriptions, in this order.  An answer is a new object, also when it
\* is like the one before.
onTreemapView(t, new) ==
    IF new.treemapView = memory.treemapView \/ t.baseResource = NoResource THEN t
    ELSE LET laidOut == createTreemapValues(t, t.baseResource)
         IN  zoomIn(laidOut, findNodeByName(t.activeResource, laidOut.tree))

onResource(t, new, isNew) ==
    IF ~isNew /\ new.resource = memory.resource THEN t
    ELSE IF new.resource = NoResource
    THEN [t EXCEPT !.svg = FALSE, !.shown = NoResource, !.isFirstTime = TRUE, !.baseResource = NoResource,
                   !.lastClicked = NoResource]
    ELSE createChart([t EXCEPT !.baseResource = new.resource], new.resource)

onActiveResource(t, new, isNew) ==
    LET resource == new.activeResource
        given == [t EXCEPT !.activeResource = resource, !.isFirstTime = FALSE]
    IN  IF resource = NoResource \/ (~isNew /\ resource = memory.activeResource) THEN t
        ELSE IF t.isFirstTime \/ (~isNew /\ t.lastClicked = resource) THEN given
        ELSE zoomIn([given EXCEPT !.lastClicked = resource], findNodeByName(resource, t.tree))

onBreadcrumbs(t, new) == [t EXCEPT !.breadcrumbs = new.breadcrumbs]

listenToMemoryResourcesChanges(t, new, isNew) ==
    onBreadcrumbs(onActiveResource(onResource(onTreemapView(t, new), new, isNew), new, isNew), new)

\* The toolbar and the breadcrumbs pass over a state without a tree.
listenToActiveResource(new) ==
    IF new.resource = NoResource THEN memoryBar
    ELSE [memoryBar EXCEPT !.breadcrumbs = new.breadcrumbs, !.granularity = new.granularity,
                           !.treemapView = new.treemapView]

\* The store goes to a new state and the components hear of it.
Emit(new, t, isNew) ==
    /\ memory' = new /\ memoryBar' = listenToActiveResource(new)
    /\ treemap' = listenToMemoryResourcesChanges(t, new, isNew)

\* The root chosen while there is no tree leaves a breadcrumb undefined, of which
\* the next choice reads the id.
BreadcrumbUndefined(payload) ==
    NoResource \in ToSet(memory.breadcrumbs) /\ ~IsRoot(payload) /\ payload # memory.activeResource

\* MEMORY_RESOURCES_SET_ACTIVE_RESOURCE, from a treemap that has become t.
setActiveResource(payload, t) ==
    /\ page = "memory"
    /\ IF BreadcrumbUndefined(payload)
       THEN Throws /\ treemap' = t /\ UNCHANGED <<memory, memoryBar>>
       ELSE UNCHANGED page /\ Emit(SetActiveResourceReduced(memory, payload), t, FALSE)
    /\ UNCHANGED <<loading, rust, memoryStorage, memoryReq>>
-----------------------------------------------------------------------------
\* getResources$: asks with the granularity of the store, by switchMap.
getStorageResources(new) ==
    memoryReq' = switchMap(memoryReq, [node |-> rust', granularity |-> new.granularity])

MemoryOpen ==
    /\ Enter("memory") /\ UNCHANGED <<rust, loading, memory, memoryStorage, memoryBar, treemap>>
    /\ getStorageResources(memory)

\* Until the answer the page goes on with the tree of the node before.
MemoryNodeChange ==
    /\ On("memory") /\ changeRustNode /\ getStorageResources(memory)
    /\ UNCHANGED <<loading, memory, memoryStorage, memoryBar, treemap>>

MemoryGetSuccess ==
    /\ \E r \in memoryReq, tree \in ProfilerTrees :
         /\ Emit(GetSuccessReduced(mapMemoryResponse(r, tree)), treemap, TRUE)
         /\ memoryReq' = Completed(memoryReq, r)
    /\ UNCHANGED <<page, loading, rust, memoryStorage>>

\* An error counts as no tree.
MemoryGetError ==
    /\ memoryReq # {} /\ Emit(GetSuccessReduced(NoResource), treemap, FALSE)
    /\ memoryReq' = catchErrorAndRepeat(memoryReq)
    /\ UNCHANGED <<page, loading, rust, memoryStorage>>

\* The table shows the children of the active resource, also without a tree.
MemoryRowClick ==
    /\ memory.activeResource # NoResource
    /\ \E row \in children(memory.activeResource) : children(row) # {} /\ setActiveResource(row, treemap)

MemoryBreadcrumbClick ==
    \E breadcrumb \in ToSet(memoryBar.breadcrumbs) : setActiveResource(breadcrumb, treemap)

back ==
    /\ Len(memoryBar.breadcrumbs) >= 2
    /\ setActiveResource(memoryBar.breadcrumbs[Len(memoryBar.breadcrumbs) - 1], treemap)

\* render: the cells are the children of the node that is shown, and those with
\* children can be clicked.
cells(t) == IF t.svg THEN {d \in children(t.shown) : children(d) # {}} ELSE {}

TreemapClick == \E d \in cells(treemap) : setActiveResource(d, zoomIn(treemap, d))

\* onKeydownHandler, zoomOut.
zoomOut ==
    /\ Len(treemap.breadcrumbs) > 1
    /\ LET d == findNodeByName(treemap.breadcrumbs[Len(treemap.breadcrumbs)], treemap.tree)
           out == [treemap EXCEPT !.lastClicked = parent(d)]
       IN  /\ d # NoResource /\ ~IsRoot(d)
           /\ \/ treemap.svg /\ setActiveResource(parent(d), [out EXCEPT !.shown = parent(d)])
              \/ /\ On("memory") /\ ~treemap.svg /\ treemap' = out
                 /\ UNCHANGED <<loading, rust, memory, memoryStorage, memoryReq, memoryBar>>

\* The window or the menu has changed its width.
redrawChart ==
    /\ treemap.svg
    /\ LET laidOut == createTreemapValues(treemap, treemap.baseResource)
           node == findNodeByName(treemap.activeResource, laidOut.tree)
       IN  node # NoResource /\ setActiveResource(node, zoomIn(laidOut, node))

\* The toolbar compares with its own copy, so while there is no tree a choice of
\* what it still shows is dropped.
setGranularity ==
    /\ On("memory") /\ UNCHANGED <<loading, rust, memoryBar>>
    /\ \E g \in Granularities \ {memoryBar.granularity} :
         LET new == SetGranularityReduced(g)
         IN  /\ memory' = new /\ treemap' = listenToMemoryResourcesChanges(treemap, new, FALSE)
             /\ memoryStorage' = [memoryStorage EXCEPT !.stored.granularity = g] /\ getStorageResources(new)

setTreemapView ==
    /\ On("memory")
    /\ \E view \in TreemapViews \ {memoryBar.treemapView} :
         LET new == [memory EXCEPT !.treemapView = view]
         IN  /\ memory' = new /\ treemap' = listenToMemoryResourcesChanges(treemap, new, FALSE)
             /\ memoryStorage' = [memoryStorage EXCEPT !.stored.treemapView = view]
             /\ memoryBar' = listenToActiveResource(new)
    /\ UNCHANGED <<loading, rust, memoryReq>>

\* Close forgets what was chosen: the slice goes back to what local storage held
\* when the application was loaded.
MemoryClose ==
    /\ Leave("memory") /\ memory' = initialMemory(memoryStorage.loaded)
    /\ memoryReq' = {} /\ memoryBar' = initialBar /\ treemap' = initialTreemap
    /\ UNCHANGED <<rust, loading, memoryStorage>>

\* The application is loaded again.
MemoryReload ==
    /\ memoryStorage' = [memoryStorage EXCEPT !.loaded = memoryStorage.stored]
    /\ memory' = initialMemory(memoryStorage.stored)
    /\ memoryReq' = {} /\ memoryBar' = initialBar /\ treemap' = initialTreemap
-----------------------------------------------------------------------------
MemoryInit ==
    /\ memory = initialMemory(stored) /\ memoryStorage = [stored |-> stored, loaded |-> stored]
    /\ memoryReq = {} /\ memoryBar = initialBar /\ treemap = initialTreemap

MemoryNext ==
    \/ MemoryOpen \/ MemoryNodeChange \/ MemoryGetSuccess \/ MemoryGetError \/ MemoryRowClick
    \/ MemoryBreadcrumbClick \/ back \/ TreemapClick \/ zoomOut \/ redrawChart \/ setGranularity
    \/ setTreemapView \/ MemoryClose

\* The tree on the page was measured with the granularity of the store, of the
\* active node or while the tree of that node is on its way, whatever was picked
\* while requests were running; a page that is left waits for nothing.
MemoryTreeFit ==
    /\ page = "none" => memoryReq = {}
    /\ \A r \in memoryReq : r = [node |-> rust, granularity |-> memory.granularity]
    /\ memory.resource # NoResource =>
         memory.resource.threshold = memory.granularity /\ (memory.resource.node = rust \/ memoryReq # {})

\* Table, breadcrumbs, toolbar and treemap, used in turn, walk one tree: the
\* breadcrumbs lead child by child from its root to the active resource.
BreadcrumbsLead ==
    memory.resource # NoResource =>
        LET b == memory.breadcrumbs
        IN  /\ b # <<>> /\ b[1] = memory.resource /\ b[Len(b)] = memory.activeResource
            /\ \A i \in 1..(Len(b) - 1) : b[i + 1] \in children(b[i])

\* The treemap is drawn while there is a tree, and its cells are the children of
\* the active resource, as in the table, whichever of them was used last.
TreemapFollows ==
    page = "memory" =>
        /\ treemap.svg <=> memory.resource # NoResource
        /\ treemap.svg => treemap.shown = memory.activeResource /\ treemap.baseResource = memory.resource

MemorySound == MemoryTreeFit /\ BreadcrumbsLead /\ TreemapFollows
=============================================================================
