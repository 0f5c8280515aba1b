--------------------------- MODULE BlockProduction ---------------------------
(***************************************************************************)
(* The section "Block Production".  The page "Overview" shows an epoch of  *)
(* the active node, its details and the map of its slots; the answers      *)
(* about an epoch come from requests of three effects.  The page "Won      *)
(* Slots" shows the slots the active node has won, fetched every ten       *)
(* seconds, with one of them in the side panel.  Amounts, ages, stages of  *)
(* production, the statistics of all epochs and the scale of the graphs    *)
(* are left out; an answer about an epoch is known by the node and the     *)
(* epoch it is about.                                                      *)
(***************************************************************************)
EXTENDS RustService, FiniteSetsExt

CONSTANTS LastEpoch,         \* the last epoch the nodes know of
          SLOTS_PER_EPOCH,
          SlotAnswers,       \* what a node may answer for the slots of an epoch, with
                             \* the current slot
          EpochFilters       \* the filters the user changes

ASSUME EpochAssumption ==
    /\ LastEpoch \in Nat /\ SLOTS_PER_EPOCH \in Nat \ {0}
    /\ \A answer \in SlotAnswers : answer.slots \in Seq(ToSet(answer.slots))

VARIABLES bp,       \* the slice blockProduction.overview
          bpReq,    \* the requests of the three effects
          bpUrl,    \* epoch and slot in the URL
          rects     \* the colours in the map of the slots

bpVars == <<bp, bpReq, bpUrl, rects>>

None == -1          \* undefined
NaN == -2           \* Number(undefined), undefined + 1
Falsy == {None, NaN, 0}
NoSource == [node |-> 0, epoch |-> None]

\* activeEpoch is the three parts epochNumber, details and slots.
initialEpoch ==
    [epochs |-> {}, activeEpoch |-> FALSE, epochNumber |-> None, details |-> NoSource,
     slots |-> <<>>, slotsOf |-> NoSource, activeEpochNumber |-> None,
     filters |-> [f \in {"canonical", "orphaned", "missed", "future"} |-> TRUE],
     activeSlot |-> NoRow, activeSlotRoute |-> NaN,
     isLoading |-> TRUE, isCalculatingVRF |-> FALSE]

NoBpReq == [details |-> {}, epochs |-> {}, slots |-> {}]
NoBpUrl == [epoch |-> None, slot |-> NaN]
-----------------------------------------------------------------------------
\* getSlots of the service; the index is 0 when the current slot is elsewhere.
mapSlots(response, currentSlot) ==
    LET current == {i \in DOMAIN response : response[i].global_slot = currentSlot}
        activeSlotIndex == IF current = {} THEN 0 ELSE Min(current)
    IN  [i \in DOMAIN response |->
            LET status == response[i].block_status
            IN  [slot |-> response[i].slot,
                 finished |-> i < activeSlotIndex /\ status # "Empty",
                 canonical |-> status \in {"Canonical", "CanonicalPending"},
                 orphaned |-> status \in {"Orphaned", "OrphanedPending"},
                 missed |-> status = "Missed",
                 futureRights |-> status = "ToBeProduced",
                 active |-> i = activeSlotIndex]]

\* A colour is named for what it stands for and whether it is filtered out.
getSlotColor(d, filters) ==
    IF d.active THEN <<"current", TRUE>>
    ELSE IF d.canonical THEN <<"canonical", filters.canonical>>
    ELSE IF d.orphaned THEN <<"orphaned", filters.orphaned>>
    ELSE IF d.missed THEN <<"missed", filters.missed>>
    ELSE IF d.futureRights THEN <<"future", filters.future>>
    ELSE IF d.finished THEN <<"another producer", TRUE>> ELSE <<"empty", TRUE>>

Colors(state) == [i \in DOMAIN state.slots |-> getSlotColor(state.slots[i], state.filters)]

\* The epochs of the graphs: seven that end three after the given one, or the
\* first seven.
EpochsAnswered(epoch) ==
    LET last == Max({epoch + 3, 6}) IN ((last - 6)..last) \cap 0..LastEpoch

normalView(state) == ~state.isLoading /\ ~state.isCalculatingVRF

\* The map exists in the normal view.  The first slots it is given make its
\* rectangles, later ones recolour the rectangles that are there.
rectsShown(state) ==
    IF ~normalView(state) \/ state.slots = <<>> THEN <<>>
    ELSE IF rects = <<>> THEN Colors(state)
    ELSE [i \in DOMAIN rects |-> IF i \in DOMAIN state.slots THEN Colors(state)[i] ELSE rects[i]]

SetActiveSlotReduced(state, slot) ==
    [state EXCEPT !.activeSlotRoute = slot, !.activeSlot = find(state.slots, "slot", slot)]

GetEpochDetailsReduced_NumberLater(state, epoch) == state

GetEpochDetailsReduced(state, epoch) == [state EXCEPT !.activeEpochNumber = epoch]

\* state.activeEpochNumber || details?.epochNumber
DetailsReduced(state, details) ==
    [state EXCEPT !.details = details, !.activeEpoch = TRUE,
                  !.activeEpochNumber = IF @ \in Falsy THEN details.epoch ELSE @]

\* An epoch that is not in the list leaves the number of the previous one.
EpochsReduced(state, epochs) ==
    [state EXCEPT !.epochs = epochs, !.activeEpoch = TRUE,
                  !.epochNumber = IF state.activeEpochNumber \in epochs
                                  THEN state.activeEpochNumber ELSE @]

\* isCalculatingVRF
calculatingVRF(slots) == Len(slots) \notin {0, SLOTS_PER_EPOCH}

SlotsReduced(state, slots, source) ==
    [state EXCEPT !.slots = slots, !.slotsOf = source, !.activeEpoch = TRUE,
                  !.activeSlot = find(slots, "slot", state.activeSlotRoute),
                  !.isLoading = FALSE, !.isCalculatingVRF = calculatingVRF(slots)]

\* getEpochDetails: the request remembers the slot that is active now.
Asked(req, state, epoch) ==
    [req EXCEPT !.details = switchMap(@, [node |-> rust', epoch |-> epoch,
                                          slot |-> state.activeSlotRoute])]

BpShown(state) == bp' = state /\ rects' = rectsShown(state)

\* listenToNodeChange and listenToRoute: the slot, then the epoch of the URL.
AskForUrl(url) ==
    LET state == GetEpochDetailsReduced(SetActiveSlotReduced(bp, url.slot), url.epoch)
    IN  /\ BpShown(state) /\ bpUrl' = url
        /\ bpReq' = Asked(bpReq, state, url.epoch)
-----------------------------------------------------------------------------
EpochOpen ==
    /\ Enter("bp-overview") /\ UNCHANGED <<loading, rust>>
    /\ \E url \in [epoch: 0..LastEpoch, slot: {NaN, 1}] \cup {NoBpUrl} : AskForUrl(url)

EpochNodeChange ==
    /\ page = "bp-overview" /\ changeRustNode /\ UNCHANGED loading
    /\ bp.activeEpoch => bp.slotsOf # NoSource
    /\ UNCHANGED page /\ AskForUrl(bpUrl)

\* setActiveSlot throws when the active epoch has no slots yet.
EpochNodeChangeThrows ==
    /\ page = "bp-overview" /\ changeRustNode /\ UNCHANGED <<loading, bpVars>>
    /\ bp.activeEpoch /\ bp.slotsOf = NoSource /\ Throws

\* The details name the epoch of the URL and of the two requests that follow.
GetEpochDetailsSuccess ==
    \E r \in bpReq.details :
        LET epoch == IF r.epoch = None THEN LastEpoch ELSE r.epoch
            state == DetailsReduced(bp, [node |-> r.node, epoch |-> epoch])
        IN  /\ epoch \in 0..LastEpoch
            /\ BpShown(state)
            /\ bpUrl' = [epoch |-> epoch, slot |-> IF r.slot \in Falsy THEN NaN ELSE r.slot]
            /\ bpReq' = [bpReq EXCEPT !.details = Completed(@, r),
                   !.epochs = switchMap(@, [node |-> rust, epoch |-> epoch]),
                   !.slots = switchMap(@, [node |-> rust, epoch |-> state.activeEpochNumber])]
            /\ add("Get Slots") /\ UNCHANGED <<page, rust>>

\* Nothing else is asked for, and the page keeps its spinner or its old slots.
GetEpochDetailsError ==
    /\ bpReq.details # {} /\ BpShown(DetailsReduced(bp, NoSource))
    /\ bpReq' = [bpReq EXCEPT !.details = catchErrorAndRepeat(@)]
    /\ UNCHANGED <<page, loading, rust, bpUrl>>

GetEpochsSuccess ==
    \E r \in bpReq.epochs, ok \in BOOLEAN :
        /\ BpShown(EpochsReduced(bp, IF ok THEN EpochsAnswered(r.epoch) ELSE {}))
        /\ bpReq' = [bpReq EXCEPT !.epochs = Completed(@, r)]
        /\ UNCHANGED <<page, loading, rust, bpUrl>>

GetSlotsSuccess ==
    \E r \in bpReq.slots, answer \in SlotAnswers :
        /\ BpShown(SlotsReduced(bp, mapSlots(answer.slots, answer.current), r))
        /\ bpReq' = [bpReq EXCEPT !.slots = Completed(@, r)]
        /\ remove({"Get Slots"}) /\ UNCHANGED <<page, rust, bpUrl>>

GetSlotsError ==
    \E r \in bpReq.slots :
        /\ BpShown(SlotsReduced(bp, <<>>, r))
        /\ bpReq' = [bpReq EXCEPT !.slots = catchErrorAndRepeat(@)]
        /\ remove({"Get Slots"}) /\ UNCHANGED <<page, rust, bpUrl>>

\* The pagination, for which the epoch with rights to come is the last.
changeActiveEpoch ==
    /\ On("bp-overview") /\ normalView(bp) /\ UNCHANGED <<loading, rust, bpUrl>>
    /\ \E epoch \in (IF bp.epochNumber = None THEN {NaN, None}
                     ELSE ({bp.epochNumber - 1} \cap Nat)
                          \cup (IF bp.epochNumber = LastEpoch THEN {} ELSE {bp.epochNumber + 1, None})) :
         LET state == GetEpochDetailsReduced(bp, epoch)
         IN  BpShown(state) /\ bpReq' = Asked(bpReq, state, epoch)

\* A navigation to an epoch without a number fails.
onSlotClick ==
    /\ On("bp-overview") /\ UNCHANGED <<loading, rust, bpReq>>
    /\ \E i \in DOMAIN rects :
         /\ i \in DOMAIN bp.slots /\ BpShown(SetActiveSlotReduced(bp, bp.slots[i].slot))
         /\ bpUrl' = IF bp.epochNumber = None THEN bpUrl
                     ELSE [epoch |-> bp.epochNumber, slot |-> bp.slots[i].slot]

removeActiveSlot ==
    /\ On("bp-overview") /\ normalView(bp) /\ bp.activeSlot # NoRow
    /\ BpShown(SetActiveSlotReduced(bp, None))
    /\ bpUrl' = IF bp.epochNumber = None THEN bpUrl ELSE [epoch |-> bp.epochNumber, slot |-> NaN]
    /\ UNCHANGED <<loading, rust, bpReq>>

EpochChangeFilter ==
    /\ On("bp-overview") /\ normalView(bp) /\ UNCHANGED <<loading, rust, bpReq, bpUrl>>
    /\ \E f \in EpochFilters : BpShown([bp EXCEPT !.filters[f] = ~@])

\* The loading bar goes on: the type that is removed is never added.
EpochClose ==
    /\ Leave("bp-overview") /\ UNCHANGED <<loading, rust>>
    /\ bp' = initialEpoch /\ bpReq' = NoBpReq /\ bpUrl' = NoBpUrl /\ rects' = <<>>
-----------------------------------------------------------------------------
EpochInit == bp = initialEpoch /\ bpReq = NoBpReq /\ bpUrl = NoBpUrl /\ rects = <<>>

EpochNext ==
    \/ EpochOpen \/ EpochNodeChange \/ EpochNodeChangeThrows \/ GetEpochDetailsSuccess
    \/ GetEpochDetailsError \/ GetEpochsSuccess \/ GetSlotsSuccess \/ GetSlotsError
    \/ changeActiveEpoch \/ onSlotClick \/ removeActiveSlot
    \/ EpochChangeFilter \/ EpochClose

\* Once the requests are answered, the details, the slots and the number in
\* the toolbar are about the same epoch of the active node, however the user paged
\* and changed nodes meanwhile.
EpochPartsFit ==
    /\ bpReq.details = {} /\ bpReq.slots = {} /\ bp.details # NoSource =>
          bp.details.node = rust /\ (bp.slots # <<>> => bp.slotsOf = bp.details)
    /\ bpReq.details = {} /\ bpReq.epochs = {} /\ bp.details # NoSource /\ bp.epochs # {} =>
          bp.epochNumber = bp.details.epoch

\* The map of the slots has one rectangle for each slot, in the colour of its
\* present status and of the present filters.
EpochMapDrawn == normalView(bp) => rects = Colors(bp)

\* The slot in the side panel is one of the slots on the map.
EpochSlotShown ==
    bp.activeSlot # NoRow => bp.activeSlot \in ToSet(bp.slots) /\ bp.activeSlot.slot = bp.activeSlotRoute

\* Number, details, slots, map and chosen slot of the page are of one epoch.
EpochSound == EpochPartsFit /\ EpochMapDrawn /\ EpochSlotShown
-----------------------------------------------------------------------------
(* Won Slots.                                                              *)

CONSTANTS WonAnswers,   \* what a node may answer: attempts, future slots and the time
          WonUrls,      \* slots in links to the page and in the pill of the toolbar
          WonFilters,   \* the filters the user changes
          SlotMillis    \* the duration of a slot

\* Attempts and future slots are lists, their slots have a time.
ASSUME WonAssumption ==
    /\ WonUrls \subseteq Nat \ {0} /\ SlotMillis \in Nat \ {0}
    /\ \A answer \in WonAnswers :
         /\ answer.attempts \in Seq(ToSet(answer.attempts)) /\ answer.future \in Seq(ToSet(answer.future))
         /\ answer.now \in Nat
         /\ \A i \in DOMAIN answer.attempts :
              answer.attempts[i].slot_time \in Nat /\ answer.attempts[i].discarded \in BOOLEAN
         /\ \A i \in DOMAIN answer.future : answer.future[i].slot_time \in Nat

VARIABLES won,        \* the slice blockProduction.wonSlots
          wonReq,     \* the request of getSlots$, or the navigation that follows it
          wonUrl,     \* the slot in the URL
          wonTable,   \* the table: its rows, the marked one and the one to scroll to
          wonPanel,   \* the side panel: its slot and its countdown
          wide        \* isDesktop(), for a window that keeps its size

wonVars == <<won, wonReq, wonUrl, wonTable, wonPanel, wide>>

NoSlot == 0
NoZero == [globalSlot |-> 0, status |-> "none"]
NoWonTable == [exists |-> FALSE, rows |-> <<>>, activeRow |-> NoRow, fromRoute |-> NoSlot]
NoWonPanel == [slot |-> NoRow, stopTimer |-> FALSE, stateWhenReachedZero |-> NoZero]

initialWon ==
    [slots |-> <<>>, filteredSlots |-> <<>>, activeSlot |-> NoRow, activeSlotRoute |-> NoSlot,
     openSidePanel |-> wide,
     filters |-> [f \in {"accepted", "orphaned", "upcoming", "discarded"} |-> TRUE],
     sort |-> [sortBy |-> "slotTime", sortDirection |-> "ascending"], serverResponded |-> FALSE]
-----------------------------------------------------------------------------
getActive(attempt, now) ==
    attempt.slot_time <= now /\ now < SlotMillis + attempt.slot_time /\ ~attempt.discarded

\* getSlots of the service.  A future slot has no status.
mapWonSlots(response) ==
    [i \in DOMAIN response.attempts |->
        [globalSlot |-> response.attempts[i].global_slot, slotTime |-> response.attempts[i].slot_time,
         status |-> response.attempts[i].status, active |-> getActive(response.attempts[i], response.now)]]
    \o [i \in DOMAIN response.future |->
        [globalSlot |-> response.future[i].global_slot, slotTime |-> response.future[i].slot_time,
         status |-> "none", active |-> FALSE]]

filterSlots(slots, filters) ==
    filter(slots, {s \in ToSet(slots) :
        \/ s.active \/ s.status \in {"Committed", "Scheduled"}
        \/ filters.accepted /\ s.status = "Canonical"
        \/ filters.orphaned /\ s.status = "Orphaned"
        \/ filters.discarded /\ s.status = "Discarded"
        \/ filters.upcoming /\ s.status = "none"})

\* getSlotsSuccess
WonSlotsReduced(state, slots, activeSlot) ==
    [state EXCEPT !.slots = slots,
                  !.filteredSlots = filterSlots(sort(slots, state.sort), state.filters),
                  !.activeSlot = activeSlot, !.serverResponded = TRUE,
                  !.openSidePanel = IF state.activeSlot # NoRow THEN @ ELSE wide]

WonActiveReduced(state, row) ==
    [state EXCEPT !.activeSlot = row, !.activeSlotRoute = row.globalSlot, !.openSidePanel = TRUE]

\* row ?? other
orElse(row, other) == IF row # NoRow THEN row ELSE other

\* The first slot in production, or committed, or scheduled, or still to come.
defaultSlot(slots) ==
    orElse(find(slots, "active", TRUE),
           orElse(find(slots, "status", "Committed"),
                  orElse(find(slots, "status", "Scheduled"), find(slots, "status", "none"))))

\* "asked" is the state when the request was sent.
newActiveSlot(slots, asked) ==
    LET row == find(slots, "globalSlot", asked.activeSlotRoute)
    IN  IF IF asked.activeSlotRoute = NoSlot THEN wide \/ asked.noSlots ELSE row = NoRow
        THEN defaultSlot(slots) ELSE row

\* The URL names the slot, on a small screen only when it did before.
urlAfter(row, asked) ==
    IF \/ row # NoRow /\ wide
       \/ asked.activeSlotRoute # NoSlot /\ (~asked.hasActive \/ asked.openSidePanel)
    THEN IF row = NoRow THEN NoSlot ELSE row.globalSlot
    ELSE NoSlot
-----------------------------------------------------------------------------
ActiveSlotShown_SomeOnly(table, slot) ==
    IF slot = NoRow THEN table
    ELSE IF table.activeRow = NoRow
    THEN [table EXCEPT !.fromRoute = slot.globalSlot, !.activeRow = slot]
    ELSE [table EXCEPT !.activeRow = slot]

\* listenToActiveSlotChange: the first slot is scrolled to with the next rows.
\* No slot on no slot is an error that changes nothing.
ActiveSlotShown(table, slot) ==
    IF slot # NoRow /\ table.activeRow = NoRow
    THEN [table EXCEPT !.fromRoute = slot.globalSlot, !.activeRow = slot]
    ELSE [table EXCEPT !.activeRow = slot]

\* What a new list does to the table, which exists while there are slots: it
\* scrolls to the slot it remembers and selects it, unless it is the active one.
TableShown(state, url) ==
    LET created == [NoWonTable EXCEPT !.exists = TRUE, !.fromRoute = url]
        marked == ActiveSlotShown(IF wonTable.exists THEN wonTable ELSE created, state.activeSlot)
        table == [marked EXCEPT !.rows = rowsShown(@, state.filteredSlots),
                                !.fromRoute = IF state.filteredSlots = <<>> THEN @ ELSE NoSlot]
        row == IF state.filteredSlots = <<>> THEN NoRow
               ELSE find(state.filteredSlots, "globalSlot", marked.fromRoute)
        clicked == row # NoRow /\ (marked.activeRow = NoRow \/ marked.activeRow.globalSlot # row.globalSlot)
    IN  IF state.slots = <<>> THEN [won |-> state, table |-> NoWonTable, url |-> url]
        ELSE IF clicked
        THEN [won |-> WonActiveReduced(state, row), table |-> ActiveSlotShown(table, row), url |-> row.globalSlot]
        ELSE [won |-> state, table |-> table, url |-> url]

\* listenToActiveSlot of the side panel: a countdown that has ended starts
\* again only when its slot has another status.
PanelShown(panel, slot) ==
    LET zero == panel.stateWhenReachedZero
    IN  IF slot = NoRow THEN panel
        ELSE IF zero = NoZero \/ (zero.globalSlot = slot.globalSlot /\ zero.status # slot.status)
        THEN [slot |-> slot, stopTimer |-> ~slot.active, stateWhenReachedZero |-> NoZero]
        ELSE [panel EXCEPT !.slot = slot]

\* The side panel gives way to the spinner while nothing is there to show.
ToPanel(state) ==
    wonPanel' = IF ~state.serverResponded /\ state.slots = <<>> THEN NoWonPanel
                ELSE PanelShown(wonPanel, state.activeSlot)

WonShown(state, url) ==
    LET shown == TableShown(state, url)
    IN  won' = shown.won /\ wonTable' = shown.table /\ wonUrl' = shown.url /\ ToPanel(shown.won)

\* A selection leaves the rows alone.
WonSelected(state, url) ==
    /\ won' = state /\ wonUrl' = url /\ ToPanel(state)
    /\ wonTable' = IF wonTable.exists THEN ActiveSlotShown(wonTable, state.activeSlot) ELSE wonTable

\* switchMap: a request that is older than the timer is given up.
getSlots(state) ==
    wonReq' = switchMap(wonReq, [sent |-> TRUE, node |-> rust', activeSlotRoute |-> state.activeSlotRoute,
                  noSlots |-> state.slots = <<>>, hasActive |-> state.activeSlot # NoRow,
                  openSidePanel |-> state.openSidePanel])

\* init takes the slot of the URL.
WonAsk(url) ==
    LET state == [won EXCEPT !.activeSlotRoute = url, !.serverResponded = FALSE]
    IN  /\ won' = state /\ wonUrl' = url /\ ToPanel(state) /\ getSlots(state)
        /\ add("Won Slots Init") /\ UNCHANGED <<wonTable, wide>>
-----------------------------------------------------------------------------
WonOpen == Enter("won-slots") /\ UNCHANGED rust /\ \E url \in WonUrls \cup {NoSlot} : WonAsk(url)

WonNodeChange == On("won-slots") /\ changeRustNode /\ WonAsk(wonUrl)

\* timer(10000, 10000)
WonTick ==
    On("won-slots") /\ UNCHANGED rust /\ getSlots(won)
    /\ UNCHANGED <<loading, won, wonUrl, wonTable, wonPanel, wide>>

\* The answer chooses the slot and navigates; the action waits for the router.
WonAnswered ==
    \E r \in wonReq, response \in WonAnswers :
        /\ r.sent
        /\ LET slots == mapWonSlots(response)
               row == newActiveSlot(slots, r)
           IN  /\ wonReq' = {[sent |-> FALSE, slots |-> slots, activeSlot |-> row]}
               /\ wonUrl' = urlAfter(row, r)
        /\ UNCHANGED <<layoutVars, rust, won, wonTable, wonPanel, wide>>

WonSlotsSuccess ==
    \E r \in wonReq :
        /\ ~r.sent /\ wonReq' = Completed(wonReq, r)
        /\ WonShown(WonSlotsReduced(won, r.slots, r.activeSlot), wonUrl)
        /\ remove({"Won Slots Init"}) /\ UNCHANGED <<page, rust, wide>>

WonSlotsError ==
    /\ wonReq # {} /\ wonReq' = catchErrorAndRepeat(wonReq)
    /\ WonShown(WonSlotsReduced(won, <<>>, NoRow), wonUrl)
    /\ remove({"Won Slots Init"}) /\ UNCHANGED <<page, rust, wide>>

WonRowClick ==
    /\ On("won-slots") /\ UNCHANGED <<loading, rust, wonReq, wide>>
    /\ \E row \in ToSet(wonTable.rows) : WonSelected(WonActiveReduced(won, row), row.globalSlot)

\* goToWonSlots of the pill, on this page: setActiveSlotNumber.
WonPill ==
    /\ page = "won-slots" /\ UNCHANGED <<loading, rust, wonReq, wide>>
    /\ \E g \in WonUrls :
         LET row == find(won.slots, "globalSlot", g)
         IN  IF row # NoRow THEN WonSelected(WonActiveReduced(won, row), wonUrl) /\ UNCHANGED page
             ELSE Throws /\ UNCHANGED <<won, wonUrl, wonTable, wonPanel>>

WonSort ==
    /\ On("won-slots") /\ wonTable.exists /\ UNCHANGED <<loading, rust, wonReq, wide>>
    /\ LET s == sortTable(won.sort, "slotTime")
       IN  WonShown([won EXCEPT !.sort = s,
               !.filteredSlots = filterSlots(sort(won.slots, s), won.filters)], wonUrl)

WonChangeFilter ==
    /\ On("won-slots") /\ UNCHANGED <<loading, rust, wonReq, wide>>
    /\ \E f \in WonFilters :
         LET filters == [won.filters EXCEPT ![f] = ~@]
         IN  WonShown([won EXCEPT !.filters = filters,
                 !.filteredSlots = filterSlots(sort(won.slots, won.sort), filters)], wonUrl)

\* The button that closes the side panel, on small screens.
WonClosePanel ==
    /\ On("won-slots") /\ ~wide /\ won.openSidePanel /\ UNCHANGED <<loading, rust, wonReq, wide>>
    /\ WonSelected([won EXCEPT !.openSidePanel = FALSE, !.activeSlot = NoRow, !.activeSlotRoute = NoSlot],
                   NoSlot)

\* The second at which the countdown shows 0s.
WonCountdownEnds ==
    /\ On("won-slots") /\ wonPanel.slot # NoRow /\ ~wonPanel.stopTimer
    /\ wonPanel' = [wonPanel EXCEPT !.stopTimer = TRUE,
           !.stateWhenReachedZero = [globalSlot |-> wonPanel.slot.globalSlot, status |-> wonPanel.slot.status]]
    /\ UNCHANGED <<loading, rust, won, wonReq, wonUrl, wonTable, wide>>

WonClose ==
    /\ Leave("won-slots") /\ remove({"Won Slots Init"}) /\ UNCHANGED <<rust, wide>>
    /\ won' = initialWon /\ wonReq' = {} /\ wonUrl' = NoSlot
    /\ wonTable' = NoWonTable /\ wonPanel' = NoWonPanel
-----------------------------------------------------------------------------
WonInit ==
    /\ wide \in BOOLEAN
    /\ won = initialWon /\ wonReq = {} /\ wonUrl = NoSlot
    /\ wonTable = NoWonTable /\ wonPanel = NoWonPanel

WonNext ==
    \/ WonOpen \/ WonNodeChange \/ WonTick \/ WonAnswered \/ WonSlotsSuccess \/ WonSlotsError
    \/ WonRowClick \/ WonPill \/ WonSort \/ WonChangeFilter \/ WonClosePanel
    \/ WonCountdownEnds \/ WonClose

\* "have slot preselected if a slot is commited or scheduled": on a wide screen
\* such a slot leaves no answer without a selected slot, also when the link
\* names a slot that the node has not won.
WonPreselected ==
    wide /\ won.serverResponded
    /\ (\E s \in ToSet(won.slots) : s.active \/ s.status \in {"Committed", "Scheduled"})
    => won.activeSlot # NoRow

\* The row that is marked is the slot of the store, through answers, clicks,
\* filters and closing the side panel.
WonRowMarked == wonTable.exists => wonTable.activeRow = won.activeSlot

\* The list shows the slots of the last answer through the present filters, in
\* the present order.
WonListFit ==
    /\ won.filteredSlots # <<>> => wonTable.rows = won.filteredSlots
    /\ ToSet(won.filteredSlots) = ToSet(filterSlots(won.slots, won.filters))
    /\ SortedBy(won.filteredSlots, won.sort)

\* The countdown runs for a slot in production only, and not again for one
\* whose time was up while its status is the same.
WonCountdownSound ==
    /\ wonPanel.slot # NoRow /\ ~wonPanel.stopTimer => wonPanel.slot.active
    /\ wonPanel.stateWhenReachedZero # NoZero => wonPanel.stopTimer

\* List, selection, marked row and countdown of the page agree.
WonSound == WonPreselected /\ WonRowMarked /\ WonListFit /\ WonCountdownSound
=============================================================================
