----------------------------- MODULE StateActions -----------------------------
(***************************************************************************)
(* The page "State: Actions": the calls of the node's actions in one slot, *)
(* grouped by the words their names begin with.  The name of an action is  *)
(* the sequence of the words it is made of; all words are equally long.    *)
(***************************************************************************)
EXTENDS RustService

CONSTANTS Slots,           \* the slots a node may name
          ActionsAnswers,  \* /stats/actions: the calls of each action
          SearchWords      \* what the user may search for

ASSUME StateActionsAssumption ==
    /\ Slots \subseteq Nat
    /\ \A a \in ActionsAnswers :
         /\ IsFiniteSet(DOMAIN a) /\ DOMAIN a \subseteq Seq(STRING)
         /\ \A name \in DOMAIN a : a[name] \in Seq([calls: Nat, duration: Nat])

VARIABLES stateActions,     \* the slice state.actions; slotOf: history
          stateActionsReq   \* requests for the latest slot and for actions; force

stateActionsVars == <<stateActions, stateActionsReq>>

NoSlot == -1   \* undefined, or null

initialStateActions ==
    [groups |-> <<>>, filteredGroups |-> <<>>, openSidePanel |-> isDesktop, activeSlot |-> NoSlot,
     earliestSlot |-> NoSlot, activeSearch |-> "", slotOf |-> NoSlot,
     currentSort |-> [sortBy |-> "totalTime", sortDirection |-> "descending"]]

initialStateActionsReq == [earliest |-> {}, actions |-> {}, force |-> FALSE]
-----------------------------------------------------------------------------
getMeanTime(duration, calls) == IF duration # 0 /\ calls # 0 THEN duration \div calls ELSE 0

\* What is left of a prefix when its actions are in no group of a longer one.
freeOf(prefix, names, groups) ==
    {a \in names : IsPrefix(prefix, a)} \ UNION {g.actions : g \in groups}

\* The groups of the prefixes of n words, of two or more actions that are left.
withPrefixes(groups, n, names) ==
    groups \cup {g \in {[groupName |-> SubSeq(a, 1, n), actions |-> freeOf(SubSeq(a, 1, n), names, groups)] :
                          a \in {b \in names : Len(b) >= n}} : Cardinality(g.actions) > 1}

\* getGroupNames: from the longest prefix to the shortest.  An action that is in no
\* group stands alone.
getGroupNames(names) ==
    LET longest == Max({Len(a) : a \in names} \cup {0})
        grouped[k \in 0..longest] ==
            IF k = 0 THEN {} ELSE withPrefixes(grouped[k - 1], longest + 1 - k, names)
        groups == grouped[longest]
    IN  groups \cup {[groupName |-> a, actions |-> {a}] : a \in freeOf(<<>>, names, groups)}

\* mapActions: the columns of an action, and the actions of a group, are added up.
mapGroup(g, response) ==
    LET counts == [a \in g.actions |-> SumFunction([i \in DOMAIN response[a] |-> response[a][i].calls])]
        times == [a \in g.actions |-> SumFunction([i \in DOMAIN response[a] |-> response[a][i].duration])]
        count == SumFunction(counts)
        totalTime == SumFunction(times)
    IN  [groupName |-> g.groupName, display |-> TRUE, count |-> count, totalTime |-> totalTime,
         meanTime |-> getMeanTime(totalTime, count),
         actions |-> {[fullTitle |-> a, display |-> TRUE] : a \in g.actions}]

mapActions(response) == SetToSeq({mapGroup(g, response) : g \in getGroupNames(DOMAIN response)})

\* searchActionsInGroups.  Without a search the actions keep what they are.
searchActionsInGroups(toSearch, groups) ==
    [i \in DOMAIN groups |->
        IF toSearch = "" THEN [groups[i] EXCEPT !.display = TRUE]
        ELSE LET Found(a) == toSearch \in ToSet(a.fullTitle)
             IN  [groups[i] EXCEPT !.actions = {[a EXCEPT !.display = Found(a)] : a \in @},
                                   !.display = \E a \in groups[i].actions : Found(a)]]

GetActionsReduced(slot, response) ==
    LET groups == sort(mapActions(response), stateActions.currentSort)
    IN  [stateActions EXCEPT !.groups = groups, !.slotOf = slot,
            !.filteredGroups = searchActionsInGroups(stateActions.activeSearch, groups)]

SearchReduced_AsGrouped(toSearch) ==
    [stateActions EXCEPT !.activeSearch = toSearch,
        !.filteredGroups = searchActionsInGroups(toSearch, stateActions.groups)]

SearchReduced(toSearch) ==
    [stateActions EXCEPT !.activeSearch = toSearch,
        !.filteredGroups = sort(searchActionsInGroups(toSearch, stateActions.groups), stateActions.currentSort)]
-----------------------------------------------------------------------------
\* getActions$, for the slot GET_ACTIONS has just made the active one.
getActions(req, slot) == [req EXCEPT !.actions = switchMap(@, [slot |-> slot])]

\* The timer of the component starts with the page and with each node.  A slot
\* that is named in the URL is asked for at once.
StateActionsOpen ==
    /\ Enter("state-actions") /\ UNCHANGED <<rust, loading>>
    /\ \E slot \in Slots \cup {NoSlot} :
         /\ stateActions' = [stateActions EXCEPT !.activeSlot = slot]
         /\ stateActionsReq' = [IF slot = NoSlot THEN stateActionsReq ELSE getActions(stateActionsReq, slot)
                                EXCEPT !.force = TRUE]

StateActionsNodeChange ==
    /\ On("state-actions") /\ changeRustNode
    /\ stateActionsReq' = [stateActionsReq EXCEPT !.force = TRUE]
    /\ UNCHANGED <<loading, stateActions>>

\* GET_EARLIEST_SLOT, every 20 seconds.  The active slot is read now and compared
\* with the answer.
checkEarliestSlot ==
    /\ On("state-actions")
    /\ stateActionsReq' = [stateActionsReq EXCEPT !.force = FALSE,
           !.earliest = switchMap(@, [force |-> stateActionsReq.force, activeSlot |-> stateActions.activeSlot])]
    /\ UNCHANGED <<loading, rust, stateActions>>

\* The page is taken to the latest slot when it was forced to, or shows no slot or
\* a later one.
GetEarliestSlotSuccess ==
    /\ \E r \in stateActionsReq.earliest, slot \in Slots :
         LET req == [stateActionsReq EXCEPT !.earliest = Completed(@, r)]
             taken == r.force \/ r.activeSlot = NoSlot \/ r.activeSlot > slot
         IN  /\ stateActions' = [stateActions EXCEPT !.earliestSlot = slot,
                                     !.activeSlot = IF taken THEN slot ELSE @]
             /\ stateActionsReq' = IF taken THEN getActions(req, slot) ELSE req
    /\ UNCHANGED <<page, loading, rust>>

\* After an error the page stays where it is, also when it shows another node's
\* slot: the force is spent.
GetEarliestSlotError ==
    /\ stateActionsReq.earliest # {}
    /\ stateActions' = [stateActions EXCEPT !.earliestSlot = NoSlot]
    /\ stateActionsReq' = [stateActionsReq EXCEPT !.earliest = catchErrorAndRepeat(@)]
    /\ UNCHANGED <<page, loading, rust>>

\* getSlot: the slot before, the one after, and the latest.  The buttons are
\* disabled while the latest slot is not known, or is 0.
getSlot ==
    LET active == stateActions.activeSlot
        latest == stateActions.earliestSlot
        offered == {active - 1} \cup IF latest = active THEN {} ELSE {active + 1, latest}
    IN  /\ On("state-actions") /\ active # NoSlot /\ latest \notin {NoSlot, 0}
        /\ \E slot \in offered \cap Slots :
             /\ stateActions' = [stateActions EXCEPT !.activeSlot = slot]
             /\ stateActionsReq' = getActions(stateActionsReq, slot)
        /\ UNCHANGED <<loading, rust>>

GetActionsSuccess ==
    /\ \E r \in stateActionsReq.actions, response \in ActionsAnswers :
         /\ stateActions' = GetActionsReduced(r.slot, response)
         /\ stateActionsReq' = [stateActionsReq EXCEPT !.actions = Completed(@, r)]
    /\ UNCHANGED <<page, loading, rust>>

\* The payload of the error has no groups: the reducer throws.
GetActionsError ==
    /\ stateActionsReq.actions # {} /\ Throws
    /\ stateActionsReq' = [stateActionsReq EXCEPT !.actions = catchErrorAndRepeat(@)]
    /\ UNCHANGED <<loading, rust, stateActions>>

StateActionsSort ==
    /\ On("state-actions")
    /\ \E column \in {"totalTime", "meanTime", "count"} :
         LET s == sortTable(stateActions.currentSort, column)
         IN  stateActions' = [stateActions EXCEPT !.currentSort = s, !.filteredGroups = sort(@, s)]
    /\ UNCHANGED <<loading, rust, stateActionsReq>>

\* Up to two characters are no search.
StateActionsSearch ==
    /\ On("state-actions")
    /\ \E toSearch \in SearchWords \cup {""} : stateActions' = SearchReduced(toSearch)
    /\ UNCHANGED <<loading, rust, stateActionsReq>>

StateActionsToggleSidePanel ==
    /\ On("state-actions") /\ stateActions' = [stateActions EXCEPT !.openSidePanel = ~@]
    /\ UNCHANGED <<loading, rust, stateActionsReq>>

StateActionsClose ==
    /\ Leave("state-actions") /\ stateActions' = initialStateActions
    /\ stateActionsReq' = initialStateActionsReq
    /\ UNCHANGED <<rust, loading>>
-----------------------------------------------------------------------------
StateActionsInit ==
    stateActions = initialStateActions /\ stateActionsReq = initialStateActionsReq

StateActionsNext ==
    \/ StateActionsOpen \/ StateActionsNodeChange \/ checkEarliestSlot \/ GetEarliestSlotSuccess
    \/ GetEarliestSlotError \/ getSlot \/ GetActionsSuccess \/ GetActionsError \/ StateActionsSort
    \/ StateActionsSearch \/ StateActionsToggleSidePanel \/ StateActionsClose

\* The actions on the page are those of the slot in its toolbar, or these are on
\* their way and no answer for another slot can replace them.
SlotActionsFit ==
    page = "state-actions" /\ stateActions.activeSlot # NoSlot =>
        LET asked == {r.slot : r \in stateActionsReq.actions}
        IN  IF asked = {} THEN stateActions.slotOf = stateActions.activeSlot
                          ELSE asked = {stateActions.activeSlot}

\* Answers, searches and sortings in any order leave on the page what the last
\* search finds in the last answer, sorted as the toolbar says.
ActionsFound ==
    LET Plain(g) == <<g.groupName, {a.fullTitle : a \in g.actions}>>
        Matches(a) == stateActions.activeSearch = "" \/ stateActions.activeSearch \in ToSet(a.fullTitle)
    IN  /\ SortedBy(stateActions.filteredGroups, stateActions.currentSort)
        /\ {Plain(g) : g \in ToSet(stateActions.filteredGroups)} = {Plain(g) : g \in ToSet(stateActions.groups)}
        /\ \A g \in ToSet(stateActions.filteredGroups) :
             /\ \A a \in g.actions : a.display = Matches(a)
             /\ g.display = \E a \in g.actions : a.display

\* The calls of an action are counted in one group, and a group of two or more is
\* of actions that begin with its name.
ActionsGrouped ==
    \A i, j \in DOMAIN stateActions.groups :
        LET Titles(g) == {a.fullTitle : a \in g.actions}
            group == stateActions.groups[i]
        IN  /\ i # j => Titles(group) \cap Titles(stateActions.groups[j]) = {}
            /\ \A t \in Titles(group) : IsPrefix(group.groupName, t)

\* The page shows each action of its slot once, in its group, as searched and sorted.
ActionsSound == SlotActionsFit /\ ActionsFound /\ ActionsGrouped
=============================================================================
