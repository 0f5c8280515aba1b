--------------------------- MODULE NetworkMessages ---------------------------
(***************************************************************************)
(* The page "Network > Messages" of the front end: a table over the        *)
(* messages a debugger records, either live (the newest page is fetched    *)
(* again every ten seconds) or paused, paginated, filtered or restricted   *)
(* to an interval of time.  A message is its id.  The side panel and the   *)
(* fields of the slice it shows are in the module NetworkMessagesPage:     *)
(* the two halves of the slice only meet when a message asked for by the   *)
(* URL becomes the active row, which the panel takes from any message.     *)
(***************************************************************************)
EXTENDS Integers, FiniteSets, FiniteSetsExt, SequencesExt, Rxjs

CONSTANTS MaxMessages,   \* messages the debugger records at most
          Limit,         \* rows of a page (ONE_THOUSAND in the code)
          Filters,       \* values a filter can have
          IntervalFrom, IntervalTo   \* the ends of the interval the user picks

ASSUME MessagesAssumption ==
    /\ MaxMessages \in Nat \ {0} /\ Limit \in Nat \ {0}
    /\ IntervalFrom \in Nat \ {0} /\ IntervalTo \in Nat \ {0}

VARIABLES messages,      \* the slice network.messages of the store
          messagesFx,    \* the fields of NetworkMessagesEffects and its timer
          messagesReq,   \* the requests of each effect
          messagesPage,  \* "closed", "opening" (the table is being imported), "open"
          recorded       \* number of messages recorded by the debugger

messagesVars == <<messages, messagesFx, messagesReq, messagesPage, recorded>>

\* JavaScript's undefined and null, apart from every number that is computed.
Undef == -(MaxMessages + Limit + 1)
Null == Undef - 1
Falsy(x) == x \in {Undef, Null, 0}

Message == 0..(MaxMessages - 1)
NoInterval == [from |-> Undef, to |-> Undef]
Interval == [from |-> IntervalFrom, to |-> IntervalTo]
PageMark == Message \cup {Undef, Null, -1}

NetworkMessagesState ==
    [messages: SUBSET Message,
     activeFilters: SUBSET Filters,
     timestamp: {NoInterval, Interval},
     stream: BOOLEAN,
     direction: {"reverse", "forward", "none"},
     activePage: [start: PageMark, end: PageMark, firstPageIdWithFilters: PageMark,
                  lastPageIdWithFilters: PageMark, firstPageIdWithTimestamp: PageMark,
                  lastPageIdWithTimestamp: PageMark],
     pages: Seq(Message \cup {Undef})]

NoPage == [start |-> Undef, end |-> Undef, firstPageIdWithFilters |-> Undef,
           lastPageIdWithFilters |-> Undef, firstPageIdWithTimestamp |-> Undef,
           lastPageIdWithTimestamp |-> Undef]

initialState ==
    [messages |-> {}, activeFilters |-> {}, timestamp |-> NoInterval, stream |-> FALSE,
     direction |-> "reverse", activePage |-> NoPage, pages |-> <<>>]
-----------------------------------------------------------------------------
(* The debugger.  Its messages are recorded in the order of their ids.     *)

Timestamp(m) == m + 1
Matches(m, filters) == filters = {} \/ m % 2 = 0

\* GET /messages.  A query parameter is appended to the URL only when it is
\* truthy, so an id of 0 asks for what no id asks for.
getNetworkMessages(limit, id, direction, filters, from, to) ==
    LET Wanted == {m \in 0..(recorded - 1) :
                     /\ Matches(m, filters)
                     /\ direction = "forward" =>
                          /\ Falsy(id) \/ m >= id
                          /\ Falsy(from) \/ Timestamp(m) >= from
                          /\ Falsy(to) \/ Timestamp(m) <= to
                     /\ direction = "reverse" =>
                          /\ Falsy(id) \/ m <= id
                          /\ Falsy(from) \/ Timestamp(m) <= from
                          /\ Falsy(to) \/ Timestamp(m) >= to}
        Before(m) == {k \in Wanted : IF direction = "forward" THEN k < m ELSE k > m}
    IN  {m \in Wanted : Cardinality(Before(m)) < limit}

Record == /\ recorded < MaxMessages
          /\ recorded' = recorded + 1
          /\ UNCHANGED <<messages, messagesFx, messagesReq, messagesPage>>
-----------------------------------------------------------------------------
(* The reducer.                                                            *)

setActivePage(page, state) ==
    IF page = {} THEN NoPage
    ELSE LET ap == state.activePage
             timed == ~Falsy(state.timestamp.from)
             Mark(old, unset, new) == IF unset THEN new ELSE old
         IN [start |-> Min(page), end |-> Max(page),
             firstPageIdWithFilters |->
                 Mark(ap.firstPageIdWithFilters, ap.firstPageIdWithFilters = -1, Min(page)),
             lastPageIdWithFilters |->
                 Mark(ap.lastPageIdWithFilters, ap.lastPageIdWithFilters = Null, Max(page)),
             firstPageIdWithTimestamp |->
                 Mark(ap.firstPageIdWithTimestamp,
                      timed /\ Falsy(ap.firstPageIdWithTimestamp), Min(page)),
             lastPageIdWithTimestamp |->
                 Mark(ap.lastPageIdWithTimestamp,
                      timed /\ Falsy(ap.lastPageIdWithTimestamp), Max(page))]

setPages_SkipsEmpty(activePage, state) ==
    IF activePage.end = Undef THEN state.pages
    ELSE SetToSortSeq(ToSet(state.pages) \cup {activePage.end}, <)

\* The order of Array.sort, which keeps undefined at the end.
PageBefore(p, q) == p # Undef /\ (q = Undef \/ p < q)

\* The id of a page is the id of its last message, and every comparison with
\* undefined is false.  The known pages are in order, so that sorting them with
\* a new one puts that in its place.
setPages(activePage, state) ==
    LET id == activePage.end
        pages == state.pages
        newest == IF pages = <<>> THEN Undef ELSE Last(pages)
        smaller == {i \in DOMAIN pages : PageBefore(pages[i], id)}
    IN  IF id \in ToSet(pages) THEN pages
        ELSE IF id # Undef /\ newest # Undef /\ id > newest THEN <<id>>
        ELSE InsertAt(pages, Cardinality(smaller) + 1, id)

GetMessagesReduced(state) == [state EXCEPT !.activePage.firstPageIdWithFilters = Null]

GetMessagesSuccessReduced(state, page) ==
    LET activePage == setActivePage(page, state)
    IN  [state EXCEPT !.messages = page, !.activePage = activePage,
                      !.pages = setPages(activePage, state)]

\* NETWORK_TOGGLE_FILTER and NETWORK_GET_SPECIFIC_MESSAGE.  The conditional of
\* "direction" parses as (payload.direction ?? ...) ? REVERSE : state.direction.
ToggleFilterReduced(state, add, filters, timestamp, direction) ==
    LET active == IF add THEN state.activeFilters \cup filters
                         ELSE state.activeFilters \ filters
        unrestricted == active = {} /\ Falsy(state.timestamp.from)
    IN  [state EXCEPT
            !.activeFilters = active, !.stream = FALSE,
            !.activePage = [NoPage EXCEPT !.firstPageIdWithFilters = Null,
                                          !.lastPageIdWithFilters = Null,
                                          !.firstPageIdWithTimestamp = Null,
                                          !.lastPageIdWithTimestamp = -1],
            !.direction = IF direction # "none" \/ unrestricted THEN "reverse" ELSE @,
            !.timestamp = timestamp, !.pages = <<>>]

\* NETWORK_INIT and NETWORK_GO_LIVE.
LiveReduced(state) ==
    [state EXCEPT !.stream = TRUE, !.activePage.firstPageIdWithFilters = Null]

GetPaginatedReduced(state, id, direction, timestamp) ==
    [state EXCEPT
        !.stream = FALSE, !.direction = direction,
        !.activePage.firstPageIdWithFilters = IF id = 0 THEN -1 ELSE @,
        !.activePage.lastPageIdWithTimestamp =
            IF Falsy(timestamp.to) \/ Falsy(timestamp.from) THEN -1 ELSE Null]

SetTimestampReduced(state, timestamp, direction) ==
    [state EXCEPT
        !.stream = FALSE, !.timestamp = timestamp, !.direction = direction,
        !.activePage = [NoPage EXCEPT !.firstPageIdWithTimestamp = Null,
                                      !.lastPageIdWithTimestamp = -1],
        !.pages = <<>>]
-----------------------------------------------------------------------------
(* The effects.                                                            *)

\* getMessages$: remembers whether the view is live, marks the request as
\* running and replaces the one before it.
GetMessages(state, id, timestamp) ==
    /\ messages' = state
    /\ messagesFx' = [messagesFx EXCEPT !.streamActive = state.stream,
                                        !.waitingForServer = TRUE]
    /\ messagesReq' = [messagesReq EXCEPT !.list = switchMap(@,
          [id |-> id, direction |-> state.direction, filters |-> state.activeFilters,
           from |-> timestamp.from, to |-> timestamp.to])]

\* init$: a new timer; the streams of the other effects go on.
InitEffect(state) ==
    /\ messages' = state
    /\ messagesFx' = [messagesFx EXCEPT !.streamActive = state.stream, !.timer = TRUE]
    /\ UNCHANGED messagesReq

\* timer(10000, 10000) of init$.
Tick == /\ messagesFx.timer /\ messagesFx.streamActive /\ ~messagesFx.waitingForServer
        /\ GetMessages(GetMessagesReduced(messages), Undef, NoInterval)
        /\ UNCHANGED <<messagesPage, recorded>>

\* A request whose direction is undefined is malformed and can only fail.
GetMessagesSuccess ==
    \E r \in messagesReq.list :
        /\ r.direction # "none"
        /\ messages' = GetMessagesSuccessReduced(messages,
              getNetworkMessages(Limit, r.id, r.direction, r.filters, r.from, r.to))
        /\ messagesFx' = [messagesFx EXCEPT !.waitingForServer = FALSE]
        /\ messagesReq' = [messagesReq EXCEPT !.list = Completed(@, r)]
        /\ UNCHANGED <<messagesPage, recorded>>

\* An error is an empty page; the tap that clears waitingForServer is skipped.
GetMessagesError ==
    /\ messagesReq.list # {}
    /\ messages' = GetMessagesSuccessReduced(messages, {})
    /\ messagesReq' = [messagesReq EXCEPT !.list = catchErrorAndRepeat(@)]
    /\ UNCHANGED <<messagesFx, messagesPage, recorded>>

\* getSpecificMessage$: a page of messages around one message.
GetSpecificSuccess ==
    \E r \in messagesReq.specific :
        LET Half(limit, direction) ==
                getNetworkMessages(limit, r.id, direction, r.filters, Undef, r.to)
            first == Half(Limit \div 2, "reverse")
            second == Half(Limit \div 2 + 1, "forward")
            page == first \cup (IF second = {} THEN {} ELSE second \ {Min(second)})
        IN  /\ messages' = GetMessagesSuccessReduced(messages, page)
            /\ messagesReq' = [messagesReq EXCEPT !.specific = Completed(@, r)]
            /\ UNCHANGED <<messagesFx, messagesPage, recorded>>

GetSpecificError ==
    /\ messagesReq.specific # {}
    /\ messagesReq' = [messagesReq EXCEPT !.specific = catchErrorAndRepeat(@)]
    /\ UNCHANGED <<messages, messagesFx, messagesPage, recorded>>

-----------------------------------------------------------------------------
(* The components.                                                         *)

\* NetworkMessagesComponent.ngOnInit: the table is imported asynchronously.
MessagesOpen ==
    /\ messagesPage = "closed" /\ messagesPage' = "opening"
    /\ InitEffect(LiveReduced(messages))
    /\ UNCHANGED recorded

\* listenToActiveNodeChange
MessagesNodeChange ==
    /\ messagesPage # "closed"
    /\ InitEffect(LiveReduced(messages))
    /\ UNCHANGED <<messagesPage, recorded>>

\* listenToRouteChange of the table, once: the first query comes from the URL.
\* Query parameters without a filter set the interval, an empty one when they name
\* none, and without a beginning no direction.
TableInit ==
    /\ messagesPage = "opening" /\ messagesPage' = "open"
    /\ \/ GetMessages(GetMessagesReduced(messages), Undef, NoInterval)
       \/ \E filters \in SUBSET Filters, t \in {NoInterval, Interval} :
            LET direction == IF Falsy(t.from) THEN "none" ELSE "forward"
                toggled == ToggleFilterReduced(messages, TRUE, filters, t, direction)
            IN  \/ \E id \in Message :
                     /\ messages' = toggled
                     /\ messagesFx' = [messagesFx EXCEPT !.streamActive = toggled.stream]
                     /\ messagesReq' = [messagesReq EXCEPT !.specific = switchMap(@,
                           [id |-> id, filters |-> toggled.activeFilters,
                            to |-> toggled.timestamp.to])]
                \/ filters # {} /\ GetMessages(toggled, Undef, t)
                \/ filters = {} /\ GetMessages(SetTimestampReduced(messages, t, direction), Undef, t)
    /\ UNCHANGED recorded

MessagesClose ==
    /\ messagesPage # "closed" /\ messagesPage' = "closed"
    /\ messages' = initialState
    /\ messagesFx' = [messagesFx EXCEPT !.streamActive = FALSE, !.timer = FALSE]
    /\ UNCHANGED <<messagesReq, recorded>>

\* The footer.  Its buttons are disabled on the first and on the last page.
isFirstPage ==
    LET ap == messages.activePage
    IN  \/ ap.start = 0
        \/ Falsy(ap.firstPageIdWithTimestamp) /\ Cardinality(messages.messages) < Limit
        \/ ap.firstPageIdWithFilters = ap.start
        \/ /\ ~Falsy(ap.firstPageIdWithTimestamp)
           /\ ap.start # Undef /\ ap.start <= ap.firstPageIdWithTimestamp

\* The page is the newest one as far as the pages seen tell: the part of
\* isLastPage that needs no activePage.end.
LastKnownPage ==
    LET ap == messages.activePage
    IN  \/ messages.stream
        \/ /\ Falsy(ap.firstPageIdWithTimestamp)
           /\ messages.pages = <<>> \/ ap.end = Last(messages.pages)

isLastPage ==
    \/ LastKnownPage
    \/ messages.activePage.end \in {messages.activePage.lastPageIdWithFilters,
                                    messages.activePage.lastPageIdWithTimestamp}

\* A page asked for by the footer; getMessages$ runs and pause$ after it.
GetPaginated(id, direction, timestamp) ==
    /\ messagesPage = "open"
    /\ GetMessages(GetPaginatedReduced(messages, id, direction, timestamp), id, timestamp)
    /\ UNCHANGED <<messagesPage, recorded>>

timed == ~Falsy(messages.timestamp.from)
UpToEnd == IF timed THEN [from |-> Undef, to |-> messages.timestamp.to] ELSE NoInterval

\* Without a message (start is undefined) the click throws before it dispatches.
previousPage ==
    /\ ~isFirstPage /\ messages.activePage.start # Undef
    /\ IF timed THEN GetPaginated(messages.activePage.start - Limit, "forward", UpToEnd)
                ELSE GetPaginated(messages.activePage.start - 1, "reverse", NoInterval)

nextPage == ~isLastPage /\ GetPaginated(messages.activePage.end + 1, "forward", UpToEnd)

firstPage ==
    /\ ~isFirstPage
    /\ IF timed THEN GetPaginated(messages.activePage.firstPageIdWithTimestamp, "forward", UpToEnd)
                ELSE GetPaginated(0, "forward", NoInterval)

lastPage ==
    /\ ~isLastPage
    /\ IF timed
       THEN GetPaginated(Undef, "reverse",
                         [from |-> messages.timestamp.to, to |-> messages.timestamp.from])
       ELSE GetPaginated(IF messages.pages = <<>> THEN Undef ELSE Last(messages.pages),
                         "reverse", NoInterval)

\* goLive$ sets streamActive once more; the reducer has set it already.
GoLive ==
    /\ messagesPage = "open" /\ GetMessages(LiveReduced(messages), Undef, NoInterval)
    /\ UNCHANGED <<messagesPage, recorded>>

Pause_StoreOnly ==
    /\ messagesPage = "open" /\ messages.stream
    /\ messages' = [messages EXCEPT !.stream = FALSE]
    /\ UNCHANGED <<messagesFx, messagesReq, messagesPage, recorded>>

\* The pause button, scrolling up in the table, and scrollToTop.
Pause ==
    /\ messagesPage = "open" /\ messages.stream
    /\ messages' = [messages EXCEPT !.stream = FALSE]
    /\ messagesFx' = [messagesFx EXCEPT !.streamActive = FALSE]
    /\ UNCHANGED <<messagesReq, messagesPage, recorded>>

\* openIntervalPicker (confirmed) and clearTimestampInterval.
SetInterval ==
    /\ messagesPage = "open"
    /\ \E t \in {NoInterval, Interval} :
         GetMessages(SetTimestampReduced(messages, t, IF t = NoInterval THEN "reverse" ELSE "forward"),
                     Undef, t)
    /\ UNCHANGED <<messagesPage, recorded>>

\* toggleFilter, filterByCategory, filterByAddress and clearFilters: a group of
\* filters is removed when all of it is active, and added otherwise.
ToggleFilter ==
    /\ messagesPage = "open"
    /\ \E fs \in (SUBSET Filters) \ {{}} :
         GetMessages(ToggleFilterReduced(messages, ~(fs \subseteq messages.activeFilters), fs,
                                         messages.timestamp, "none"), Undef, NoInterval)
    /\ UNCHANGED <<messagesPage, recorded>>

-----------------------------------------------------------------------------
MessagesInit ==
    /\ messages = initialState
    /\ messagesFx = [streamActive |-> FALSE, waitingForServer |-> FALSE, timer |-> FALSE]
    /\ messagesReq = [list |-> {}, specific |-> {}]
    /\ messagesPage = "closed" /\ recorded = 1

MessagesAnswers ==
    GetMessagesSuccess \/ GetSpecificSuccess \/ GetMessagesError \/ GetSpecificError

MessagesUser ==
    \/ MessagesOpen \/ MessagesNodeChange \/ TableInit \/ MessagesClose
    \/ previousPage \/ nextPage \/ firstPage \/ lastPage \/ GoLive \/ Pause
    \/ SetInterval \/ ToggleFilter

MessagesNext ==
    Record \/ Tick \/ MessagesAnswers \/ MessagesUser

MessagesSpec == MessagesInit /\ [][MessagesNext]_messagesVars

\* The browser runs timers and imports; the debugger answers or fails.
MessagesFairSpec ==
    /\ MessagesSpec
    /\ WF_messagesVars(Tick) /\ WF_messagesVars(TableInit)
    /\ WF_messagesVars(GetMessagesSuccess \/ GetMessagesError)
-----------------------------------------------------------------------------
(* Properties.                                                             *)

\* The slice has the shape of network-messages.state.ts.
MessagesTypeOK ==
    /\ messages \in NetworkMessagesState
    /\ Cardinality(messagesReq.list) <= 1 /\ Cardinality(messagesReq.specific) <= 1
    /\ recorded \in 0..MaxMessages

\* The copy of "stream" that the effects keep, which decides whether the timer
\* fetches, agrees with the store after every handler: a view shown as paused
\* is never polled, and one shown as live is not forgotten.
StreamMirrored == messagesFx.streamActive = messages.stream

\* listenToNetworkMessages of the footer evaluates isLastPage on every change of
\* the slice and reads activePage.end.id last: whenever it gets that far there
\* is an end, and the page that is shown is one of the pages known, which are in
\* order, so that "last page" leads back to it.
FooterSound ==
    /\ messagesPage # "closed" => LastKnownPage \/ messages.activePage.end # Undef
    /\ messages.activePage.end # Undef => messages.activePage.end \in ToSet(messages.pages)
    /\ \A i, j \in DOMAIN messages.pages : i < j => PageBefore(messages.pages[i], messages.pages[j])

\* In live mode the table keeps being fetched (the test "in live mode messages
\* are retrieved every 10 seconds").  A request that fails leaves
\* waitingForServer set, and the timer never fetches again.
LiveRefreshes ==
    []<>(messagesPage = "open" /\ messages.stream => messagesReq.list # {})

\* What the footer and the table rely on holds in every mode, whichever page,
\* filter or interval was asked for last and in whatever order answers came.
TableSound == MessagesTypeOK /\ FooterSound
=============================================================================
