------------------------ MODULE NetworkMessagesProofs ------------------------
(***************************************************************************)
(* Theorems about the page "Network > Messages", for any number of         *)
(* messages, any page size, any filters and rows.                          *)
(***************************************************************************)
EXTENDS NetworkMessagesPage, TLAPS, WellFoundedInduction, SequenceTheorems, FiniteSetTheorems

\* StreamMirrored is inductive together with the fields it reads: an assignment
\* to a field that a record does not have changes nothing.
StreamInv ==
    /\ "stream" \in DOMAIN messages
    /\ "streamActive" \in DOMAIN messagesFx
    /\ StreamMirrored

\* The cases of the reducer keep the fields of the slice; the ones below keep the
\* mode, too.
LEMMA ReducersKeepStream ==
    ASSUME NEW state, "stream" \in DOMAIN state
    PROVE  /\ "stream" \in DOMAIN GetMessagesReduced(state)
           /\ "stream" \in DOMAIN LiveReduced(state)
           /\ \A page : /\ "stream" \in DOMAIN GetMessagesSuccessReduced(state, page)
                        /\ GetMessagesSuccessReduced(state, page).stream = state.stream
           /\ \A add, filters, t, direction :
                 "stream" \in DOMAIN ToggleFilterReduced(state, add, filters, t, direction)
           /\ \A id, direction, t : "stream" \in DOMAIN GetPaginatedReduced(state, id, direction, t)
           /\ \A t, direction : "stream" \in DOMAIN SetTimestampReduced(state, t, direction)
BY DEF GetMessagesReduced, LiveReduced, GetMessagesSuccessReduced, ToggleFilterReduced,
       GetPaginatedReduced, SetTimestampReduced

\* getMessages$ and init$ copy the mode of the state the reducer has made.
LEMMA EffectsMirror ==
    ASSUME NEW state, "stream" \in DOMAIN state, StreamInv
    PROVE  /\ \A id, t : GetMessages(state, id, t) => StreamInv'
           /\ InitEffect(state) => StreamInv'
BY DEF StreamInv, StreamMirrored, GetMessages, InitEffect

LEMMA AnswersMirror ==
    ASSUME StreamInv, MessagesAnswers
    PROVE  StreamInv'
<1>1. CASE GetMessagesSuccess
  BY <1>1, ReducersKeepStream DEF GetMessagesSuccess, StreamInv, StreamMirrored
<1>2. CASE GetMessagesError
  BY <1>2, ReducersKeepStream DEF GetMessagesError, StreamInv, StreamMirrored
<1>3. CASE GetSpecificSuccess
  BY <1>3, ReducersKeepStream DEF GetSpecificSuccess, StreamInv, StreamMirrored
<1>4. CASE GetSpecificError
  BY <1>4 DEF GetSpecificError, StreamInv, StreamMirrored
<1> QED
  BY <1>1, <1>2, <1>3, <1>4 DEF MessagesAnswers

LEMMA TableInitMirrors ==
    ASSUME StreamInv, TableInit
    PROVE  StreamInv'
<1>0. "stream" \in DOMAIN messages
  BY DEF StreamInv
<1>1. CASE GetMessages(GetMessagesReduced(messages), Undef, NoInterval)
  BY <1>0, <1>1, ReducersKeepStream, EffectsMirror
<1>2. CASE \E filters \in SUBSET Filters, t \in {NoInterval, Interval} :
             LET direction == IF Falsy(t.from) THEN "none" ELSE "forward"
                 toggled == ToggleFilterReduced(messages, TRUE, filters, t, direction)
             IN  \/ \E id \in Message :
                      /\ messages' = toggled
                      /\ messagesFx' = [messagesFx EXCEPT !.streamActive = toggled.stream]
                      /\ messagesReq' = [messagesReq EXCEPT !.specific = switchMap(@,
                            [id |-> id, filters |-> toggled.activeFilters,
                             to |-> toggled.timestamp.to])]
                 \/ filters # {} /\ GetMessages(toggled, Undef, t)
                 \/ filters = {} /\ GetMessages(SetTimestampReduced(messages, t, direction), Undef, t)
  <2> PICK filters \in SUBSET Filters, t \in {NoInterval, Interval} :
             LET direction == IF Falsy(t.from) THEN "none" ELSE "forward"
                 toggled == ToggleFilterReduced(messages, TRUE, filters, t, direction)
             IN  \/ /\ messages' = toggled
                    /\ messagesFx' = [messagesFx EXCEPT !.streamActive = toggled.stream]
                 \/ GetMessages(toggled, Undef, t)
                 \/ GetMessages(SetTimestampReduced(messages, t, direction), Undef, t)
    BY <1>2
  <2> DEFINE direction == IF Falsy(t.from) THEN "none" ELSE "forward"
             toggled == ToggleFilterReduced(messages, TRUE, filters, t, direction)
  <2>1. "stream" \in DOMAIN toggled /\ "stream" \in DOMAIN SetTimestampReduced(messages, t, direction)
    BY <1>0, ReducersKeepStream
  <2> HIDE DEF toggled
  <2>2. CASE messages' = toggled /\ messagesFx' = [messagesFx EXCEPT !.streamActive = toggled.stream]
    BY <2>1, <2>2 DEF StreamInv, StreamMirrored
  <2>3. CASE GetMessages(toggled, Undef, t)
    BY <2>1, <2>3, EffectsMirror
  <2>4. CASE GetMessages(SetTimestampReduced(messages, t, direction), Undef, t)
    BY <2>1, <2>4, EffectsMirror
  <2> QED
    BY <2>2, <2>3, <2>4 DEF toggled
<1> QED
  BY <1>1, <1>2 DEF TableInit

LEMMA UserMirrors ==
    ASSUME StreamInv, MessagesUser
    PROVE  StreamInv'
<1>0. "stream" \in DOMAIN messages
  BY DEF StreamInv
<1>1. CASE MessagesOpen \/ MessagesNodeChange
  BY <1>0, <1>1, ReducersKeepStream, EffectsMirror DEF MessagesOpen, MessagesNodeChange
<1>2. CASE TableInit
  BY <1>2, TableInitMirrors
<1>3. CASE MessagesClose
  BY <1>3 DEF MessagesClose, initialState, StreamInv, StreamMirrored
<1>4. ASSUME NEW id, NEW direction, NEW t, GetPaginated(id, direction, t)
      PROVE  StreamInv'
  BY <1>0, <1>4, ReducersKeepStream, EffectsMirror DEF GetPaginated
<1>5. CASE previousPage \/ nextPage \/ firstPage \/ lastPage
  BY <1>4, <1>5 DEF previousPage, nextPage, firstPage, lastPage
<1>6. CASE GoLive
  BY <1>0, <1>6, ReducersKeepStream, EffectsMirror DEF GoLive
<1>7. CASE Pause
  BY <1>7 DEF Pause, StreamInv, StreamMirrored
<1>8. CASE SetInterval
  BY <1>0, <1>8, ReducersKeepStream, EffectsMirror DEF SetInterval
<1>9. CASE ToggleFilter
  BY <1>0, <1>9, ReducersKeepStream, EffectsMirror DEF ToggleFilter
<1> QED
  BY <1>1, <1>2, <1>3, <1>5, <1>6, <1>7, <1>8, <1>9 DEF MessagesUser

LEMMA StepMirrors ==
    ASSUME StreamInv, [MessagesNext]_messagesVars
    PROVE  StreamInv'
<1>1. CASE Record
  BY <1>1 DEF Record, StreamInv, StreamMirrored
<1>2. CASE Tick
  BY <1>2, ReducersKeepStream, EffectsMirror DEF Tick, StreamInv
<1>3. CASE UNCHANGED messagesVars
  BY <1>3 DEF messagesVars, StreamInv, StreamMirrored
<1> QED
  BY <1>1, <1>2, <1>3, AnswersMirror, UserMirrors DEF MessagesNext

\* A step of the page is for the table one of its steps, or none.
LEMMA PageSteps ==
    ASSUME [PageNext]_pageVars
    PROVE  [MessagesNext]_messagesVars
BY DEF PageNext, pageVars, TableSession, PanelSession, PanelUser, PanelServer, MessagesNext,
       MessagesUser, messagesVars

\* On the page of network messages the copy of the mode that the effects keep, and
\* that the timer follows, is the mode that is shown, after any sequence of modes,
\* pages, filters, intervals, rows, answers and failures.
THEOREM StreamTheorem == PageSpec => []StreamMirrored
<1>1. PageInit => StreamInv
  BY DEF PageInit, MessagesInit, initialState, StreamInv, StreamMirrored
<1>2. StreamInv /\ [PageNext]_pageVars => StreamInv'
  BY PageSteps, StepMirrors
<1>3. StreamInv => StreamMirrored
  BY DEF StreamInv
<1> QED
  BY <1>1, <1>2, <1>3, PTL DEF PageSpec
-----------------------------------------------------------------------------
(* The side panel.                                                         *)

PanelTypes ==
    /\ panel \in PanelState
    /\ panelReq \in [full: SUBSET Rows, hex: SUBSET Rows, conn: SUBSET Rows]
    /\ panelShown \in [Details -> Rows \cup {NoRow}]

\* PanelFills speaks of the tab that is looked at.  The details of the other tabs
\* count when the user turns to them: those the slice has are shown, too.
DetailsCopied ==
    panel.activeRow # NoRow => \A d \in Details : panel[d] # NoRow => panelShown[d] = panel[d]

\* A row is active only while there is a panel to show it, so that an answer to a
\* closed page, which no component copies, is to nobody's row.
RowHasPanel == messagesPage = "closed" \/ session = "table" => panel.activeRow = NoRow

PanelInv == PanelTypes /\ PanelFills /\ DetailsCopied /\ RowHasPanel

\* With every detail of the slice the component copies, what was copied stays right,
\* and what is missing was asked for by setActiveRow$.
LEMMA SelectRowFills ==
    ASSUME PanelInv, SelectRow, messagesPage = "open", session = "panel",
           UNCHANGED <<messagesPage, session>>, panelShown' = detailsShown(panel')
    PROVE  PanelInv'
<1> PICK row \in Rows \cup {NoRow} :
           panel' = SetActiveRowReduced(row) /\ panelReq' = setActiveRow(SetActiveRowReduced(row))
  BY DEF SelectRow
<1>1. PanelTypes'
  BY PanelAssumption DEF PanelInv, PanelTypes, PanelState, SetActiveRowReduced, setActiveRow, mergeMap,
       switchMap, detailsShown, Details
<1>2. PanelFills'
  BY <1>1, PanelAssumption DEF PanelTypes, PanelInv, PanelFills, PanelState, SetActiveRowReduced,
       setActiveRow, mergeMap, switchMap
<1>3. DetailsCopied'
  BY DEF PanelInv, PanelTypes, PanelState, DetailsCopied, Details, SetActiveRowReduced
<1>4. RowHasPanel'
  BY DEF RowHasPanel
<1> QED
  BY <1>1, <1>2, <1>3, <1>4 DEF PanelInv

LEMMA SelectTabFills ==
    ASSUME PanelInv, SelectTab, messagesPage = "open", session = "panel",
           UNCHANGED <<messagesPage, session>>, panelShown' = detailsShown(panel')
    PROVE  PanelInv'
<1> PICK tab \in 1..3 :
           panel' = [panel EXCEPT !.activeTab = tab]
           /\ panelReq' = setActiveRow([panel EXCEPT !.activeTab = tab])
  BY DEF SelectTab
<1>1. PanelTypes'
  BY PanelAssumption DEF PanelInv, PanelTypes, PanelState, setActiveRow, mergeMap, switchMap, detailsShown,
       Details
<1>2. DetailsCopied'
  BY DEF PanelInv, PanelTypes, PanelState, DetailsCopied, Details, detailsShown
<1>3. PanelFills'
  BY <1>1, <1>2, PanelAssumption DEF PanelTypes, PanelInv, PanelFills, PanelState, setActiveRow,
       mergeMap, switchMap, DetailsCopied, Details
<1>4. RowHasPanel'
  BY DEF RowHasPanel
<1> QED
  BY <1>1, <1>2, <1>3, <1>4 DEF PanelInv

LEMMA AnswersFill ==
    ASSUME PanelInv, PanelServer, UNCHANGED session
    PROVE  PanelInv'
<1>0. UNCHANGED messagesPage /\ panel \in PanelState
  BY DEF PanelServer, messagesVars, PanelInv, PanelTypes
<1>1. \/ FullMessageProgress
      \/ \E r \in Rows : GetFullMessageSuccess(r) \/ GetMessageHexSuccess(r) \/ GetConnectionSuccess(r)
  BY DEF PanelServer, PanelAnswers
<1>2. panel'.activeRow = panel.activeRow /\ panel'.activeTab = panel.activeTab
  BY <1>0, <1>1 DEF PanelState, FullMessageProgress, GetFullMessageSuccess, GetMessageHexSuccess,
       GetConnectionSuccess
<1>3. panel' \in PanelState
  BY <1>0, <1>1 DEF PanelState, FullMessageProgress, GetFullMessageSuccess, GetMessageHexSuccess,
       GetConnectionSuccess
<1>4. panelReq' \in [full: SUBSET Rows, hex: SUBSET Rows, conn: SUBSET Rows]
  BY <1>1 DEF PanelInv, PanelTypes, FullMessageProgress, GetFullMessageSuccess, GetMessageHexSuccess,
       GetConnectionSuccess, Completed
<1>5. panelShown' \in [Details -> Rows \cup {NoRow}]
  BY <1>3 DEF PanelInv, PanelTypes, PanelServer, detailsShown, Details, PanelState
<1>6. DetailsCopied'
  BY <1>0, <1>2, <1>3 DEF PanelInv, PanelServer, detailsShown, DetailsCopied, Details, RowHasPanel
<1>7. PanelFills'
  <2> SUFFICES ASSUME panel'.activeRow # NoRow
               PROVE  /\ panel'.activeTab = 1 /\ panelReq'.full = {} => panel'.activeRowFullMessage # NoRow
                      /\ panel'.activeTab = 2 /\ panelReq'.hex = {} => panel'.activeRowHex # NoRow
                      /\ panel'.activeTab = 3 /\ panelReq'.conn = {} => panel'.connection # NoRow
    BY <1>3, <1>6 DEF PanelFills, DetailsCopied, Details
  <2>1. CASE FullMessageProgress
    BY <2>1, <1>2 DEF PanelInv, PanelTypes, PanelState, PanelFills, FullMessageProgress
  <2>2. CASE \E r \in Rows : GetFullMessageSuccess(r)
    BY <2>2, <1>2, PanelAssumption DEF PanelInv, PanelTypes, PanelState, PanelFills, GetFullMessageSuccess
  <2>3. CASE \E r \in Rows : GetMessageHexSuccess(r)
    BY <2>3, <1>2, PanelAssumption DEF PanelInv, PanelTypes, PanelState, PanelFills, GetMessageHexSuccess
  <2>4. CASE \E r \in Rows : GetConnectionSuccess(r)
    BY <2>4, <1>2, PanelAssumption DEF PanelInv, PanelTypes, PanelState, PanelFills, GetConnectionSuccess
  <2> QED
    BY <1>1, <2>1, <2>2, <2>3, <2>4
<1>8. RowHasPanel'
  BY <1>0, <1>2 DEF PanelInv, RowHasPanel
<1> QED
  BY <1>3, <1>4, <1>5, <1>6, <1>7, <1>8 DEF PanelInv, PanelTypes

\* The page opens and closes without an active row.
LEMMA OpenCloseFill ==
    ASSUME PanelInv, UNCHANGED session, (MessagesOpen /\ PanelOpen) \/ (MessagesClose /\ PanelClose)
    PROVE  PanelInv'
<1>1. panel'.activeRow = NoRow /\ UNCHANGED panelReq
  BY DEF PanelInv, RowHasPanel, MessagesOpen, PanelOpen, PanelClose, initialPanel
<1>2. PanelTypes'
  BY <1>1 DEF PanelInv, PanelTypes, PanelState, PanelOpen, PanelClose, initialPanel, Details
<1> QED
  BY <1>1, <1>2 DEF PanelInv, PanelTypes, PanelFills, DetailsCopied, RowHasPanel

\* Steps that leave the panel alone.
LEMMA OthersFill ==
    ASSUME PanelInv, UNCHANGED <<panelVars, session>>,
           session = "table" \/ TableInit \/ UNCHANGED messagesPage
    PROVE  PanelInv'
<1>1. UNCHANGED <<panel, panelReq, panelShown>>
  BY DEF panelVars
<1>2. RowHasPanel'
  BY <1>1 DEF PanelInv, RowHasPanel, TableInit
<1> QED
  BY <1>1, <1>2 DEF PanelInv, PanelTypes, PanelFills, DetailsCopied

\* The side panel of the page of network messages does not stay blank, nor with the
\* details of another row: until what is looked at is there its request is on its way.
THEOREM PanelTheorem == PageSpec => []PanelFills
<1>1. PageInit => PanelInv
  BY DEF PageInit, MessagesInit, PanelInit, initialPanel, PanelInv, PanelTypes, PanelState, PanelFills,
       DetailsCopied, RowHasPanel, Details
<1>2. ASSUME PanelInv, [PageNext]_pageVars
      PROVE  PanelInv'
  <2>1. CASE TableSession /\ UNCHANGED session
    BY <1>2, <2>1, OthersFill DEF TableSession
  <2>2. CASE PanelSession /\ UNCHANGED session
    <3>1. CASE (MessagesOpen /\ PanelOpen) \/ (MessagesClose /\ PanelClose)
      BY <1>2, <2>2, <3>1, OpenCloseFill
    <3>2. CASE TableInit /\ UNCHANGED panelVars
      BY <1>2, <2>2, <3>2, OthersFill
    <3>3. CASE PanelUser
      BY <1>2, <2>2, <3>3, SelectRowFills, SelectTabFills DEF PanelSession, PanelUser, messagesVars
    <3>4. CASE PanelServer
      BY <1>2, <2>2, <3>4, AnswersFill
    <3> QED
      BY <2>2, <3>1, <3>2, <3>3, <3>4 DEF PanelSession
  <2>3. CASE UNCHANGED pageVars
    BY <1>2, <2>3, OthersFill DEF pageVars, messagesVars
  <2> QED
    BY <1>2, <2>1, <2>2, <2>3 DEF PageNext
<1>3. PanelInv => PanelFills
  BY DEF PanelInv
<1> QED
  BY <1>1, <1>2, <1>3, PTL DEF PageSpec

-----------------------------------------------------------------------------
(* The table.                                                              *)

\* A non-empty set of natural numbers has a least element.
LEMMA LeastNumber ==
    ASSUME NEW S \in SUBSET Nat, S # {}
    PROVE  \E n \in S : \A m \in S : n =< m
<1> DEFINE R == OpToRel(<, Nat)
<1>1. PICK n \in S : \A m \in S : ~ (<<m, n>> \in R)
  <2> HIDE DEF R
  <2> QED
    BY NatLessThanWellFounded, WFMin DEF R
<1>2. \A m \in S : ~ (m < n)
  BY <1>1 DEF OpToRel
<1> QED
  BY <1>2

\* The first and the last message of a page are messages of it.
LEMMA PageEnds ==
    ASSUME NEW page \in SUBSET Message, page # {}
    PROVE  Min(page) \in page /\ Max(page) \in page
<1>1. page \in SUBSET Nat /\ \A m \in page : m < MaxMessages /\ MaxMessages \in Nat
  BY MessagesAssumption DEF Message
<1>2. \E n \in page : \A m \in page : n =< m
  BY <1>1, LeastNumber
<1> DEFINE up == {n \in Nat : \A m \in page : m =< n}
<1>3. up \in SUBSET Nat /\ up # {}
  <2>1. MaxMessages \in Nat /\ \A m \in page : m =< MaxMessages
    BY <1>1, MessagesAssumption DEF Message
  <2>2. MaxMessages \in up
    BY <2>1
  <2> QED
    BY <2>2
<1>4. PICK n \in up : \A m \in up : n =< m
  <2> HIDE DEF up
  <2> QED
    BY <1>3, LeastNumber
<1>5. n \in page
  <2> SUFFICES ASSUME n \notin page PROVE FALSE
    OBVIOUS
  <2>1. PICK m \in page : TRUE
    OBVIOUS
  <2>2. n \in Nat /\ n # 0 /\ \A k \in page : k =< n - 1
    BY <1>1, <2>1
  <2>3. n - 1 \in up
    BY <2>2
  <2> QED
    BY <1>4, <2>2, <2>3
<1>6. \E k \in page : \A m \in page : k >= m
  BY <1>1, <1>4, <1>5
<1> QED
  BY <1>2, <1>6 DEF Min, Max

PageIds == Message \cup {Undef}

LEMMA UndefApart ==
    /\ Undef \in Int /\ Undef < 0 /\ Null \in Int /\ Null # Undef /\ Null < 0
    /\ Message \subseteq Nat /\ Undef \notin Message
BY MessagesAssumption DEF Undef, Null, Message

InOrder(pages) == \A i, j \in DOMAIN pages : i < j => PageBefore(pages[i], pages[j])

\* The order of the pages is that of numbers, with undefined as the greatest.
LEMMA PagesOrdered ==
    ASSUME NEW p \in PageIds, NEW q \in PageIds
    PROVE  /\ p # q => PageBefore(p, q) \/ PageBefore(q, p)
           /\ ~PageBefore(p, p)
           /\ \A r \in PageIds : PageBefore(p, q) /\ PageBefore(q, r) => PageBefore(p, r)
BY UndefApart DEF PageBefore, PageIds

\* The pages before a new one are the first pages.
LEMMA SmallerFirst ==
    ASSUME NEW pages \in Seq(PageIds), InOrder(pages), NEW id \in PageIds
    PROVE  LET smaller == {i \in DOMAIN pages : PageBefore(pages[i], id)}
           IN  /\ Cardinality(smaller) \in 0..Len(pages)
               /\ smaller = 1..Cardinality(smaller)
<1> DEFINE smaller == {i \in DOMAIN pages : PageBefore(pages[i], id)}
           n == Len(pages)
           rest == (1..(n + 1)) \ smaller
<1>1. DOMAIN pages = 1..n /\ n \in Nat /\ \A i \in 1..n : pages[i] \in PageIds
  OBVIOUS
<1>2. rest \in SUBSET Nat /\ n + 1 \in rest
  BY <1>1
<1>3. PICK k \in rest : \A m \in rest : k =< m
  <2> HIDE DEF rest
  <2> QED
    BY <1>2, LeastNumber
<1>4. k \in Nat /\ k >= 1 /\ k =< n + 1
  BY <1>1, <1>3
<1>5. ASSUME NEW i \in smaller PROVE i < k
  <2> SUFFICES ASSUME ~(i < k) PROVE FALSE
    OBVIOUS
  <2>1. i \in 1..n /\ k \in 1..n /\ k < i /\ PageBefore(pages[i], id) /\ ~PageBefore(pages[k], id)
    BY <1>1, <1>3, <1>4
  <2>2. PageBefore(pages[k], pages[i])
    BY <1>1, <2>1 DEF InOrder
  <2> QED
    BY <1>1, <2>1, <2>2, PagesOrdered
<1>6. ASSUME NEW i \in 1..(k - 1) PROVE i \in smaller
  BY <1>1, <1>3, <1>4
<1>7. smaller = 1..(k - 1)
  BY <1>1, <1>4, <1>5, <1>6
<1> HIDE DEF smaller
<1>8. Cardinality(smaller) = k - 1
  BY <1>4, <1>7, FS_Interval
<1>9. Cardinality(smaller) \in 0..Len(pages) /\ smaller = 1..Cardinality(smaller)
  BY <1>1, <1>4, <1>7, <1>8
<1> QED
  BY <1>9 DEF smaller

\* What InsertAt returns.
LEMMA Inserted ==
    ASSUME NEW T, NEW s \in Seq(T), NEW k \in 1..(Len(s) + 1), NEW e \in T
    PROVE  LET q == InsertAt(s, k, e)
           IN  /\ q \in Seq(T) /\ Len(q) = Len(s) + 1
               /\ \A i \in 1..(k - 1) : q[i] = s[i]
               /\ q[k] = e
               /\ \A i \in (k + 1)..(Len(s) + 1) : q[i] = s[i - 1]
<1> DEFINE a == SubSeq(s, 1, k - 1)
           b == SubSeq(s, k, Len(s))
           c == <<e>>
           ac == a \o c
           q == ac \o b
<1>0. Len(s) \in Nat /\ k \in Int
  OBVIOUS
<1>1. a \in Seq(T) /\ Len(a) = k - 1 /\ \A i \in 1..(k - 1) : a[i] = s[i]
  <2>1. \A i \in 1..(k - 1) : i \in DOMAIN s
    BY <1>0
  <2> QED
    BY <1>0, <2>1, SubSeqProperties
<1>2. b \in Seq(T) /\ Len(b) = Len(s) - k + 1 /\ \A i \in 1..(Len(s) - k + 1) : b[i] = s[k + i - 1]
  BY <1>0, SubSeqProperties
<1>3. c \in Seq(T) /\ Len(c) = 1 /\ c[1] = e
  OBVIOUS
<1> HIDE DEF a, b, c
<1>4. ac \in Seq(T) /\ Len(ac) = k /\ (\A i \in 1..(k - 1) : ac[i] = s[i]) /\ ac[k] = e
  <2>1. /\ ac \in Seq(T) /\ Len(ac) = Len(a) + Len(c)
        /\ \A i \in 1..(Len(a) + Len(c)) : ac[i] = IF i <= Len(a) THEN a[i] ELSE c[i - Len(a)]
    BY <1>1, <1>3, ConcatProperties
  <2> HIDE DEF ac
  <2>2. /\ Len(ac) = k /\ \A i \in 1..(k - 1) : ac[i] = a[i]
        /\ ac[k] = c[k - (k - 1)]
    BY <1>0, <1>1, <1>3, <2>1
  <2>3. k - (k - 1) = 1
    BY <1>0
  <2> QED
    BY <1>1, <1>3, <2>1, <2>2, <2>3
<1> HIDE DEF ac
<1>5. q \in Seq(T) /\ Len(q) = Len(s) + 1 /\ (\A i \in 1..k : q[i] = ac[i])
      /\ (\A i \in (k + 1)..(Len(s) + 1) : q[i] = b[i - k])
  <2>1. /\ q \in Seq(T) /\ Len(q) = Len(ac) + Len(b)
        /\ \A i \in 1..(Len(ac) + Len(b)) : q[i] = IF i <= Len(ac) THEN ac[i] ELSE b[i - Len(ac)]
    BY <1>2, <1>4, ConcatProperties
  <2> HIDE DEF q
  <2> QED
    BY <1>0, <1>2, <1>4, <2>1
<1>6. ASSUME NEW i \in (k + 1)..(Len(s) + 1) PROVE b[i - k] = s[i - 1]
  <2>1. i - k \in 1..(Len(s) - k + 1) /\ k + (i - k) - 1 = i - 1
    BY <1>0
  <2> QED
    BY <1>2, <2>1
<1>7. q = InsertAt(s, k, e)
  BY DEF InsertAt, a, b, c, ac
<1> HIDE DEF q
<1> QED
  BY <1>0, <1>4, <1>5, <1>6, <1>7

\* A new page is put in its place.
LEMMA PageInserted ==
    ASSUME NEW pages \in Seq(PageIds), InOrder(pages), NEW id \in PageIds, id \notin ToSet(pages)
    PROVE  LET smaller == {i \in DOMAIN pages : PageBefore(pages[i], id)}
               q == InsertAt(pages, Cardinality(smaller) + 1, id)
           IN  /\ q \in Seq(PageIds) /\ InOrder(q) /\ id \in ToSet(q)
               /\ q # <<>> /\ (id = Undef => Last(q) = Undef)
<1> DEFINE smaller == {i \in DOMAIN pages : PageBefore(pages[i], id)}
           k == Cardinality(smaller) + 1
           n == Len(pages)
           q == InsertAt(pages, k, id)
<1>1. DOMAIN pages = 1..n /\ n \in Nat /\ \A i \in 1..n : pages[i] \in PageIds /\ pages[i] # id
  BY DEF ToSet
<1>2. k \in 1..(n + 1) /\ smaller = 1..(k - 1)
  BY <1>1, SmallerFirst
<1>3. \A i \in 1..(k - 1) : PageBefore(pages[i], id)
  BY <1>2
<1>4. ASSUME NEW i \in k..n PROVE PageBefore(id, pages[i])
  <2>1. i \in 1..n /\ i \notin 1..(k - 1)
    BY <1>1, <1>2
  <2>2. ~PageBefore(pages[i], id)
    BY <1>1, <1>2, <2>1
  <2> QED
    BY <1>1, <2>1, <2>2, PagesOrdered
<1> HIDE DEF k, smaller
<1>5. /\ q \in Seq(PageIds) /\ Len(q) = n + 1 /\ q[k] = id
      /\ \A i \in 1..(k - 1) : q[i] = pages[i]
      /\ \A i \in (k + 1)..(n + 1) : q[i] = pages[i - 1]
  BY <1>2, Inserted
<1> HIDE DEF q
<1>6. DOMAIN q = 1..(n + 1)
  BY <1>5
<1>7. ASSUME NEW i \in 1..(n + 1), NEW j \in 1..(n + 1), i < j PROVE PageBefore(q[i], q[j])
  <2>1. CASE j < k
    BY <1>1, <1>2, <1>5, <1>7, <2>1 DEF InOrder
  <2>2. CASE j = k
    BY <1>1, <1>2, <1>3, <1>5, <1>7, <2>2
  <2>3. CASE j > k /\ i < k
    <3>1. q[i] = pages[i] /\ q[j] = pages[j - 1] /\ i \in 1..n /\ j - 1 \in 1..n /\ i < j - 1
      BY <1>1, <1>2, <1>5, <1>7, <2>3
    <3> QED
      BY <1>1, <3>1 DEF InOrder
  <2>4. CASE j > k /\ i = k
    <3>1. q[i] = id /\ q[j] = pages[j - 1] /\ j - 1 \in k..n
      BY <1>1, <1>2, <1>5, <1>7, <2>4
    <3> QED
      BY <1>4, <3>1
  <2>5. CASE j > k /\ i > k
    <3>1. q[i] = pages[i - 1] /\ q[j] = pages[j - 1] /\ i - 1 \in 1..n /\ j - 1 \in 1..n /\ i - 1 < j - 1
      BY <1>1, <1>2, <1>5, <1>7, <2>5
    <3> QED
      BY <1>1, <3>1 DEF InOrder
  <2> QED
    BY <1>1, <1>2, <2>1, <2>2, <2>3, <2>4, <2>5
<1>8. InOrder(q)
  BY <1>6, <1>7 DEF InOrder
<1>9. id \in ToSet(q) /\ q # <<>>
  BY <1>1, <1>2, <1>5, <1>6 DEF ToSet
<1>10. ASSUME id = Undef PROVE Last(q) = Undef
  <2>1. \A i \in k..n : FALSE
    BY <1>4, <1>10 DEF PageBefore
  <2>2. k = n + 1
    BY <1>1, <1>2, <2>1
  <2> QED
    BY <1>5, <1>10, <2>2 DEF Last
<1> QED
  BY <1>5, <1>8, <1>9, <1>10 DEF q, k, smaller

\* What the table's half of the slice satisfies between handlers.  Without a last
\* message on the page there is no interval of time in force, and the newest page
\* known, if any, is that page without messages.
EndFits(m) ==
    /\ m.activePage.end # Undef => m.activePage.end \in ToSet(m.pages)
    /\ m.activePage.end = Undef =>
         /\ Falsy(m.activePage.firstPageIdWithTimestamp)
         /\ m.pages = <<>> \/ Last(m.pages) = Undef

TableFits(m) == m \in NetworkMessagesState /\ InOrder(m.pages) /\ EndFits(m)

AtMostOne(requests) == requests = {} \/ \E r : requests = {r}

TableInv ==
    /\ TableFits(messages)
    /\ messagesReq = [list |-> messagesReq.list, specific |-> messagesReq.specific]
    /\ AtMostOne(messagesReq.list) /\ AtMostOne(messagesReq.specific)
    /\ recorded \in 0..MaxMessages

PageMarks == [start: PageMark, end: PageMark, firstPageIdWithFilters: PageMark,
              lastPageIdWithFilters: PageMark, firstPageIdWithTimestamp: PageMark,
              lastPageIdWithTimestamp: PageMark]

\* A page without pages before it is in order.
LEMMA NoPages == <<>> \in Seq(PageIds) /\ InOrder(<<>>)
BY DEF InOrder

\* setActivePage: the last message of an answer is one of its messages.
LEMMA ActivePageSet ==
    ASSUME NEW m, TableFits(m), NEW page \in SUBSET Message
    PROVE  LET ap == setActivePage(page, m)
           IN  /\ ap \in PageMarks
               /\ ap.end \in PageIds
               /\ ap.end = Undef => Falsy(ap.firstPageIdWithTimestamp)
<1>0. m.activePage \in PageMarks
  BY DEF TableFits, NetworkMessagesState, PageMarks
<1>1. CASE page = {}
  BY <1>1 DEF setActivePage, NoPage, PageMarks, PageMark, PageIds, Falsy
<1>2. CASE page # {}
  <2> DEFINE ap == setActivePage(page, m)
             lo == Min(page)
             hi == Max(page)
  <2>1. lo \in Message /\ hi \in Message /\ Message \subseteq PageMark
    BY <1>2, PageEnds DEF PageMark
  <2> HIDE DEF lo, hi
  <2>2. ap = [start |-> lo, end |-> hi, firstPageIdWithFilters |-> ap.firstPageIdWithFilters,
              lastPageIdWithFilters |-> ap.lastPageIdWithFilters,
              firstPageIdWithTimestamp |-> ap.firstPageIdWithTimestamp,
              lastPageIdWithTimestamp |-> ap.lastPageIdWithTimestamp]
    BY <1>2 DEF setActivePage, lo, hi
  <2>3. /\ ap.firstPageIdWithFilters \in {lo, m.activePage.firstPageIdWithFilters}
        /\ ap.lastPageIdWithFilters \in {hi, m.activePage.lastPageIdWithFilters}
        /\ ap.firstPageIdWithTimestamp \in {lo, m.activePage.firstPageIdWithTimestamp}
        /\ ap.lastPageIdWithTimestamp \in {hi, m.activePage.lastPageIdWithTimestamp}
    BY <1>2 DEF setActivePage, lo, hi
  <2> HIDE DEF ap
  <2>4. ap.end = hi /\ ap \in PageMarks
    BY <1>0, <2>1, <2>2, <2>3 DEF PageMarks
  <2> QED
    BY <2>1, <2>4, UndefApart DEF PageIds, ap
<1> QED
  BY <1>1, <1>2

\* setPages: the page that is shown becomes one of the pages known.
LEMMA PagesSet ==
    ASSUME NEW m, TableFits(m), NEW ap, ap.end \in PageIds
    PROVE  LET q == setPages(ap, m)
           IN  /\ q \in Seq(PageIds) /\ InOrder(q) /\ ap.end \in ToSet(q)
               /\ ap.end = Undef => Last(q) = Undef
<1> DEFINE id == ap.end
           pages == m.pages
           smaller == {i \in DOMAIN pages : PageBefore(pages[i], id)}
           q == setPages(ap, m)
<1>1. pages \in Seq(PageIds) /\ InOrder(pages)
  BY DEF TableFits, NetworkMessagesState, PageIds
<1> HIDE DEF id, pages
<1>2. CASE id \in ToSet(pages)
  <2>1. q = pages
    BY <1>2 DEF setPages, id, pages
  <2>2. PICK i \in DOMAIN pages : pages[i] = id
    BY <1>2 DEF ToSet
  <2>3. ASSUME id = Undef PROVE Last(pages) = Undef
    <3>1. ~(i < Len(pages))
      <4> SUFFICES ASSUME i < Len(pages) PROVE FALSE
        OBVIOUS
      <4>1. PageBefore(pages[i], pages[Len(pages)])
        BY <1>1 DEF InOrder
      <4> QED
        BY <2>2, <2>3, <4>1 DEF PageBefore
    <3>2. i = Len(pages)
      BY <1>1, <3>1
    <3> QED
      BY <2>2, <2>3, <3>2 DEF Last
  <2> QED
    BY <1>1, <1>2, <2>1, <2>3 DEF id
<1>3. CASE id \notin ToSet(pages) /\ q = <<id>> /\ id # Undef
  <2> HIDE DEF q
  <2>1. q \in Seq(PageIds) /\ DOMAIN q = {1} /\ q[1] = id
    BY <1>3 DEF id
  <2>2. InOrder(q) /\ id \in ToSet(q)
    BY <2>1 DEF InOrder, ToSet
  <2> QED
    BY <1>3, <2>1, <2>2 DEF id, q
<1>4. CASE id \notin ToSet(pages) /\ q = InsertAt(pages, Cardinality(smaller) + 1, id)
  <2> HIDE DEF q
  <2>1. /\ q \in Seq(PageIds) /\ InOrder(q) /\ id \in ToSet(q) /\ (id = Undef => Last(q) = Undef)
    <3>1. id \in PageIds
      BY DEF id
    <3> QED
      BY <1>1, <1>4, <3>1, PageInserted
  <2> QED
    BY <2>1 DEF id, q
<1> QED
  BY <1>2, <1>3, <1>4 DEF setPages, id, pages

\* The reducer's cases keep the slice in order.
LEMMA AnswerFits ==
    ASSUME NEW m, TableFits(m), NEW page \in SUBSET Message
    PROVE  TableFits(GetMessagesSuccessReduced(m, page))
<1> DEFINE ap == setActivePage(page, m)
           q == setPages(ap, m)
           s == GetMessagesSuccessReduced(m, page)
<1>1. ap \in PageMarks /\ ap.end \in PageIds /\ (ap.end = Undef => Falsy(ap.firstPageIdWithTimestamp))
  BY ActivePageSet
<1>2. q \in Seq(PageIds) /\ InOrder(q) /\ ap.end \in ToSet(q) /\ (ap.end = Undef => Last(q) = Undef)
  <2> HIDE DEF ap
  <2> QED
    BY <1>1, PagesSet
<1>3. s = [m EXCEPT !.messages = page, !.activePage = ap, !.pages = q]
  BY DEF GetMessagesSuccessReduced
<1> HIDE DEF ap, q, s
<1>4. s \in NetworkMessagesState /\ s.activePage = ap /\ s.pages = q
  BY <1>1, <1>2, <1>3 DEF TableFits, NetworkMessagesState, PageMarks, PageIds
<1> QED
  BY <1>1, <1>2, <1>4 DEF TableFits, EndFits, s

\* NETWORK_GET_MESSAGES, NETWORK_INIT, NETWORK_GO_LIVE, NETWORK_PAUSE and the pages
\* of the footer change neither the page shown nor the pages known.
LEMMA ModesFit ==
    ASSUME NEW m, TableFits(m)
    PROVE  /\ TableFits(GetMessagesReduced(m))
           /\ TableFits(LiveReduced(m))
           /\ TableFits([m EXCEPT !.stream = FALSE])
           /\ \A id, t : \A direction \in {"reverse", "forward", "none"} :
                TableFits(GetPaginatedReduced(m, id, direction, t))
<1>1. ASSUME NEW s \in NetworkMessagesState, s.pages = m.pages, s.activePage.end = m.activePage.end,
             s.activePage.firstPageIdWithTimestamp = m.activePage.firstPageIdWithTimestamp
      PROVE  TableFits(s)
  BY <1>1 DEF TableFits, EndFits
<1>2. m \in NetworkMessagesState /\ m.activePage \in PageMarks /\ {Null, -1} \subseteq PageMark
  BY DEF TableFits, NetworkMessagesState, PageMark, PageMarks
<1>3. ASSUME NEW a \in PageMark, NEW b \in PageMark, NEW stream \in BOOLEAN, NEW direction \in {"reverse", "forward", "none"}
      PROVE  LET ap == [m.activePage EXCEPT !.firstPageIdWithFilters = a, !.lastPageIdWithTimestamp = b]
                 s == [m EXCEPT !.stream = stream, !.direction = direction, !.activePage = ap]
             IN  TableFits(s)
  <2> DEFINE ap == [m.activePage EXCEPT !.firstPageIdWithFilters = a, !.lastPageIdWithTimestamp = b]
             s == [m EXCEPT !.stream = stream, !.direction = direction, !.activePage = ap]
  <2>1. ap \in PageMarks /\ ap.end = m.activePage.end
        /\ ap.firstPageIdWithTimestamp = m.activePage.firstPageIdWithTimestamp
    BY <1>2 DEF PageMarks
  <2> HIDE DEF ap
  <2>2. s \in NetworkMessagesState /\ s.pages = m.pages /\ s.activePage = ap
    BY <1>2, <2>1 DEF NetworkMessagesState, PageMarks
  <2> HIDE DEF s
  <2>3. TableFits(s)
    BY <1>1, <2>1, <2>2
  <2> QED
    BY <2>3 DEF s, ap
<1> DEFINE fit(a, b, stream, direction) ==
             [m EXCEPT !.stream = stream, !.direction = direction,
                       !.activePage = [m.activePage EXCEPT !.firstPageIdWithFilters = a,
                                                           !.lastPageIdWithTimestamp = b]]
           ap0 == m.activePage
<1>4. /\ m.stream \in BOOLEAN /\ m.direction \in {"reverse", "forward", "none"}
      /\ ap0.firstPageIdWithFilters \in PageMark /\ ap0.lastPageIdWithTimestamp \in PageMark
  BY <1>2 DEF NetworkMessagesState, PageMarks
<1>5. /\ GetMessagesReduced(m) = fit(Null, ap0.lastPageIdWithTimestamp, m.stream, m.direction)
      /\ LiveReduced(m) = fit(Null, ap0.lastPageIdWithTimestamp, TRUE, m.direction)
      /\ [m EXCEPT !.stream = FALSE]
           = fit(ap0.firstPageIdWithFilters, ap0.lastPageIdWithTimestamp, FALSE, m.direction)
  BY <1>2 DEF GetMessagesReduced, LiveReduced, NetworkMessagesState, PageMarks
<1>6. ASSUME NEW id, NEW t, NEW direction \in {"reverse", "forward", "none"}
      PROVE  TableFits(GetPaginatedReduced(m, id, direction, t))
  <2> DEFINE a == IF id = 0 THEN -1 ELSE ap0.firstPageIdWithFilters
             b == IF Falsy(t.to) \/ Falsy(t.from) THEN -1 ELSE Null
  <2>1. a \in PageMark /\ b \in PageMark
    BY <1>2, <1>4
  <2>2. GetPaginatedReduced(m, id, direction, t)
          = [m EXCEPT !.stream = FALSE, !.direction = direction,
                      !.activePage.firstPageIdWithFilters = a,
                      !.activePage.lastPageIdWithTimestamp = b]
    BY <1>2 DEF GetPaginatedReduced, NetworkMessagesState
  <2> HIDE DEF a, b
  <2>3. GetPaginatedReduced(m, id, direction, t) = fit(a, b, FALSE, direction)
    BY <1>2, <2>2 DEF NetworkMessagesState, PageMarks
  <2>4. FALSE \in BOOLEAN
    OBVIOUS
  <2>5. TableFits(fit(a, b, FALSE, direction))
    BY <1>3, <2>1, <2>4
  <2> HIDE DEF fit
  <2> QED
    BY <2>3, <2>5
<1>7. TRUE \in BOOLEAN /\ FALSE \in BOOLEAN
  OBVIOUS
<1>8. /\ TableFits(fit(Null, ap0.lastPageIdWithTimestamp, m.stream, m.direction))
      /\ TableFits(fit(Null, ap0.lastPageIdWithTimestamp, TRUE, m.direction))
      /\ TableFits(fit(ap0.firstPageIdWithFilters, ap0.lastPageIdWithTimestamp, FALSE, m.direction))
  BY <1>2, <1>3, <1>4, <1>7
<1> QED
  BY <1>5, <1>6, <1>8

\* Filters and intervals forget the pages known.
LEMMA QueriesFit ==
    ASSUME NEW m, TableFits(m), NEW t \in {NoInterval, Interval}
    PROVE  /\ \A direction \in {"reverse", "forward", "none"} : TableFits(SetTimestampReduced(m, t, direction))
           /\ \A add \in BOOLEAN, filters \in SUBSET Filters : \A direction :
                TableFits(ToggleFilterReduced(m, add, filters, t, direction))
<1>1. m \in NetworkMessagesState /\ {Undef, Null, -1} \subseteq PageMark
  BY DEF TableFits, PageMark
<1>2. ASSUME NEW s \in NetworkMessagesState, s.pages = <<>>, s.activePage.end = Undef,
             s.activePage.firstPageIdWithTimestamp = Null
      PROVE  TableFits(s)
  BY <1>2, NoPages DEF TableFits, EndFits, Falsy
<1>3. ASSUME NEW direction \in {"reverse", "forward", "none"}
      PROVE  TableFits(SetTimestampReduced(m, t, direction))
  <2> DEFINE s == SetTimestampReduced(m, t, direction)
  <2>1. s \in NetworkMessagesState /\ s.pages = <<>> /\ s.activePage.end = Undef
        /\ s.activePage.firstPageIdWithTimestamp = Null
    <3> DEFINE ap == [NoPage EXCEPT !.firstPageIdWithTimestamp = Null, !.lastPageIdWithTimestamp = -1]
               none == <<>>
    <3>0. ap = [NoPage EXCEPT !.firstPageIdWithTimestamp = Null, !.lastPageIdWithTimestamp = -1]
          /\ none \in Seq(PageIds)
      OBVIOUS
    <3>1. ap \in PageMarks /\ ap.end = Undef /\ ap.firstPageIdWithTimestamp = Null
      <4> HIDE DEF ap
      <4> QED
        BY <1>1, <3>0 DEF NoPage, PageMarks
    <3>2. s = [m EXCEPT !.stream = FALSE, !.timestamp = t, !.direction = direction, !.activePage = ap,
                        !.pages = none]
      BY DEF SetTimestampReduced
    <3> HIDE DEF ap, none, s
    <3>3. s \in NetworkMessagesState /\ s.pages = none /\ s.activePage = ap
      BY <1>1, <3>0, <3>1, <3>2 DEF NetworkMessagesState, PageMarks, PageIds
    <3> QED
      BY <3>1, <3>3 DEF none
  <2> HIDE DEF s
  <2>2. TableFits(s)
    BY <1>2, <2>1
  <2> QED
    BY <2>2 DEF s
<1>4. ASSUME NEW add \in BOOLEAN, NEW filters \in SUBSET Filters, NEW direction
      PROVE  TableFits(ToggleFilterReduced(m, add, filters, t, direction))
  <2> DEFINE s == ToggleFilterReduced(m, add, filters, t, direction)
  <2>1. s \in NetworkMessagesState /\ s.pages = <<>> /\ s.activePage.end = Undef
        /\ s.activePage.firstPageIdWithTimestamp = Null
    <3> DEFINE ap == [NoPage EXCEPT !.firstPageIdWithFilters = Null, !.lastPageIdWithFilters = Null,
                                    !.firstPageIdWithTimestamp = Null, !.lastPageIdWithTimestamp = -1]
               none == <<>>
               active == IF add THEN m.activeFilters \cup filters ELSE m.activeFilters \ filters
               turned == IF direction # "none" \/ (active = {} /\ Falsy(m.timestamp.from))
                         THEN "reverse" ELSE m.direction
    <3>0. ap = [NoPage EXCEPT !.firstPageIdWithFilters = Null, !.lastPageIdWithFilters = Null,
                              !.firstPageIdWithTimestamp = Null, !.lastPageIdWithTimestamp = -1]
          /\ none \in Seq(PageIds)
      OBVIOUS
    <3>1. ap \in PageMarks /\ ap.end = Undef /\ ap.firstPageIdWithTimestamp = Null
      <4> HIDE DEF ap
      <4> QED
        BY <1>1, <3>0 DEF NoPage, PageMarks
    <3>2. active \in SUBSET Filters /\ turned \in {"reverse", "forward", "none"}
      BY <1>1 DEF NetworkMessagesState
    <3>3. s = [m EXCEPT !.activeFilters = active, !.stream = FALSE, !.activePage = ap,
                        !.direction = turned, !.timestamp = t, !.pages = none]
      BY <1>1 DEF ToggleFilterReduced, NetworkMessagesState
    <3> HIDE DEF ap, none, active, turned, s
    <3>4. s \in NetworkMessagesState /\ s.pages = none /\ s.activePage = ap
      BY <1>1, <3>0, <3>1, <3>2, <3>3 DEF NetworkMessagesState, PageMarks, PageIds
    <3> QED
      BY <3>1, <3>4 DEF none
  <2> HIDE DEF s
  <2>2. TableFits(s)
    BY <1>2, <2>1
  <2> QED
    BY <2>2 DEF s
<1> QED
  BY <1>3, <1>4

LEMMA InitialFits == TableFits(initialState)
BY NoPages DEF initialState, NoPage, NoInterval, TableFits, EndFits, NetworkMessagesState, PageMark,
       PageIds, Falsy

\* getMessages$ and init$ keep what the reducer has left; an effect has one request.
LEMMA EffectsFit ==
    ASSUME TableInv, NEW state, TableFits(state), UNCHANGED recorded
    PROVE  /\ \A id, t : GetMessages(state, id, t) => TableInv'
           /\ InitEffect(state) => TableInv'
<1>1. ASSUME NEW r, messagesReq' = [messagesReq EXCEPT !.list = {r}], messages' = state PROVE TableInv'
  BY <1>1 DEF TableInv, AtMostOne, TableFits, EndFits, InOrder
<1>2. ASSUME UNCHANGED messagesReq, messages' = state PROVE TableInv'
  BY <1>2 DEF TableInv, AtMostOne, TableFits, EndFits, InOrder
<1> QED
  BY <1>1, <1>2 DEF GetMessages, InitEffect, switchMap

\* The debugger answers with messages it has recorded.
LEMMA AnswersRecorded ==
    ASSUME TableInv, NEW limit, NEW id, NEW direction, NEW filters, NEW from, NEW to
    PROVE  getNetworkMessages(limit, id, direction, filters, from, to) \in SUBSET Message
BY MessagesAssumption DEF TableInv, getNetworkMessages, Message

LEMMA AnswersFit ==
    ASSUME TableInv, MessagesAnswers
    PROVE  TableInv'
<1>0. TableFits(messages)
  BY DEF TableInv
<1>1. ASSUME NEW page \in SUBSET Message, messages' = GetMessagesSuccessReduced(messages, page)
      PROVE  TableFits(messages')
  BY <1>0, <1>1, AnswerFits
<1>2. ASSUME TableFits(messages'), UNCHANGED recorded, NEW r,
             \/ messagesReq' = [messagesReq EXCEPT !.list = Completed(@, r)] /\ r \in messagesReq.list
             \/ messagesReq' = [messagesReq EXCEPT !.specific = Completed(@, r)] /\ r \in messagesReq.specific
             \/ messagesReq' = [messagesReq EXCEPT !.list = {}]
             \/ messagesReq' = [messagesReq EXCEPT !.specific = {}]
      PROVE  TableInv'
  <2>1. ASSUME NEW requests, AtMostOne(requests), r \in requests PROVE Completed(requests, r) = {}
    BY <2>1 DEF AtMostOne, Completed
  <2>2. \/ messagesReq' = [messagesReq EXCEPT !.list = {}]
        \/ messagesReq' = [messagesReq EXCEPT !.specific = {}]
    BY <1>2, <2>1 DEF TableInv
  <2>3. TableFits(messages)'
    BY <1>2 DEF TableFits, EndFits, InOrder
  <2> QED
    BY <1>2, <2>2, <2>3 DEF TableInv, AtMostOne
<1>3. CASE GetMessagesSuccess
  <2> PICK r \in messagesReq.list :
        /\ messages' = GetMessagesSuccessReduced(messages,
              getNetworkMessages(Limit, r.id, r.direction, r.filters, r.from, r.to))
        /\ messagesReq' = [messagesReq EXCEPT !.list = Completed(@, r)]
        /\ UNCHANGED recorded
    BY <1>3 DEF GetMessagesSuccess
  <2> DEFINE page == getNetworkMessages(Limit, r.id, r.direction, r.filters, r.from, r.to)
  <2>1. page \in SUBSET Message
    BY AnswersRecorded
  <2> HIDE DEF page
  <2>2. TableFits(messages')
    BY <1>1, <2>1 DEF page
  <2> QED
    BY <1>2, <2>2
<1>4. CASE GetMessagesError
  <2>1. {} \in SUBSET Message
    OBVIOUS
  <2>2. messages' = GetMessagesSuccessReduced(messages, {}) /\ UNCHANGED recorded
        /\ messagesReq' = [messagesReq EXCEPT !.list = {}]
    BY <1>4 DEF GetMessagesError, catchErrorAndRepeat
  <2>3. TableFits(messages')
    BY <1>1, <2>1, <2>2
  <2> QED
    BY <1>2, <2>2, <2>3
<1>5. CASE GetSpecificSuccess
  <2> PICK r \in messagesReq.specific :
        LET Half(limit, direction) == getNetworkMessages(limit, r.id, direction, r.filters, Undef, r.to)
            first == Half(Limit \div 2, "reverse")
            second == Half(Limit \div 2 + 1, "forward")
            page == first \cup (IF second = {} THEN {} ELSE second \ {Min(second)})
        IN  /\ messages' = GetMessagesSuccessReduced(messages, page)
            /\ messagesReq' = [messagesReq EXCEPT !.specific = Completed(@, r)]
            /\ UNCHANGED <<messagesFx, messagesPage, recorded>>
    BY <1>5 DEF GetSpecificSuccess
  <2> DEFINE first == getNetworkMessages(Limit \div 2, r.id, "reverse", r.filters, Undef, r.to)
             second == getNetworkMessages(Limit \div 2 + 1, r.id, "forward", r.filters, Undef, r.to)
             page == first \cup (IF second = {} THEN {} ELSE second \ {Min(second)})
  <2>1. first \in SUBSET Message /\ second \in SUBSET Message
    BY AnswersRecorded
  <2>2. messages' = GetMessagesSuccessReduced(messages, page)
        /\ messagesReq' = [messagesReq EXCEPT !.specific = Completed(@, r)] /\ UNCHANGED recorded
    OBVIOUS
  <2> HIDE DEF first, second
  <2>3. page \in SUBSET Message
    BY <2>1
  <2> HIDE DEF page
  <2> QED
    BY <1>1, <1>2, <2>2, <2>3
<1>6. CASE GetSpecificError
  BY <1>0, <1>2, <1>6 DEF GetSpecificError, catchErrorAndRepeat
<1> QED
  BY <1>3, <1>4, <1>5, <1>6 DEF MessagesAnswers

LEMMA TableInitFits ==
    ASSUME TableInv, TableInit
    PROVE  TableInv'
<1>0. TableFits(messages) /\ UNCHANGED recorded
  BY DEF TableInv, TableInit
<1>3. TRUE \in BOOLEAN
  OBVIOUS
<1>1. CASE GetMessages(GetMessagesReduced(messages), Undef, NoInterval)
  BY <1>0, <1>1, ModesFit, EffectsFit
<1>2. CASE \E filters \in SUBSET Filters, t \in {NoInterval, Interval} :
             LET direction == IF Falsy(t.from) THEN "none" ELSE "forward"
                 toggled == ToggleFilterReduced(messages, TRUE, filters, t, direction)
             IN  \/ \E id \in Message :
                      /\ messages' = toggled
                      /\ messagesFx' = [messagesFx EXCEPT !.streamActive = toggled.stream]
                      /\ messagesReq' = [messagesReq EXCEPT !.specific = switchMap(@,
                            [id |-> id, filters |-> toggled.activeFilters,
                             to |-> toggled.timestamp.to])]
                 \/ filters # {} /\ GetMessages(toggled, Undef, t)
                 \/ filters = {} /\ GetMessages(SetTimestampReduced(messages, t, direction), Undef, t)
  <2> PICK filters \in SUBSET Filters, t \in {NoInterval, Interval} :
             LET direction == IF Falsy(t.from) THEN "none" ELSE "forward"
                 toggled == ToggleFilterReduced(messages, TRUE, filters, t, direction)
             IN  \/ /\ messages' = toggled
                    /\ \E r : messagesReq' = [messagesReq EXCEPT !.specific = {r}]
                 \/ GetMessages(toggled, Undef, t)
                 \/ GetMessages(SetTimestampReduced(messages, t, direction), Undef, t)
    BY <1>2 DEF switchMap
  <2> DEFINE direction == IF Falsy(t.from) THEN "none" ELSE "forward"
             toggled == ToggleFilterReduced(messages, TRUE, filters, t, direction)
  <2>0. direction \in {"reverse", "forward", "none"}
    OBVIOUS
  <2> HIDE DEF direction
  <2>1. TableFits(toggled) /\ TableFits(SetTimestampReduced(messages, t, direction))
    BY <1>0, <1>3, <2>0, QueriesFit
  <2> HIDE DEF toggled
  <2>2. ASSUME NEW r, messages' = toggled, messagesReq' = [messagesReq EXCEPT !.specific = {r}]
        PROVE  TableInv'
    BY <1>0, <2>1, <2>2 DEF TableInv, AtMostOne, TableFits, EndFits, InOrder
  <2>3. CASE GetMessages(toggled, Undef, t)
    BY <1>0, <2>1, <2>3, EffectsFit
  <2>4. CASE GetMessages(SetTimestampReduced(messages, t, direction), Undef, t)
    BY <1>0, <2>1, <2>4, EffectsFit
  <2> QED
    BY <2>2, <2>3, <2>4 DEF toggled, direction
<1> QED
  BY <1>1, <1>2 DEF TableInit

LEMMA UserFits ==
    ASSUME TableInv, MessagesUser
    PROVE  TableInv'
<1>0. TableFits(messages) /\ messages.timestamp \in {NoInterval, Interval}
  BY DEF TableInv, TableFits, NetworkMessagesState
<1>1. CASE MessagesOpen \/ MessagesNodeChange
  BY <1>0, <1>1, ModesFit, EffectsFit DEF MessagesOpen, MessagesNodeChange
<1>2. CASE TableInit
  BY <1>2, TableInitFits
<1>3. CASE MessagesClose
  BY <1>3, InitialFits DEF MessagesClose, TableInv, TableFits, EndFits, InOrder
<1>4. ASSUME NEW id, NEW direction \in {"reverse", "forward", "none"}, NEW t, GetPaginated(id, direction, t)
      PROVE  TableInv'
  <2>1. TableFits(GetPaginatedReduced(messages, id, direction, t))
    BY <1>0, ModesFit
  <2> QED
    BY <1>4, <2>1, EffectsFit DEF GetPaginated
<1>5. CASE previousPage \/ nextPage \/ firstPage \/ lastPage
  BY <1>4, <1>5 DEF previousPage, nextPage, firstPage, lastPage
<1>6. CASE GoLive
  BY <1>0, <1>6, ModesFit, EffectsFit DEF GoLive
<1>7. CASE Pause
  <2>1. TableFits([messages EXCEPT !.stream = FALSE])
    BY <1>0, ModesFit
  <2> QED
    BY <1>7, <2>1 DEF Pause, TableInv, TableFits, EndFits, InOrder, AtMostOne
<1>8. CASE SetInterval
  <2> PICK t \in {NoInterval, Interval} :
        GetMessages(SetTimestampReduced(messages, t, IF t = NoInterval THEN "reverse" ELSE "forward"),
                    Undef, t)
    BY <1>8 DEF SetInterval
  <2> DEFINE direction == IF t = NoInterval THEN "reverse" ELSE "forward"
  <2>1. direction \in {"reverse", "forward", "none"}
    OBVIOUS
  <2> HIDE DEF direction
  <2>2. TableFits(SetTimestampReduced(messages, t, direction))
    BY <1>0, <2>1, QueriesFit
  <2> QED
    BY <1>8, <2>2, EffectsFit DEF SetInterval, direction
<1>9. CASE ToggleFilter
  <2> PICK fs \in (SUBSET Filters) \ {{}} :
        GetMessages(ToggleFilterReduced(messages, ~(fs \subseteq messages.activeFilters), fs,
                                        messages.timestamp, "none"), Undef, NoInterval)
    BY <1>9 DEF ToggleFilter
  <2> DEFINE add == ~(fs \subseteq messages.activeFilters)
  <2>1. add \in BOOLEAN
    OBVIOUS
  <2> HIDE DEF add
  <2>2. TableFits(ToggleFilterReduced(messages, add, fs, messages.timestamp, "none"))
    BY <1>0, <2>1, QueriesFit
  <2> QED
    BY <1>9, <2>2, EffectsFit DEF ToggleFilter, add
<1> QED
  BY <1>1, <1>2, <1>3, <1>5, <1>6, <1>7, <1>8, <1>9 DEF MessagesUser

LEMMA StepFits ==
    ASSUME TableInv, [MessagesNext]_messagesVars
    PROVE  TableInv'
<1>0. TableFits(messages)
  BY DEF TableInv
<1>1. CASE Record
  <2>1. TableFits(messages)'
    BY <1>0, <1>1 DEF Record, TableFits, EndFits, InOrder
  <2>2. recorded' \in 0..MaxMessages
    BY <1>1, MessagesAssumption DEF Record, TableInv
  <2> QED
    BY <1>1, <2>1, <2>2 DEF Record, TableInv, AtMostOne
<1>2. CASE Tick
  BY <1>0, <1>2, ModesFit, EffectsFit DEF Tick
<1>3. CASE UNCHANGED messagesVars
  BY <1>3 DEF messagesVars, TableInv, TableFits, EndFits, InOrder, AtMostOne
<1> QED
  BY <1>1, <1>2, <1>3, AnswersFit, UserFits DEF MessagesNext

LEMMA TableInvSound == TableInv => TableSound
<1> SUFFICES ASSUME TableInv PROVE TableSound
  OBVIOUS
<1>1. ASSUME NEW requests, AtMostOne(requests) PROVE Cardinality(requests) <= 1
  <2>1. (\E r : requests = {r}) => Cardinality(requests) = 1
    BY FS_Singleton
  <2>2. requests = {} => Cardinality(requests) = 0
    BY FS_EmptySet
  <2> QED
    BY <1>1, <2>1, <2>2, SMT DEF AtMostOne
<1>2. MessagesTypeOK
  BY <1>1 DEF TableInv, TableFits, MessagesTypeOK
<1>3. LastKnownPage \/ messages.activePage.end # Undef
  BY DEF TableInv, TableFits, EndFits, LastKnownPage
<1>4. FooterSound
  BY <1>3 DEF FooterSound, TableInv, TableFits, EndFits, InOrder
<1> QED
  BY <1>2, <1>4 DEF TableSound

\* On the page of network messages the footer always finds the end of the page when
\* it gets as far as reading it, and the page shown is among the pages known, which
\* stay in order without duplicates, for any messages and page size and after any
\* sequence of modes, pages, filters, intervals, late answers and failures.
THEOREM TableTheorem == PageSpec => []TableSound
<1>1. PageInit => TableInv
  <2> SUFFICES ASSUME PageInit PROVE TableInv
    OBVIOUS
  <2>1. messages = initialState /\ messagesReq = [list |-> {}, specific |-> {}] /\ recorded = 1
    BY DEF PageInit, MessagesInit
  <2>2. TableFits(messages)
    BY <2>1, InitialFits
  <2> QED
    BY <2>1, <2>2, MessagesAssumption DEF TableInv, AtMostOne
<1>2. TableInv /\ [PageNext]_pageVars => TableInv'
  BY PageSteps, StepFits
<1> QED
  BY <1>1, <1>2, TableInvSound, PTL DEF PageSpec
=============================================================================
