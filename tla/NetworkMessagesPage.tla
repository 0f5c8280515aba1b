------------------------- MODULE NetworkMessagesPage -------------------------
(***************************************************************************)
(* The page "Network > Messages": its side panel, and the page with the    *)
(* table and the panel.  The panel shows the active row and the details of *)
(* it that its tabs ask for, each fetched when its tab is first looked at; *)
(* the content of a detail is the row it was asked for.                    *)
(***************************************************************************)
EXTENDS NetworkMessages

CONSTANTS Rows,     \* the messages a row can be
          NoRow     \* undefined

ASSUME PanelAssumption == NoRow \notin Rows

VARIABLES panel,       \* the fields of the slice that the side panel shows
          panelReq,    \* the requests of getFullMessage$, getMessageHex$ and getConnection$
          panelShown   \* the details the component has copied from the slice

panelVars == <<panel, panelReq, panelShown>>

Details == {"activeRowFullMessage", "activeRowHex", "connection"}

PanelState == [activeRow: Rows \cup {NoRow}, activeRowFullMessage: Rows \cup {NoRow},
               activeRowHex: Rows \cup {NoRow}, connection: Rows \cup {NoRow}, activeTab: 1..3]

initialPanel == [activeRow |-> NoRow, activeRowFullMessage |-> NoRow,
                 activeRowHex |-> NoRow, connection |-> NoRow, activeTab |-> 1]

SetActiveRowReduced(row) ==
    [panel EXCEPT !.activeRow = row, !.activeRowFullMessage = NoRow,
                  !.activeRowHex = NoRow, !.connection = NoRow]

setActiveRow_OnlyFull(state) ==
    [panelReq EXCEPT !.full = IF state.activeRow # NoRow /\ state.activeRowFullMessage = NoRow
                              THEN mergeMap(@, state.activeRow) ELSE @]

\* setActiveRow$: what the active tab shows is fetched unless it is there.
setActiveRow(state) ==
    LET row == state.activeRow
        Missing(tab, detail) == state.activeTab = tab /\ row # NoRow /\ detail = NoRow
    IN  [full |-> IF Missing(1, state.activeRowFullMessage)
                  THEN mergeMap(panelReq.full, row) ELSE panelReq.full,
         hex  |-> IF Missing(2, state.activeRowHex)
                  THEN switchMap(panelReq.hex, row) ELSE panelReq.hex,
         conn |-> IF Missing(3, state.connection)
                  THEN switchMap(panelReq.conn, row) ELSE panelReq.conn]

\* listenToActiveRowChange: the component drops its copies when the row is given
\* up; a detail the slice has not got yet leaves the copy of the row before.
detailsShown(state) ==
    [d \in Details |-> IF state.activeRow = NoRow /\ panel.activeRow # NoRow THEN NoRow
                       ELSE IF state[d] # NoRow THEN state[d] ELSE panelShown[d]]

\* NETWORK_SET_ACTIVE_ROW: onRowClick of the table, closeSidePanel, and the
\* answer of getSpecificMessage$.
SelectRow ==
    \E row \in (Rows \cup {NoRow}) \ {panel.activeRow} :
        /\ panel' = SetActiveRowReduced(row)
        /\ panelReq' = setActiveRow(SetActiveRowReduced(row))

\* selectTab of the side panel, which is shown while there is an active row.
SelectTab ==
    /\ panel.activeRow # NoRow
    /\ \E tab \in (1..3) \ {panel.activeTab} :
         /\ panel' = [panel EXCEPT !.activeTab = tab]
         /\ panelReq' = setActiveRow([panel EXCEPT !.activeTab = tab])

\* A new component copies what the slice has, late answers to an earlier one too.
PanelOpen == panelShown' = [d \in Details |-> panel[d]] /\ UNCHANGED <<panel, panelReq>>

\* NETWORK_CLOSE resets the slice; none of the three effects takes it.
PanelClose ==
    /\ panel' = initialPanel /\ UNCHANGED panelReq
    /\ panelShown' = [d \in Details |-> NoRow]

\* getFullMessage$: the progress events of the download are emitted as
\* undefined, and then the message; an error is emitted in its place.
FullMessageProgress ==
    /\ panelReq.full # {}
    /\ panel' = [panel EXCEPT !.activeRowFullMessage = NoRow]
    /\ UNCHANGED panelReq

GetFullMessageSuccess(r) ==
    /\ r \in panelReq.full
    /\ panel' = [panel EXCEPT !.activeRowFullMessage = r]
    /\ panelReq' = [panelReq EXCEPT !.full = Completed(@, r)]

\* getMessageHex$ and getConnection$; an error is shown in the place of the data.
GetMessageHexSuccess(r) ==
    /\ r \in panelReq.hex
    /\ panel' = [panel EXCEPT !.activeRowHex = r]
    /\ panelReq' = [panelReq EXCEPT !.hex = Completed(@, r)]

GetConnectionSuccess(r) ==
    /\ r \in panelReq.conn
    /\ panel' = [panel EXCEPT !.connection = r]
    /\ panelReq' = [panelReq EXCEPT !.conn = Completed(@, r)]

PanelAnswers(r) ==
    GetFullMessageSuccess(r) \/ GetMessageHexSuccess(r) \/ GetConnectionSuccess(r)

PanelInit ==
    /\ panel = initialPanel /\ panelReq = [full |-> {}, hex |-> {}, conn |-> {}]
    /\ panelShown = [d \in Details |-> NoRow]

-----------------------------------------------------------------------------
(* The page.  Table and panel share the page and the action that closes it   *)
(* and nothing else, so a session looks at one of them and leaves the other  *)
(* alone.                                                                    *)

VARIABLE session    \* "table" or "panel"

pageVars == <<messagesVars, panelVars, session>>

PageInit == MessagesInit /\ PanelInit /\ session \in {"table", "panel"}

TableSession == session = "table" /\ MessagesNext /\ UNCHANGED panelVars

PanelUser ==
    /\ messagesPage = "open" /\ UNCHANGED messagesVars
    /\ SelectRow \/ SelectTab
    /\ panelShown' = detailsShown(panel')

PanelServer ==
    /\ FullMessageProgress \/ \E r \in Rows : PanelAnswers(r)
    /\ panelShown' = IF messagesPage = "closed" THEN panelShown ELSE detailsShown(panel')
    /\ UNCHANGED messagesVars

PanelSession ==
    /\ session = "panel"
    /\ \/ MessagesOpen /\ PanelOpen
       \/ TableInit /\ UNCHANGED panelVars
       \/ MessagesClose /\ PanelClose
       \/ PanelUser
       \/ PanelServer

PageNext == (TableSession \/ PanelSession) /\ UNCHANGED session

PageSpec == PageInit /\ [][PageNext]_pageVars

-----------------------------------------------------------------------------
\* An open panel ends with a detail of the slice: while the tab that is looked at
\* is blank, or still has the copy of another row, a request is on its way, in
\* whatever order rows and tabs were chosen and answers came.
PanelFills ==
    LET Fills(tab, detail, requests) ==
            panel.activeTab = tab /\ requests = {} => panel[detail] # NoRow /\ panelShown[detail] = panel[detail]
    IN  /\ panel \in PanelState
        /\ panel.activeRow # NoRow =>
            /\ Fills(1, "activeRowFullMessage", panelReq.full)
            /\ Fills(2, "activeRowHex", panelReq.hex)
            /\ Fills(3, "connection", panelReq.conn)
=============================================================================
