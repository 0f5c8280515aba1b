-------------------------- MODULE NetworkConnections --------------------------
(***************************************************************************)
(* The page "Network > Connections".                                       *)
(***************************************************************************)
EXTENDS Layout

CONSTANT ConnectionLists   \* what the debugger may answer: sequences of connections

ASSUME ConnectionListsAssumption ==
    \A list \in ConnectionLists :
        list \in Seq(ToSet(list)) /\ \A i \in DOMAIN list : list[i].connectionId \in Nat

VARIABLES connections,    \* the slice network.connections and the rows of the table
          connectionsFx,  \* streamActive, waitingForServer and the timer of the effects
          connectionsReq  \* the request of getConnections$

connectionsVars == <<connections, connectionsFx, connectionsReq>>

NetworkConnection == UNION {ToSet(list) : list \in ConnectionLists}

NetworkConnectionsState ==
    [connections: Seq(NetworkConnection), activeConnection: NetworkConnection \cup {NoRow},
     stream: BOOLEAN, rows: Seq(NetworkConnection)]

initialConnections ==
    [connections |-> <<>>, activeConnection |-> NoRow, stream |-> FALSE, rows |-> <<>>]
-----------------------------------------------------------------------------
\* The direction is always REVERSE.
mapNetworkConnectionsResponse(list) == Reverse(list)

GetConnectionsSuccessReduced(payload) ==
    [connections EXCEPT !.connections = payload,
                        !.rows = IF page = "connections" THEN rowsShown(@, payload) ELSE @]

getConnections ==
    /\ connectionsFx' = [connectionsFx EXCEPT !.streamActive = connections.stream,
                                              !.waitingForServer = TRUE]
    /\ connectionsReq' = switchMap(connectionsReq, "getConnections")
    /\ UNCHANGED <<connections, layoutVars>>

\* timer(0, 10000) of init$.
ConnectionsTick ==
    /\ connectionsFx.timer /\ connectionsFx.streamActive /\ ~connectionsFx.waitingForServer
    /\ getConnections

GetConnectionsSuccess ==
    \E r \in connectionsReq, list \in ConnectionLists :
        /\ connections' = GetConnectionsSuccessReduced(mapNetworkConnectionsResponse(list))
        /\ connectionsFx' = [connectionsFx EXCEPT !.waitingForServer = FALSE]
        /\ connectionsReq' = Completed(connectionsReq, r)
        /\ UNCHANGED layoutVars

\* waitingForServer stays set.
GetConnectionsError ==
    /\ connectionsReq # {}
    /\ connections' = GetConnectionsSuccessReduced(<<>>)
    /\ connectionsReq' = catchErrorAndRepeat(connectionsReq)
    /\ UNCHANGED <<connectionsFx, layoutVars>>

\* NetworkConnectionsInit, dispatched for every active node.
ConnectionsInitEffect ==
    /\ connections' = [connections EXCEPT !.stream = TRUE]
    /\ connectionsFx' = [connectionsFx EXCEPT !.streamActive = TRUE, !.timer = TRUE]
    /\ UNCHANGED connectionsReq

ConnectionsOpen == Enter("connections") /\ UNCHANGED loading /\ ConnectionsInitEffect
ConnectionsNodeChange == On("connections") /\ UNCHANGED loading /\ ConnectionsInitEffect

ConnectionsClose_NotWaiting ==
    /\ Leave("connections") /\ UNCHANGED <<loading, connectionsReq>>
    /\ connections' = initialConnections
    /\ connectionsFx' = [streamActive |-> FALSE, timer |-> FALSE, waitingForServer |-> FALSE]

\* The table goes with the page; a request in flight stays and answers into
\* the closed slice.
ConnectionsClose ==
    /\ Leave("connections") /\ UNCHANGED <<loading, connectionsReq>>
    /\ connections' = initialConnections
    /\ connectionsFx' = [connectionsFx EXCEPT !.streamActive = FALSE, !.timer = FALSE]

ConnectionsRowClick ==
    /\ On("connections") /\ UNCHANGED <<loading, connectionsFx, connectionsReq>>
    /\ \E row \in Clickable(connections.rows, "connectionId", connections.activeConnection) :
         connections' = [connections EXCEPT !.activeConnection = row]

ConnectionsClosePanel ==
    /\ On("connections") /\ UNCHANGED <<loading, connectionsFx, connectionsReq>>
    /\ connections.activeConnection # NoRow
    /\ connections' = [connections EXCEPT !.activeConnection = NoRow]
-----------------------------------------------------------------------------
ConnectionsInit ==
    /\ connections = initialConnections
    /\ connectionsFx = [streamActive |-> FALSE, waitingForServer |-> FALSE, timer |-> FALSE]
    /\ connectionsReq = {}

\* NetworkConnectionsPause and NetworkConnectionsGoLive are dispatched by no
\* component.
ConnectionsNext ==
    \/ ConnectionsTick \/ GetConnectionsSuccess \/ GetConnectionsError
    \/ ConnectionsOpen \/ ConnectionsNodeChange \/ ConnectionsClose
    \/ ConnectionsRowClick \/ ConnectionsClosePanel
=============================================================================
