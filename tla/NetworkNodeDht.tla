---------------------------- MODULE NetworkNodeDht ----------------------------
(***************************************************************************)
(* The page "Network > Node DHT": the peers of the routing table, in a     *)
(* table and as points on a line at their XOR distance.                    *)
(***************************************************************************)
EXTENDS FiniteSets, Layout

CONSTANTS RoutingTables,   \* answers of /discovery/routing_table
          Bits             \* the width of a distance, 256 in the code

\* An answer has a key and buckets of entries.
ASSUME RoutingTablesAssumption ==
    /\ Bits \in Nat
    /\ \A t \in RoutingTables : \A i \in DOMAIN t.buckets : \A j \in DOMAIN t.buckets[i] :
          t.buckets[i][j].dist \in 0 .. 2^Bits - 1

VARIABLES dht,      \* the slice network.nodeDht
          dhtPage,  \* the rows and the id from the route of the table, the points of the line
          dhtFx,    \* pendingRequest of NetworkNodeDhtEffects
          dhtReq    \* the request of getPeers$

dhtVars == <<dht, dhtPage, dhtFx, dhtReq>>

NoKey == "none"
initialDht == [peers |-> <<>>, thisKey |-> NoKey, activePeer |-> NoRow, buckets |-> <<>>]
NoDhtPage == [rows |-> <<>>, idFromRoute |-> NoId, line |-> <<>>]
-----------------------------------------------------------------------------
getNumberOfZerosUntilFirst1(dist) == Cardinality({i \in 0 .. Bits - 1 : dist < 2^i})

peersInOrder(response) ==
    [peers |-> FlattenSeq([i \in DOMAIN response.buckets |->
                 [j \in DOMAIN response.buckets[i] |->
                    LET entry == response.buckets[i][j]
                    IN  [peerId |-> entry.peer_id, key |-> entry.key, hexDistance |-> entry.dist,
                         connection |-> entry.connection, bucketIndex |-> i,
                         xorDistance |-> getNumberOfZerosUntilFirst1(entry.dist)]]]),
     thisKey |-> response.this_key,
     buckets |-> [i \in DOMAIN response.buckets |-> Len(response.buckets[i])]]

\* The peer that is this node is moved to the front; its xorDistance is "-".
mapDhtPeers(response) ==
    LET payload == peersInOrder(response)
        own(p) == p.key = response.this_key
    IN  [payload EXCEPT !.peers = [i \in DOMAIN @ |->
            LET peers == SelectSeq(payload.peers, own)
                           \o SelectSeq(payload.peers, LAMBDA p : ~own(p))
            IN  IF own(peers[i]) THEN [peers[i] EXCEPT !.xorDistance = -1] ELSE peers[i]]]

\* sameRecord compares everything of the peers but their connection.
sameRecord(state, payload) ==
    /\ state.thisKey = payload.thisKey
    /\ Len(state.peers) = Len(payload.peers)
    /\ \A i \in DOMAIN state.peers :
         LET a == state.peers[i] b == payload.peers[i]
         IN  a.peerId = b.peerId /\ a.key = b.key /\ a.hexDistance = b.hexDistance

GetPeersSuccessReduced(payload) ==
    IF sameRecord(dht, payload) THEN dht
    ELSE [dht EXCEPT !.peers = payload.peers, !.thisKey = payload.thisKey,
                     !.buckets = payload.buckets]

\* listenToNodeDhtPeers: the line is drawn anew when one of its points has
\* another distance than the peer at its place.  A list that only grew is not
\* noticed, and one that only shrank makes the comparison throw in this callback.
lineDrawn(line, state) ==
    IF /\ state.thisKey # NoKey
       /\ \/ line = <<>>
          \/ \E i \in DOMAIN line \cap DOMAIN state.peers :
                line[i].hexDistance # state.peers[i].hexDistance
    THEN state.peers ELSE line

\* What the components of the page do with a new state of the slice.
DhtShown(state) ==
    LET new == state.peers # dht.peers /\ state.peers # <<>>
    IN  /\ dhtPage' = [rows |-> rowsShown(dhtPage.rows, state.peers),
                       idFromRoute |-> IF new THEN NoId ELSE dhtPage.idFromRoute,
                       line |-> lineDrawn(dhtPage.line, state)]
        /\ dht' = IF new /\ dhtPage.idFromRoute # NoId
                  THEN [state EXCEPT !.activePeer = find(state.peers, "peerId", dhtPage.idFromRoute)]
                  ELSE state
-----------------------------------------------------------------------------
getPeers ==
    /\ ~dhtFx.pendingRequest
    /\ dhtFx' = [pendingRequest |-> TRUE]
    /\ dhtReq' = switchMap(dhtReq, "getPeers")

\* timer(3000, 3000) of the component.
DhtTick == On("node-dht") /\ getPeers /\ UNCHANGED <<loading, dht, dhtPage>>

GetPeersSuccess ==
    \E r \in dhtReq, response \in RoutingTables :
        /\ DhtShown(GetPeersSuccessReduced(mapDhtPeers(response)))
        /\ dhtFx' = [pendingRequest |-> FALSE]
        /\ dhtReq' = Completed(dhtReq, r)
        /\ remove({"NETWORK_NODE_DHT_INIT"}) /\ UNCHANGED page

\* pendingRequest stays set until the page is left.
GetPeersError ==
    /\ dhtReq # {}
    /\ DhtShown(GetPeersSuccessReduced([peers |-> <<>>, thisKey |-> NoKey, buckets |-> <<>>]))
    /\ dhtReq' = catchErrorAndRepeat(dhtReq)
    /\ remove({"NETWORK_NODE_DHT_INIT"}) /\ UNCHANGED <<dhtFx, page>>

\* The link may name a peer.
DhtOpen ==
    /\ Enter("node-dht") /\ add("NETWORK_NODE_DHT_INIT") /\ UNCHANGED dht
    /\ \E id \in {NoId} \cup {e.peer_id : e \in UNION {ToSet(FlattenSeq(t.buckets)) : t \in RoutingTables}} :
         dhtPage' = [NoDhtPage EXCEPT !.idFromRoute = id]
    /\ getPeers

\* NetworkNodeDhtClose passes through getPeers$ too and switches to EMPTY.
DhtClose ==
    /\ Leave("node-dht") /\ remove({"NETWORK_NODE_DHT_INIT"})
    /\ dht' = initialDht /\ dhtPage' = NoDhtPage
    /\ dhtFx' = [pendingRequest |-> FALSE] /\ dhtReq' = {}

DhtRowClick ==
    /\ On("node-dht") /\ UNCHANGED <<loading, dhtPage, dhtFx, dhtReq>>
    /\ \E row \in Clickable(dhtPage.rows, "peerId", dht.activePeer) :
         dht' = [dht EXCEPT !.activePeer = row]

\* A point selects the peer it was drawn for, from the line's own copy.
selectPeer ==
    /\ On("node-dht") /\ UNCHANGED <<loading, dhtPage, dhtFx, dhtReq>>
    /\ \E point \in ToSet(dhtPage.line) :
         dht' = [dht EXCEPT !.activePeer = find(dhtPage.line, "peerId", point.peerId)]

DhtClosePanel ==
    /\ On("node-dht") /\ UNCHANGED <<loading, dhtPage, dhtFx, dhtReq>>
    /\ dht' = [dht EXCEPT !.activePeer = NoRow]
-----------------------------------------------------------------------------
DhtInit ==
    /\ dht = initialDht /\ dhtPage = NoDhtPage
    /\ dhtFx = [pendingRequest |-> FALSE] /\ dhtReq = {}

DhtNext ==
    \/ DhtTick \/ GetPeersSuccess \/ GetPeersError \/ DhtOpen \/ DhtClose
    \/ DhtRowClick \/ selectPeer \/ DhtClosePanel

\* While the node knows its key, a point of the line that stands at the place
\* of a peer of the table has the distance of that peer, whatever tables were
\* answered before.
DhtLineSound ==
    dht.thisKey # NoKey =>
        \A i \in DOMAIN dhtPage.line \cap DOMAIN dht.peers :
            dhtPage.line[i].hexDistance = dht.peers[i].hexDistance
=============================================================================
