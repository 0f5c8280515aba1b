---------------------------- MODULE NetworkSplits ----------------------------
(***************************************************************************)
(* The page "Network > Topology": the peers of all nodes, the sets they    *)
(* fall into, and the buttons that split the network in two by firewalls   *)
(* and merge it again.                                                     *)
(***************************************************************************)
EXTENDS FiniteSets, Layout

CONSTANT Topologies   \* answers of getPeers: [peers, links]

\* A peer has an address and the number in its name, 0 when no node of the
\* configuration is known at the address.  A link has a source and a target;
\* the service collects the peers from the ends of the links.
ASSUME TopologiesAssumption ==
    \A t \in Topologies :
        /\ t.peers \in Seq([address: Nat, node: Nat]) /\ t.links \in Seq([source: Nat, target: Nat])
        /\ \A l \in ToSet(t.links) : {l.source, l.target} \subseteq {p.address : p \in ToSet(t.peers)}

VARIABLES splits,      \* the slice network.splits; whether the panel is open is left out
          splitsPage,  \* expandedItems of the side panel, fetching and peers of the graph
          idFromRoute, \* the address the route named, until its peer is found
          splitsReq,   \* the requests of getSplits$, splitNodes$ and mergeNodes$
          firewall     \* the whitelist of every node of the network, {} when it is off

splitsVars == <<splits, splitsPage, idFromRoute, splitsReq, firewall>>

Addresses == {p.address : p \in UNION {ToSet(t.peers) : t \in Topologies}}
SplitsColumns == {"outgoingConnections"}   \* the other three are alike

initialSplits ==
    [peers |-> <<>>, links |-> <<>>, sets |-> <<>>, activePeer |-> NoRow, detached |-> FALSE,
     fetching |-> TRUE,
     sort |-> [sortBy |-> "outgoingConnections", sortDirection |-> "descending"]]

NoSplitsPage == [expandedItems |-> {}, fetching |-> FALSE, peers |-> <<>>]
-----------------------------------------------------------------------------
\* removeDuplicatedPeers: the first peer of an address stays.
removeDuplicatedPeers(peers) ==
    LET kept[i \in 0..Len(peers)] ==
            IF i = 0 THEN <<>>
            ELSE IF \E j \in 1 .. i - 1 : peers[j].address = peers[i].address THEN kept[i - 1]
                 ELSE Append(kept[i - 1], peers[i])
    IN  kept[Len(peers)]

\* The links the search follows from a peer, in either direction, and the peers it
\* puts into the queue.
Leads(link, address, seen) ==
    \/ link.source = address /\ link.target \notin seen
    \/ link.target = address /\ link.source \notin seen

queued(peer, seen, peers, links) ==
    LET leading == filter(links, {l \in ToSet(links) : Leads(l, peer.address, seen)})
    IN  [i \in DOMAIN leading |->
            find(peers, "address", IF leading[i].source = peer.address /\ leading[i].target \notin seen
                                   THEN leading[i].target ELSE leading[i].source)]

\* A turn of the loop of splitThePeers: queue, the set found so far, and visited.
searchTurn(s, peers, links) ==
    IF s.queue = <<>> THEN s
    ELSE LET peer == Head(s.queue)
             seen == s.visited \cup {peer.address}
         IN  IF peer \in ToSet(s.set) THEN [s EXCEPT !.queue = Tail(@)]
             ELSE [queue |-> Tail(s.queue) \o queued(peer, seen, peers, links),
                   set |-> Append(s.set, peer), visited |-> seen]

\* The loop ends when the queue is empty: each peer is taken once, and puts at
\* most one peer into the queue for each link.
searchSet(start, visited, peers, links) ==
    LET turns == 1 + Len(peers) * Len(links)
        after[k \in 0..turns] ==
            IF k = 0 THEN [queue |-> <<start>>, set |-> <<>>, visited |-> visited]
            ELSE searchTurn(after[k - 1], peers, links)
    IN  after[turns]

\* The outer loop: a search from the next peer unless an earlier one has found it.
withPeer(s, peer, peers, links) ==
    IF peer.address \in s.visited THEN s
    ELSE LET found == searchSet(peer, s.visited, peers, links)
         IN  [sets |-> Append(s.sets, sort(found.set, initialSplits.sort)), visited |-> found.visited]

splitThePeers_OneWay(peers, links) ==
    LET oneWay == filter(links, {l \in ToSet(links) : l.source < l.target})
        after[i \in 0..Len(peers)] ==
            IF i = 0 THEN [sets |-> <<>>, visited |-> {}] ELSE withPeer(after[i - 1], peers[i], peers, oneWay)
    IN  after[Len(peers)].sets

splitThePeers(peers, links) ==
    LET after[i \in 0..Len(peers)] ==
            IF i = 0 THEN [sets |-> <<>>, visited |-> {}] ELSE withPeer(after[i - 1], peers[i], peers, links)
    IN  after[Len(peers)].sets

GetSplitsReduced == [splits EXCEPT !.activePeer = NoRow, !.detached = FALSE, !.fetching = TRUE]

\* The peers of an answer are new objects: a peer that was selected while the
\* answer was awaited is detached from them.
GetSplitsSuccessReduced(payload) ==
    LET peers == [i \in DOMAIN payload.peers |->
                    [address |-> payload.peers[i].address, node |-> payload.peers[i].node,
                     outgoingConnections |->
                        Len(filter(payload.links, {l \in ToSet(payload.links) : l.source = payload.peers[i].address}))]]
        sets == splitThePeers(peers, payload.links)
    IN  [splits EXCEPT !.peers = peers, !.links = payload.links, !.fetching = FALSE,
                       !.sets = [i \in DOMAIN sets |-> sort(sets[i], splits.sort)],
                       !.detached = splits.activePeer # NoRow]

SetActivePeerReduced(state, peer) ==
    [state EXCEPT !.activePeer = peer, !.detached = FALSE]

SortPeersReduced(tableSort) ==
    [splits EXCEPT !.sort = tableSort,
                   !.sets = [i \in DOMAIN splits.sets |-> sort(splits.sets[i], tableSort)]]
-----------------------------------------------------------------------------
toggleItem(items, i) == IF i \in items THEN items \ {i} ELSE items \cup {i}

\* sets.findIndex(set => set.peers.includes(activePeer)), 0 for none.
setIndex(state) ==
    LET found == {i \in DOMAIN state.sets : state.activePeer \in ToSet(state.sets[i])}
    IN  IF state.detached \/ found = {} THEN 0 ELSE CHOOSE i \in found : TRUE

\* The side panel expands the set of a newly active peer.
ActivePeerShown(items, state) == items \cup {setIndex(state)}

\* The graph is drawn only at the end of a fetch, and not without a link.
GraphUpdated(state) ==
    LET fetching == splitsPage.fetching \/ state.fetching
    IN  IF state.peers # <<>> /\ state.links # <<>> /\ fetching /\ ~state.fetching
        THEN [splitsPage EXCEPT !.fetching = FALSE, !.peers = state.peers]
        ELSE [splitsPage EXCEPT !.fetching = fetching]

\* A panel that was told of new sets expands the only one.
PanelShown(state, newSets, expanded) ==
    /\ splits' = state
    /\ splitsPage' = [GraphUpdated(state) EXCEPT
          !.expandedItems = IF newSets /\ Len(state.sets) = 1 THEN {1} ELSE @ \cup expanded]

SplitsShown(state, newSets) ==
    PanelShown(state, newSets,
        IF \/ state.activePeer # splits.activePeer
           \/ splits.detached /\ ~state.detached
        THEN {setIndex(state)} ELSE {})
-----------------------------------------------------------------------------
getSplits == splitsReq' = [splitsReq EXCEPT !.get = switchMap(@, "getPeers")]

\* The panel selects the peer the route named, once it is among the peers; a peer
\* that was active is deselected before.
AnswerShown(state) ==
    LET named == {p \in ToSet(state.peers) : p.address \in idFromRoute}
    IN  \/ named = {} /\ SplitsShown(state, TRUE) /\ UNCHANGED idFromRoute
        \/ \E peer \in named :
              LET selected == SetActivePeerReduced(state, peer)
              IN  /\ idFromRoute' = {}
                  /\ PanelShown(selected, TRUE, {setIndex(selected)}
                        \cup (IF splits.activePeer = NoRow THEN {} ELSE {0}))

GetSplitsSuccess ==
    \E r \in splitsReq.get, t \in Topologies :
        /\ AnswerShown(GetSplitsSuccessReduced([peers |-> removeDuplicatedPeers(t.peers),
                                                links |-> t.links]))
        /\ splitsReq' = [splitsReq EXCEPT !.get = Completed(@, r)]
        /\ UNCHANGED <<layoutVars, firewall>>

GetSplitsError ==
    /\ splitsReq.get # {}
    /\ SplitsShown(GetSplitsSuccessReduced([peers |-> <<>>, links |-> <<>>]), TRUE)
    /\ splitsReq' = [splitsReq EXCEPT !.get = catchErrorAndRepeat(@)]
    /\ UNCHANGED <<layoutVars, idFromRoute, firewall>>

\* The panel begins with the active peer there is, none.
SplitsOpen ==
    /\ Enter("topology") /\ getSplits /\ PanelShown(GetSplitsReduced, FALSE, {0})
    /\ idFromRoute' \in {{}} \cup {{a} : a \in Addresses}
    /\ UNCHANGED <<loading, firewall>>

\* Only getSplits$ is switched to EMPTY; a split or a merge goes on.
SplitsClose ==
    /\ Leave("topology") /\ UNCHANGED <<loading, firewall>>
    /\ splits' = initialSplits /\ splitsPage' = NoSplitsPage /\ idFromRoute' = {}
    /\ splitsReq' = [splitsReq EXCEPT !.get = {}]

refresh ==
    /\ On("topology") /\ getSplits /\ SplitsShown(GetSplitsReduced, FALSE)
    /\ UNCHANGED <<loading, idFromRoute, firewall>>

SplitsSort ==
    /\ On("topology") /\ UNCHANGED <<loading, idFromRoute, splitsReq, firewall>>
    /\ \E column \in SplitsColumns : SplitsShown(SortPeersReduced(sortTable(splits.sort, column)), TRUE)

\* onRowClick of a table in the panel and a click in the graph: the active peer
\* is deselected, another one is selected.
SplitsSelectPeer ==
    /\ On("topology") /\ UNCHANGED <<loading, idFromRoute, splitsReq, firewall>>
    /\ \E peer \in ToSet(splits.peers) :
         SplitsShown(SetActivePeerReduced(splits,
            IF peer = splits.activePeer /\ ~splits.detached THEN NoRow ELSE peer), FALSE)

\* Collapsing the set of the active peer deselects it.
toggleExpandedItems ==
    /\ On("topology") /\ UNCHANGED <<loading, idFromRoute, splitsReq, firewall>>
    /\ \E i \in DOMAIN splits.sets :
         LET items == toggleItem(splitsPage.expandedItems, i)
             kept == splits.activePeer = NoRow \/ setIndex(splits) \in items
             state == IF kept THEN splits ELSE SetActivePeerReduced(splits, NoRow)
         IN  /\ splits' = state
             /\ splitsPage' = [splitsPage EXCEPT
                   !.expandedItems = IF kept THEN items ELSE ActivePeerShown(items, state)]
-----------------------------------------------------------------------------
\* splitNodes: the named peers with even and odd numbers are told, one after the
\* other in each half, to let only their half through.
splitNodes ==
    /\ On("topology") /\ UNCHANGED <<loading, splits, splitsPage, idFromRoute, firewall>>
    /\ LET half(k) == filter(splits.peers, {p \in ToSet(splits.peers) : p.node # 0 /\ p.node % 2 = k})
       IN  splitsReq' = [splitsReq EXCEPT !.split = switchMap(@,
              [todo |-> <<half(0), half(1)>>,
               ips |-> <<{p.address : p \in ToSet(half(0))}, {p.address : p \in ToSet(half(1))}>>])]

splitPosted(r, h) ==
    /\ r.todo[h] # <<>>
    /\ firewall' = [firewall EXCEPT ![Head(r.todo[h]).address] = r.ips[h]]
    /\ splitsReq' = [splitsReq EXCEPT !.split = {[r EXCEPT !.todo[h] = Tail(@)]}]

SplitStep ==
    /\ \E r \in splitsReq.split, h \in 1 .. 2 : splitPosted(r, h)
    /\ UNCHANGED <<layoutVars, splits, splitsPage, idFromRoute>>

\* mergeNodes: the firewalls of all named peers are turned off, one by one.
mergeNodes ==
    /\ On("topology") /\ UNCHANGED <<loading, splits, splitsPage, idFromRoute, firewall>>
    /\ splitsReq' = [splitsReq EXCEPT !.merge =
          switchMap(@, filter(splits.peers, {p \in ToSet(splits.peers) : p.node # 0}))]

MergeStep ==
    /\ \E todo \in splitsReq.merge :
         /\ todo # <<>>
         /\ firewall' = [firewall EXCEPT ![Head(todo).address] = {}]
         /\ splitsReq' = [splitsReq EXCEPT !.merge = {Tail(todo)}]
    /\ UNCHANGED <<layoutVars, splits, splitsPage, idFromRoute>>

\* Done, or one request failed and the others are given up; the store keeps
\* neither.
SplitOrMergeEnds ==
    /\ UNCHANGED <<layoutVars, splits, splitsPage, idFromRoute, firewall>>
    /\ \/ splitsReq.split # {} /\ splitsReq' = [splitsReq EXCEPT !.split = {}]
       \/ splitsReq.merge # {} /\ splitsReq' = [splitsReq EXCEPT !.merge = {}]
-----------------------------------------------------------------------------
SplitsInit ==
    /\ splits = initialSplits /\ splitsPage = NoSplitsPage /\ idFromRoute = {}
    /\ splitsReq = [get |-> {}, split |-> {}, merge |-> {}]
    /\ firewall = [a \in Addresses |-> {}]

SplitsNext ==
    \/ GetSplitsSuccess \/ GetSplitsError \/ SplitsOpen \/ SplitsClose \/ refresh \/ SplitsSort
    \/ SplitsSelectPeer \/ toggleExpandedItems
    \/ splitNodes \/ SplitStep \/ mergeNodes \/ MergeStep \/ SplitOrMergeEnds

\* The sets of the side panel are the connected components of the graph: two peers
\* are together in exactly one of them when the links, followed in either
\* direction, connect them, that is, when no set of peers that the links do not
\* leave separates them; and otherwise they are together in none.
SplitsSetsConnected ==
    LET peers == {p.address : p \in ToSet(splits.peers)}
        NotLeft(S) == \A l \in ToSet(splits.links) : l.source \in S <=> l.target \in S
        connected(a, b) == \A S \in SUBSET peers : NotLeft(S) /\ a \in S => b \in S
        together(a, b) == {i \in DOMAIN splits.sets :
                              {a, b} \subseteq {p.address : p \in ToSet(splits.sets[i])}}
    IN  \A a, b \in peers : Cardinality(together(a, b)) = IF connected(a, b) THEN 1 ELSE 0

\* When no answer is awaited the graph shows the peers of the store, after any
\* order of refreshes, sorts and selections.
SplitsGraphFresh ==
    ~splits.fetching /\ splits.peers # <<>> /\ splits.links # <<>>
        => splitsPage.peers = splits.peers

\* A selected peer is visible in the panel: its set is expanded.
SplitsActiveVisible ==
    splits.activePeer # NoRow /\ ~splits.detached
        => setIndex(splits) \in splitsPage.expandedItems

\* No firewall lets a node of the other half through, however splits and merges
\* interleave and wherever one of them fails.
FirewallsSeparate ==
    \A a \in Addresses : \A b \in firewall[a] :
        \E t \in Topologies : \E p, q \in ToSet(t.peers) :
            p.address = a /\ q.address = b /\ p.node % 2 = q.node % 2

\* Panel and graph of the page "Topology" show the network that was answered last,
\* divided as its links divide it, and the firewalls it sets keep the halves apart.
SplitsSound == SplitsSetsConnected /\ SplitsGraphFresh /\ SplitsActiveVisible /\ FirewallsSeparate
=============================================================================
