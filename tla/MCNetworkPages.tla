--------------------------- MODULE MCNetworkPages ---------------------------
(***************************************************************************)
(* Small answers of the servers for NetworkPages: lists that grow, shrink  *)
(* and change, and a topology that is connected or not.                    *)
(***************************************************************************)
EXTENDS NetworkPages

MCSessions == {{"blocks", "connections", "node-dht", "bootstrap-stats"}, {"topology"}}

Event(hash, time) == [hash |-> hash, time |-> time]
MCBlockAnswers == {<<>>, <<Event(1, 5)>>, <<Event(1, 5), Event(2, 3)>>, <<Event(2, 3), Event(1, 5), Event(2, 4)>>}

MCConnections == {<<[connectionId |-> 1], [connectionId |-> 2]>>, <<[connectionId |-> 2]>>, <<>>}

Entry(id, dist, connection) == [peer_id |-> id, key |-> id, dist |-> dist, connection |-> connection]
MCRoutingTables ==
    {[this_key |-> "p", buckets |-> b] : b \in
        {<<<<Entry("q", 3, "Connected")>>, <<Entry("p", 0, "Connected")>>>>,
         <<<<Entry("q", 3, "CanConnect"), Entry("r", 5, "Connected")>>, <<Entry("p", 0, "Connected")>>>>,
         <<<<Entry("r", 5, "Connected")>>, <<Entry("p", 0, "Connected")>>>>}}

Boot(id, start, finish) == [peer_id |-> id, start |-> start, finish |-> finish]
MCBootstrapLists == {<<Boot("p", 1, 9), Boot("q", 2, 3)>>, <<Boot("q", 2, 0), Boot("p", 1, 9)>>}

Peer(address, node) == [address |-> address, node |-> node]
Link(source, target) == [source |-> source, target |-> target]
MCTopologies ==
    {[peers |-> <<Peer(1, 1), Peer(2, 2), Peer(1, 1), Peer(3, 3)>>, links |-> <<Link(2, 1)>>],
     [peers |-> <<Peer(1, 1), Peer(2, 2), Peer(3, 3)>>,
      links |-> <<Link(1, 2), Link(3, 2), Link(2, 1)>>]}
=============================================================================
