\* The pages Blocks, Connections, Node DHT, Bootstrap Stats and Topology.
CONSTANTS
    Sessions <- MCSessions
    Heights = {1, 2}
    BlockAnswers <- MCBlockAnswers
    ConnectionLists <- MCConnections
    RoutingTables <- MCRoutingTables
    Bits = 3
    BootstrapLists <- MCBootstrapLists
    OneBillion = 4
    Topologies <- MCTopologies
SPECIFICATION NetworkSpec
INVARIANTS
    RequestsSound
    ListsSound
    SplitsSound
