CONSTANTS
    ProxyServers <- MCProxyServers
    ProtocolServers <- MCProtocolServers
    BootGateway <- MCBootGateway
    ReloadedGateway <- MCReloadedGateway
SPECIFICATION FairSpec
INVARIANTS
    TypeOK
    MapsLeadToSockets
    ReloadFindsEverySocket
    ServersNotCutOff
    GatewaysOfOneDocument
PROPERTIES
    ShutdownHonoured
    ImplementsProcessLife
CHECK_DEADLOCK FALSE
