CONSTANTS
    Pipelines = {"stream", "wire", "missing"}
    Libraries = {"stream", "wire"}
    ProxyPipelines <- MCProxyPipelines
    ProtocolPipelines <- MCProtocolPipelines
    GatewayPipelines <- MCGatewayPipelines
    Reloads <- MCReloads
    Main = main
    Callbacks = {c1, c2}
    MaxHandles = 4
SYMMETRY MCSymmetry
SPECIFICATION Spec
INVARIANTS
    TypeOK
    FunctionsAreMapped
    FoundStaysTrue
    MainNeverRaces
    HandlesAccountedFor
CHECK_DEADLOCK FALSE
