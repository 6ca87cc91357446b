CONSTANTS
    Workers = {w1, w2}
    EndpointNames <- MCEndpointNames
    ServiceNames <- MCServiceNames
    Machines <- MCEndpointNames
    BackendPorts <- MCServiceNames
    Pipelines = {"ClickHouse", "Libuv", "Missing"}
    Plugins = {"ClickHouse", "Libuv"}
    LibuvPipeline = "Libuv"
    InitialConfig <- PairEndPoints
    Documents <- PairDocuments
    ServiceEdits <- OneDelete
    MaxServices = 2
SPECIFICATION Spec
INVARIANTS
    NoCrossTalk
PROPERTIES
    CallbacksConverge
CHECK_DEADLOCK FALSE
