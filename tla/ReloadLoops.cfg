CONSTANTS
    Workers = {w1}
    EndpointNames <- MCEndpointNames
    ServiceNames <- MCServiceNames
    Machines <- MCEndpointNames
    BackendPorts <- MCServiceNames
    Pipelines = {"ClickHouse", "Libuv", "Missing"}
    Plugins = {"ClickHouse", "Libuv"}
    LibuvPipeline = "Libuv"
    InitialConfig <- TwoEndPoints
    Documents <- LoopingDocuments
    ServiceEdits <- OneDelete
    MaxServices = 3
SPECIFICATION FairSpec
PROPERTIES
    RequestAnswered
CHECK_DEADLOCK FALSE
