CONSTANTS
    Workers = {w1}
    EndpointNames <- MCEndpointNames
    ServiceNames <- MCServiceNames
    Machines <- MCEndpointNames
    BackendPorts <- MCServiceNames
    Pipelines = {"ClickHouse", "Libuv", "Missing"}
    Plugins = {"ClickHouse", "Libuv"}
    LibuvPipeline = "Libuv"
    InitialConfig <- LibuvEndPoints
    Documents <- UniqueDocuments
    ServiceEdits <- Edits
    MaxServices = 3
SPECIFICATION Spec
INVARIANTS
    DeletedNotServed
