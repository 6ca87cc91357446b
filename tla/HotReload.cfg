CONSTANTS
    Writer = w1
    Workers = {w1}
    EndpointNames <- MCEndpointNames
    ServiceNames <- MCServiceNames
    Machines <- MCEndpointNames
    BackendPorts <- MCServiceNames
    Pipelines = {"ClickHouse", "Libuv", "Missing"}
    Plugins = {"ClickHouse", "Libuv"}
    LibuvPipeline = "Libuv"
    InitialConfig <- SampleEndPoints
    Documents <- AnsweredDocuments
    ServiceEdits <- AllEdits
    MaxServices = 2
SPECIFICATION FairSpec
INVARIANTS
    TypeOK
    LiveMatchesConfig
    DeleteTakesEffect
PROPERTIES
    PoisonedConfigLeavesTraffic
    RebuiltAsAWhole
    RequestAnswered
    EmptyListRefilled
    ImplementsServiceDirectory
