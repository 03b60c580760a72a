SPECIFICATION FairSpec
CONSTANTS
    api = api  worker = worker
    None = None
    Services = {api, worker}
    Servers = {api}
    RetryDelay = 5000
    OldDelays = {None, 5000, 9000}
    MigrateAttempts = 2
    DatabaseAttempts = 2
    MaxOutages = 3
INVARIANTS SchemaIsMigrated SchemaFitsServices TrafficFindsTopology
PROPERTIES EveryServiceServes
CHECK_DEADLOCK FALSE
