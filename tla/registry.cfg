SPECIFICATION Spec
CONSTANTS
    Runners = {"r1", "r2"}
    Models = {"m"}
    Order <- MCOrder
    Enabled = {"r1", "r2"}
    DriverOf <- MCDriver
    Presets <- MCPresets
    Sources <- MCSources
    Grants <- MCGrants
    Tier <- MCTier
    Variant <- MCVariant
    Allowed <- MCAllowed
    Configured <- MCConfigured
    CachedDiscovery = {"r2"}
    Clients = {"c1", "c2"}
    Asks <- MCAsks
    TTL = 1
    CacheTTL = 2
    CallTime = 1
    MaxChanges = 1
    MaxFaults = 1
    MaxRequests = 2
CHECK_DEADLOCK FALSE
PROPERTIES NoStorm SpawnedIsListed DynamicIsListed AnswersAreFresh
