SPECIFICATION Spec
CONSTANTS
    Runners = {"r1"}
    Models = {"m", "n"}
    DriverOf <- MCDriver
    Presets <- MCPresets
    Sources <- MCSources
    Grants <- MCGrants
    Tier <- MCTier
    Variant <- MCVariant
CHECK_DEADLOCK FALSE
INVARIANTS RowsResolve NoEscalation ProbesMatch
