\* Health, rebalancing, shutdown and reload of a load_balance BU.
SPECIFICATION FairSpec
CONSTANTS
    Percent = 10
    FailureThreshold = 1
    RecoveryThreshold = 1
    MinUptime = 1
    InitConfigs <- AllConfigs
    Configs <- AllConfigs
    MaxReloads = 2
    DiffReloads = {1}
INVARIANTS TypeOK HealthyMeansConfigured SplitFollowsWeights NoStrayLoop
PROPERTIES SlowFailback WeightsReturn
