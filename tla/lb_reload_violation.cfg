\* Two reloads, one after the other or overlapping.
SPECIFICATION FairSpec
CONSTANTS
    Percent = 10
    FailureThreshold = 1
    RecoveryThreshold = 1
    MinUptime = 1
    InitConfigs <- AutoConfigs
    Configs <- AutoConfigs
    MaxReloads = 2
    DiffReloads = {1, 2}
PROPERTIES ReloadReturns
