\* Autonomous failover and failback with cooldown, both clusters failing.
SPECIFICATION FairSpec
CONSTANTS
    FailureThreshold = 1
    RecoveryThreshold = 1
    Cooldown = 1
    Window = 1
    MaxFailovers = 2
    AutoFailback = TRUE
    InitConfig <- AutoPrimary
    Configs <- NoConfigs
    Faulty <- AllClusters
    TimerIds = {t1, t2}
    ReloadIds = {}
    MaxReloads = 0
INVARIANTS FailoversSpaced
PROPERTIES DrainingEnds BothDownEnds FailoverHappens
