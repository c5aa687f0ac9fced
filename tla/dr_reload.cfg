\* A BU that a reload adds, and a second reload, racing autonomous failover,
\* aborts and stale drain timers; the first failover trips the breaker.
SPECIFICATION Spec
CONSTANTS
    FailureThreshold = 1
    RecoveryThreshold = 1
    Cooldown = 0
    Window = 1
    MaxFailovers = 1
    AutoFailback = FALSE
    InitConfig <- Missing
    Configs <- AutoConfigs
    Faulty <- AllClusters
    TimerIds = {t1, t2}
    ReloadIds = {r1}
    MaxReloads = 2
SYMMETRY Symmetry
INVARIANTS TypeOK DrainHasTimer DrainingNotOrphaned BothDownRecoverable
PROPERTIES StateFollowsGraph
