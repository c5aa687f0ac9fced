\* Reloads that change active: and change it back, without auto_failover.
SPECIFICATION FairSpec
CONSTANTS
    FailureThreshold = 1
    RecoveryThreshold = 1
    Cooldown = 0
    Window = 0
    MaxFailovers = 0
    AutoFailback = TRUE
    InitConfig <- PlainPrimary
    Configs <- SwitchConfigs
    Faulty <- NoClusters
    TimerIds = {t1, t2}
    ReloadIds = {r1}
    MaxReloads = 2
PROPERTIES ReloadTakesEffect
