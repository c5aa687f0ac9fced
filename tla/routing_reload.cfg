\* A client connection during reloads of a BU without auto_failover; two
\* callbacks may overlap.
SPECIFICATION RFairSpec
CONSTANTS
    FailureThreshold = 1
    RecoveryThreshold = 1
    Cooldown = 0
    Window = 0
    MaxFailovers = 0
    AutoFailback = TRUE
    InitConfig <- PlainPrimary
    Configs <- SwitchConfigs
    Faulty <- NoClusters
    TimerIds = {t1, t2}
    ReloadIds = {r1, r2}
    MaxReloads = 3
    Conns = {c1}
INVARIANTS RTypeOK NewConnectionsUnaffected CountExact
PROPERTIES SettledSwitchTakesEffect
