\* Connections of a BU whose clusters both fail.
SPECIFICATION RSpec
CONSTANTS
    FailureThreshold = 1
    RecoveryThreshold = 1
    Cooldown = 0
    Window = 1
    MaxFailovers = 1
    AutoFailback = FALSE
    InitConfig <- AutoPrimary
    Configs <- NoConfigs
    Faulty <- AllClusters
    TimerIds = {t1, t2}
    ReloadIds = {}
    MaxReloads = 0
    Conns = {c1}
SYMMETRY Symmetry
PROPERTIES BothDownNeverFlaps
