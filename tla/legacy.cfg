\* Dials of a load_balance BU failing and succeeding at will.
SPECIFICATION FairSpec
CONSTANTS
    FailureThreshold = 2
    RecoveryThreshold = 2
    MinUptime = 2
    Cooldown = 3
    Window = 7
    MaxFailovers = 3
    OriginalWeight <- Split
INVARIANTS TypeOK FlapsBounded OnlyUpSelected
PROPERTIES NoPingPong RecoversForGood
