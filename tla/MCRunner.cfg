SPECIFICATION Spec
CONSTANTS
    none = none
    Universes <- MCUniverses
    Configs <- MCConfigs
    NoUniverse <- MCNoUniverse
    MaxReconfigs = 1
    MaxSpace <- MCMaxSpace
    DefaultLow <- MCDefaultLow
    DefaultCritical <- MCDefaultCritical
INVARIANTS
    TypeOK
    CriticalStopLasts
    RunningMonitorsConfig
    ReceiversOwned
    CleanExit
PROPERTIES
    TermLeadsToExit
    CriticalEventuallyStops
