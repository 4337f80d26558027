SPECIFICATION Spec
CONSTANTS
    MaxSpace <- MCMaxSpace
    DefaultLow <- MCDefaultLow
    DefaultCritical <- MCDefaultCritical
INVARIANTS
    TypeOK
    SignalMatchesThresholds
    OneSignalPerShortage
PROPERTIES
    ShortageSignalled
    StopReturns
