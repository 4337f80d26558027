SPECIFICATION Spec
CONSTANTS
    none = none
    Universes <- MCUniverses
    Configs <- MCConfigs
    NoUniverse <- MCNoUniverse
    MaxReconfigs = 0
    MaxSpace <- MCMaxSpace
    DefaultLow <- MCDefaultLow
    DefaultCritical <- MCDefaultCritical
INVARIANT
    CallbackHasHandler
