SPECIFICATION Spec
CONSTANTS
    a = a
    b = b
    nobody = nobody
    unlit = unlit
    Cids <- MCCids
    Infos <- MCInfos
    Slots <- MCSlots
    Levels <- MCLevels
    NoOwner <- MCNoOwner
    NoLevel <- MCNoLevel
    MaxSourceRows <- MCMaxSourceRows
    MaxDataRows <- MCMaxDataRows
SYMMETRY MCSymmetry
CHECK_DEADLOCK FALSE
INVARIANTS
    TypeOK
    ActiveSourcesNamed
    MarkersUnambiguous
    DataRowsAttributed
    LogTracksSources
    DataLogTracksMerge
PROPERTIES
    OnlyChangesLogged
    FollowsLifecycle
