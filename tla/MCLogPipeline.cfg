SPECIFICATION Spec
CONSTANTS
    Universes <- MCUniverses
    QueueSize = 2
    BufferSize = 3
    FileSize = 4
    MaxFiles = 1
    MaxRows <- MCMaxRows
    MaxRuns = 2
INVARIANTS
    TypeOK
    RunsUnbroken
    CleanExitKeepsAll
    FilesBounded
PROPERTIES
    ImplementsDurableLog
    StallEnds
    ShutdownEnds
