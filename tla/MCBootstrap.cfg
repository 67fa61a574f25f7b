CHECK_DEADLOCK FALSE
SPECIFICATION Spec
CONSTANTS
    p1 = p1
    p2 = p2
    p3 = p3
    Process = {p1, p2, p3}
    Kind <- MCKind
    Username <- MCUsername
    SeedFile <- MCSeedFile
    NoGroup = NoGroup
    MaxCrashes = 1
    MaxDeletes = 2
    MaxGroups = 3
INVARIANTS
    TypeOK
    SeededRoutesWhole
    SeededTwiceOnlyByRace
    AdminReady
PROPERTIES
    SeedCompletes
    RepeatedStartServes
