CONSTANTS
    s1 = s1
    s2 = s2
    Ids <- MCIds
    None = None
    Torn = Torn
    MaxEvents = 2
    MaxRequests = 4
    MaxCrashes = 2
SPECIFICATION Spec
SYMMETRY Symmetry
CHECK_DEADLOCK FALSE
INVARIANTS
    TypeOK
    AcknowledgedSurvives
    DeletedStaysDeleted
    IndexNamesWritten
    IndexInStep
    KnownHasFile
