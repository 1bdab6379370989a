CONSTANTS
    c1 = c1
    c2 = c2
    m1 = m1
    u1 = u1
    k1 = k1
    k2 = k2
    n1 = n1
    n2 = n2
    NoName = NoName
    Names <- MCNames
    Clients <- MCClients
    Models = {m1}
    Urls = {u1}
    Keys = {k1, k2}
    Environments <- MCEnvironments
    Payloads <- MCPayloads
    Absent = Absent
    Corrupt = Corrupt
    MaxRequests = 3
    MaxCrashes = 1
SPECIFICATION Spec
SYMMETRY Symmetry
CHECK_DEADLOCK FALSE
INVARIANTS
    TypeOK
    ShownWasTested
    ProbeOutlivesNoUpdate
    EnabledCanBeBuilt
PROPERTIES
    PublishesWhole
    KeyLostOnlyByRace
