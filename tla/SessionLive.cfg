CONSTANTS
    Subjects <- MCSubjects
    Contexts <- MCContexts
    ValidContexts <- MCValidContexts
    Plans <- MCShortPlans
    Sessions = {s1}
    Clients = {c1, c2}
    Workers = {w1, w2}
    NoPlan = NoPlan
    MaxRequests = 4
SPECIFICATION FairSpec
PROPERTIES
    EveryStartEnds
    NoStuckExecution
CHECK_DEADLOCK FALSE
