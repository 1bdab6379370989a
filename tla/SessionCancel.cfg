CONSTANTS
    Subjects <- MCSubjects
    Contexts <- MCContexts
    ValidContexts <- MCValidContexts
    Plans <- MCPlans
    Sessions = {s1}
    Clients = {c1, c2}
    Workers = {w1, w2}
    NoPlan = NoPlan
    MaxRequests = 4
SPECIFICATION Spec
PROPERTIES
    CancelIsFinal
CHECK_DEADLOCK FALSE
