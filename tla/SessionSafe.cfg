CONSTANTS
    Subjects <- MCSubjects
    Contexts <- MCContexts
    ValidContexts <- MCValidContexts
    Plans <- MCPlans
    Sessions = {s1}
    Clients = {c1, c2}
    Workers = {w1, w2}
    NoPlan = NoPlan
    MaxRequests = 3
SPECIFICATION Spec
INVARIANTS
    SafeStartNeverRaises
CHECK_DEADLOCK FALSE
