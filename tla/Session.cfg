CONSTANTS
    Subjects <- MCSubjects
    Contexts <- MCContexts
    ValidContexts <- MCValidContexts
    Plans <- MCPlans
    Sessions = {s1}
    Clients = {c1, c2}
    Workers = {w1, w2}
    NoPlan = NoPlan
    MaxRequests = 5
SPECIFICATION Spec
SYMMETRY ThreadSymmetry
INVARIANTS
    TypeOK
    OneRunPerSession
    OnlyApprovedInvoked
    RunFollowsLastWord
    NoFalseEvidence
    RunsAreClosed
PROPERTIES
    QuietIsForever
    ImplementsContract
CHECK_DEADLOCK FALSE
