CONSTANTS
    Subjects <- MCSubjects
    Contexts <- MCContexts
    ValidContexts <- MCValidContexts
    OfficialContexts <- MCValidContexts
    WordsIn <- MCWordsIn
    Plans <- MCPlans
    MaxAttempts = 2
    MaxRuns = 2
SPECIFICATION Spec
INVARIANTS
    TypeOK
    RetriesNeverOverlap
    OnlyConsentedChange
    VerdictsMatchResults
    CertifiedUnlessLost
PROPERTIES
    ImplementsExecutor
CHECK_DEADLOCK FALSE
