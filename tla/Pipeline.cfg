CONSTANTS
    Subjects <- MCSubjects
    Contexts <- MCContexts
    ValidContexts <- MCValidContexts
    Plans <- CliPlans
    Candidates <- CliCandidates
    RunModes = {"safe", "real"}
    Attended = {TRUE, FALSE}
    Answers = {TRUE, FALSE}
    PackageOf <- MCPackageOf
    MaxAttempts = 2
    MaxReplans = 2
SPECIFICATION FairSpec
INVARIANTS
    TypeOK
    ConsentBeforeInvocation
    FailureStops
    NothingDropped
PROPERTIES
    EveryStepUsesUp
    Terminates
CHECK_DEADLOCK FALSE
