CONSTANTS
    Subjects <- MCSubjects
    Contexts <- MCContexts
    ValidContexts <- MCValidContexts
    Plans <- SessionPlans
    Candidates <- SessionCandidates
    RunModes = {"real"}
    Attended = {TRUE}
    Answers = {TRUE}
    PackageOf <- MCPackageOf
    MaxAttempts = 1
    MaxReplans = 1
SPECIFICATION Spec
PROPERTIES
    ImplementsLoop
CHECK_DEADLOCK FALSE
