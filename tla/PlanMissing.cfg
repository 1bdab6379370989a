CONSTANTS
    Subjects <- MCSubjects
    Contexts <- MCContexts
    ValidContexts <- MCValidContexts
    Tools <- MCTools
    Mentions <- MCMentions
    Resolved <- MCResolved
    KnownAlias <- MCKnownAlias
    NoTool = "no tool"
    Requests <- MCRequests
    Goals <- MCGoals
    Reports <- MCReports
    LlmIntents <- MCLlmIntents
    LlmAnswers <- MCLlmAnswers
    Strategies <- MCStrategies
    Names <- MCNames
    Versions = {"1"}
    Rests = {"catalog", "package", "llm1", "llm2"}
    CatalogRest = "catalog"
    PackageRest = "package"
SPECIFICATION Spec
INVARIANTS
    MissingToolHasDelta
CHECK_DEADLOCK FALSE
