CONSTANTS
    Reports <- SomeReports
    Bad <- SomeBad
    Size <- Sizes
    Calls <- SomeCalls
    BatchSize = 4
    MaxBytes = 4
    MaxRetries = 1
    MaxCalls = 2
    Limit = 1
    Deployments <- SomeDeployments
    None = None
    Absent = Absent
    Exports <- SomeExports
    SystemId <- Systems
    ContentAttrs = {"gen_ai.prompt"}
    ContentKeys = {"gen_ai.prompt", "user_message"}
    WellFormedIds = {"b7ad"}
    Unknown = "unknown"
    MaxSends = 5
SPECIFICATION ViaSpec
INVARIANTS
    PoisonIsolated
    RequestsAgree
    WalkStable
    ExportsFaithful
PROPERTIES
    ReplaysChangeNothing
    EventuallyAnswered
CHECK_DEADLOCK FALSE
