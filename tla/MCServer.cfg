CONSTANTS
    dated = dated
    base = base
    NoTier = NoTier
    None = None
    LastDay = 2
    Models = {dated, base}
    Fallback <- Chain
    Grains <- TwoGrains
    Prices = {1, 2}
    ManualCards <- SomeCards
    MaxCards = 2
    Requests = {r1}
    a1 = a1
    a2 = a2
    Windows <- SomeWindows
    Accounts = {a1}
    Pcts = {20, 60}
    Posts = {p1, p2}
    GatewayBatches <- SomeBatches
    Interval = 2
    Block = 2
    Week = 3
    Lookback = 3
    MaxTime = 3
    MaxPolls = 2
    Resets = {1}
    MaxMishaps = 1
    Nil = Nil
    e1 = e1
    e2 = e2
    EventIds = {e1, e2}
    Machines = {m1}
    MachineOf <- OneMachine
    NativeModels = {fable}
    ModelOf <- OneModel
    Claude = {fable}
    MaxCount = 2
    Costs = {1}
    MaxFaults = 2
    Null = Null
    u1 = u1
    u2 = u2
    u3 = u3
    g1 = g1
    g2 = g2
    g3 = g3
    Attempts = {u1, u2, u3}
    Legacy = {u1, u3}
    UsageDays = {1, 2}
    SourceDays = {1}
    Groups = {g1, g2, g3}
    GroupOf <- Folded
    LastSecond = {u2}
    Sizes = {1, 2}
    SourceSizes <- SourcePairs
    s1 = s1
    SessionOf <- CollectorSession
    Registered = {u1}
    Quotes <- SomeQuotes
    V1Prices = {1}
    MaxAdmin = 1
    MaxViews = 1
    Imports <- SomeImports
    HostOf <- OneHost
    NoValue = NoValue
SPECIFICATION ServerSpec
SYMMETRY AlikePosts
INVARIANTS OneOpenCard LimitsSound
    UpgradeLosesNothing  
PROPERTIES ImportKeepsThePast ImportLeavesNoGap
CHECK_DEADLOCK FALSE
