SPECIFICATION UsageSpec
CONSTANTS
    u1 = u1
    g1 = g1
    Attempts = {u1}
    Legacy = {u1}
    UsageDays = {1, 2}
    SourceDays = {}
    SourceSizes = {}
    SessionOf <- NoSession
    Registered = {u1}
    Groups = {g1}
    GroupOf <- OneGroup
    LastSecond = {}
    Sizes = {1, 2}
    Quotes <- OneQuote
    V1Prices = {1}
    MaxAdmin = 0
    MaxViews = 0
    Imports = {}
    HostOf <- OneHost
    NoValue = NoValue
PROPERTY RollupsReflectKeepMax
