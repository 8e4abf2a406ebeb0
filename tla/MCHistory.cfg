CONSTANTS
    None = None
    e1 = e1
    e2 = e2
    e3 = e3
    g1 = g1
    g2 = g2
    LastDay = 5
    Groups = {g1, g2}
    Events = {e1, e2, e3}
    EventDay <- DayOf
    EventGroup <- GroupOf
    MaxTokens = 2
    Writers = {w1}
    Retention = 2
    RawBatch = 1
    Imports <- SomeImports
    Criteria <- SomeCriteria
    Deployments <- Mixed
    snapshot = snapshot
    correction = correction
    day1 = day1
    limit1 = limit1
    limit2 = limit2
    Items = {snapshot, correction, day1, limit1, limit2}
    TableOf <- Tables
    ReasonOf <- Reasons
    StampsOf <- Stamps
    DayLength = 2
    DefaultRules <- Shipped
    Edits <- SomeEdits
    BatchSize = 1
    LastTick = 4
    MaxEdits = 1
    Unset = Unset
    Gone = Gone
SPECIFICATION BothSpec
INVARIANTS TotalsHonest StatusIsTrue
PROPERTIES DeletesOnlyCounted EventuallySwept OnlyExpiredRemoved
CHECK_DEADLOCK FALSE
