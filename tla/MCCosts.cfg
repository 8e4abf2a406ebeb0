CONSTANTS
    Absent = Absent
    Unpriced = Unpriced
    EventPrices = {1}
    Events = {e1, e2}
    Sweeper = Sweeper
    Jobs = {Sweeper, admin1}
    BatchSize = 2
    MaxVersion = 3
    MaxFailures = 1
SPECIFICATION SmallSpec
PROPERTIES CostHistoryKept EventuallyCosted
CHECK_DEADLOCK FALSE
