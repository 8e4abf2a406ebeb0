CONSTANTS
    f1 = f1
    a = a
    b = b
    NoFile = NoFile
    Passed = Passed
    Scalar = Scalar
    Files = {f1}
    EventIds = {a, b}
    Outputs = {1, 2}
    NewLines <- GrowingLines
    BadEvents <- NoEvents
    WithBootstrap = TRUE
    BatchSize = 1
    MaxLines <- Two
    MaxRotations <- F1Never
    MaxInTransit = 2
    MaxAborts = 1
    MaxPolls = 1
    MaxCrashes = 1
SPECIFICATION Spec
INVARIANT CollectorLosesNothing
PROPERTY DeliversAsPromised
