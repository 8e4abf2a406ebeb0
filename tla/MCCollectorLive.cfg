CONSTANTS
    f1 = f1
    a = a
    b = b
    NoFile = NoFile
    Passed = Passed
    Scalar = Scalar
    Files = {f1}
    EventIds = {a, b}
    Outputs = {1, 2}
    NewLines <- OneFileLines
    BadEvents <- RefusedEvents
    WithBootstrap = FALSE
    BatchSize = 1
    MaxLines <- Two
    MaxRotations <- F1Once
    MaxInTransit = 2
    MaxAborts = 0
    MaxPolls = 0
    MaxCrashes = 1
SPECIFICATION FairSpec
PROPERTY EventuallyRecorded
