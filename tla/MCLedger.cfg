CONSTANTS
    a = a
    b = b
    NoRow = NoRow
    NoUnits = NoUnits
    Details = {"d1", "d2"}
    UnitSets = {"u1", "u2"}
    Ids = {a, b}
    Sessions = {s1}
    Batches <- LifeBatches
SPECIFICATION Spec
INVARIANT TypeOK
INVARIANT NothingNewerIgnored
INVARIANT ReportsKept
PROPERTY SupersedesInOrder
PROPERTY ArchiveComplete
