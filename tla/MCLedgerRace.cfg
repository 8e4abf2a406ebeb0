CONSTANTS
    a = a
    b = b
    NoRow = NoRow
    NoUnits = NoUnits
    Details = {"d1", "d2"}
    UnitSets = {"u1", "u2"}
    Ids = {a}
    Sessions = {s1, s2}
    Batches <- RaceBatches
SPECIFICATION Spec
PROPERTY SupersedesInOrder
