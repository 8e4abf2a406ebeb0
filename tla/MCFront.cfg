CONSTANTS
    c1 = c1
    c2 = c2
    c3 = c3
    t1 = t1
    t2 = t2
    Connections = {c1, c2, c3}
    Tokens = {t1, t2}
    TokenOf <- Opened
    Limit = 1
    QueueSize = 1
    MaxMessages = 3
    acme = acme
    mystery = mystery
    Spellings = {"acme", "mystery", "Mystery"}
    Canonical <- IdOf
    Seeds = {acme}
    NativeNames = {"m"}
    Batches <- SomeBatches
    Dedup = 1
    Rules = {"accept", "reject"}
    Found <- SomeFound
    Ingests = {w1, w2}
    MaxBatches = 3
    Absent = Absent
SPECIFICATION FrontSpec
INVARIANTS
    PlacesCounted
    FeedHasNoGap
    RegistriesKeepUp
PROPERTY RevokedIsClosed
CHECK_DEADLOCK FALSE
