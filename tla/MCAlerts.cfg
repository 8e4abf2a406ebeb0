CONSTANTS
    None = None
    s1 = s1
    s2 = s2
    Sources = {s1, s2}
    Named = {s1, s2}
    Requests = {r1}
    MaxTime = 4
    ErrorWindow = 2
    MaxErrors = 1
    Loop = Loop
    Manual = Manual
    Cooldown = 2
    StaleAfter = 1
    DriftAfter = 1
    Deployments <- SomeDeployments
    Nil = Nil
    writer = writer
    laptop = laptop
    gateway = gateway
    prompt = prompt
    region = region
    Labels = {writer}
    Bootstrap = Bootstrap
    Mints <- SomeMints
    Workloads <- SomeWorkloads
    Slots = {q1, q2}
    ContentLike = {prompt}
    Policies <- SomePolicies
    MaxBytes = 2
    MaxEvents = 2
    Capacity = 6
    Refill = 2
    Price = 3
    MaxClock = 2
    acme = acme
SPECIFICATION PartSpec
INVARIANTS StateMatchesHistory GatesHold BucketsExact
PROPERTIES RevocationSticks NoticesHold EventuallyNoticed
CHECK_DEADLOCK FALSE
