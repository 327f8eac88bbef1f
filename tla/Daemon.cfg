SPECIFICATION DaemonSpec
CONSTANTS
    trace = trace metrics = metrics logs = logs
    s1 = s1 s2 = s2 histogram = histogram m1 = m1 m2 = m2 l1 = l1 nan = nan
    k1 = k1 k2 = k2 NoKey = NoKey Nobody = Nobody
    Requests = {trace, metrics, logs}
    Records = {s1, s2, histogram, m1, m2, l1, nan}
    Keys = {k1, k2}
    Content <- MCContent
    KeyOf <- MCKey
    SignalOf <- MCSignal
    StampOf <- MCStamp
    Poison = {nan}
    Unsupported = {histogram}
    Malformed = {}
    MaxAttempts = 2
    InMemory = TRUE
    MaxCrashes = 0
    MaxPowerLosses = 0
    Window = 1
    Cap = 3
    EmptyPages = 1
    Batch = 1
    MaxNow = 3
    MaxErrors = 1
    MaxSent = 1
INVARIANTS
    AckedUntilSwept
    OthersSpansExpired
PROPERTIES
    KeepsRetention
    AttemptEnds
    SweepEnds
