SPECIFICATION Spec
CONSTANTS
    t1 = t1 t2 = t2 metrics = metrics junk = junk
    s1 = s1 s2 = s2 s3 = s3 s3again = s3again
    m1 = m1 m2 = m2 m3 = m3 histogram = histogram
    k1 = k1 k2 = k2 k3 = k3 NoKey = NoKey Nobody = Nobody
    Requests = {metrics, junk}
    Records = {m1, m2, m3, histogram}
    Keys = {k1, k2, k3}
    Content <- MetricContent
    KeyOf <- NoKeys
    Poison = {}
    Unsupported = {histogram}
    Malformed = {junk}
    MaxAttempts = 2
    InMemory = FALSE
    MaxCrashes = 1
    MaxPowerLosses = 1
PROPERTY
    KeepsPromise
