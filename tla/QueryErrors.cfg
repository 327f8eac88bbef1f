SPECIFICATION FairSpec
CONSTANTS
    s1 = s1 s2 = s2 s3 = s3 l1 = l1 l2 = l2 m1 = m1
    job = job trace = trace none = none r1 = r1 r2 = r2
    NoFilter = NoFilter Nobody = Nobody
    Rows = {s1, s3, l1}
    Data <- MCData
    Stamp <- MCStamp
    Batches <- Singles
    Readers = {r1}
    Asks <- JobOnly
    DefaultLimit = 1
    MaxLimit = 2
INVARIANT
    ErrorsReported
