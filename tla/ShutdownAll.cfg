SPECIFICATION FairSpec
CONSTANTS
    rpc1 = rpc1 rpc2 = rpc2 post = post get = get tool = tool
    Calls = {rpc1, post, get, tool}
    ServerOf <- MCServerOf
CHECK_DEADLOCK FALSE
INVARIANTS
    ShutdownInv
    GrpcNeverCut
    HttpCutOnlyLate
    StoreOutlivesServers
PROPERTY
    HttpPhaseEnds
