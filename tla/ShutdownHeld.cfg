SPECIFICATION FairSpec
CONSTANTS
    rpc1 = rpc1 rpc2 = rpc2 post = post get = get tool = tool
    Calls = {rpc1, rpc2, post}
    ServerOf <- MCServerOf
CHECK_DEADLOCK FALSE
PROPERTY
    ShutdownEnds
