SPECIFICATION Spec
CONSTANTS
    Lower <- MCLower
    PrefixesOf <- MCPrefixes
    Formatted <- MCFormatted
    Rounded <- MCRounded
    Configs <- MCConfigs
    Batches <- MCBatches
    Asks <- MCAsks
    HeaderLists <- MCHeaders
    Calls <- MCCalls
    MaxBoots = 2
    MaxRows = 2
INVARIANTS
    WithheldLeavesNoTrace
    StricterShowsLess
    FoundByKey
    ShownAsSent
    FailsForCause
    OneDoor
    HelpersAgree
    EmittedFound
CHECK_DEADLOCK FALSE
