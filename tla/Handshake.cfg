SPECIFICATION FairSpec
CONSTANTS
    MainLen = 2
    TagSize = 1
    MinHostLen = 1
    HostLenMod = 2
    HostLens = {0, 1, 3}
    PadStart = 1
    PadEnd = 3
    SpecialLen = 2
    SpecialPads = {2, 4}
    ReplyHeaderLen = 1
    ReplyLen = 2
    Delay = 2
    SpecialDelay = 3
    CooldownStart = 1
    CooldownEnd = 3
    Starts = {6}
    MaxTime = 9
    Skews <- SkewsOfOne
    MaxExtra = 1
INVARIANTS TunnelFollowsRequest TimelyAccepted WindowBounded
PROPERTIES Decided AskedEnds
