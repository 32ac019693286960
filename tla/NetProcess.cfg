SPECIFICATION MCSpec
CONSTANTS
    c1 = c1
    c2 = c2
    Conns = {c1, c2}
    MaxFetches = 2
    Fetches <- MCFetches
    ChannelCap = 1
    SocketCap = 1
    MaxLaunches = 2
INVARIANTS
    FetchIsWhole
PROPERTIES
    FetchReturns
    HandlerEnds
    EngineReady
\* The clients and netproc end, and nothing is left to do.
CHECK_DEADLOCK FALSE
