CONSTANTS
    Nodes = {n1}
    None = None
    MaxConns = 4
    ChannelCap = 1
    WireCap = 1
    MaxSends = 2
    MaxBreaks = 1
    MaxChanges = 2
SPECIFICATION LinkSpec
CHECK_DEADLOCK FALSE
PROPERTIES
    CommandsExactlyOnce
    NobodyWaitsForever
    RelayTakesOver
    WatcherSettles
