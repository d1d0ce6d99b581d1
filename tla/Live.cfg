CONSTANTS
    Sockets = {s1, s2}
    QueueSize = 1
    MaxPending = 2
    NoSocket = NoSocket
SPECIFICATION StreamSpec
INVARIANTS OneFeed QuietAfterLogout
PROPERTIES GoneClientsForgotten Reconnects
