CONSTANTS
    IPs = {i, j}
    MaxBlocked = 1
    MaxCached = 1
    Slices <- EachKind
    MaxSelects = 3
    MaxRequests = 3
    Nothing = Nothing
SPECIFICATION PanelSpec
INVARIANT BlockShown
PROPERTY SpinnersEnd
