CONSTANTS
    None = None
    Cap = 1
    MaxAlerts = 3
    MaxCalls = 1
    Viewers <- People
    Active = {"alice"}
    Ids = {a, b}
    Linked = {a}
    Tasks = {0}
    Texts = {n}
    Bodies <- PatchBodies
    Fresh <- OfAlice
    MaxWrites = 2
    MaxOthers = 1
    MaxPolls = 1
    NoUser = NoUser
    NoAccount = NoAccount
SPECIFICATION ScreensSpec
INVARIANTS ActsOnSeen RefusedOnlyIfStale
PROPERTIES ScreenSettles PageSettles
CHECK_DEADLOCK FALSE
