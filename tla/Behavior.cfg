CONSTANTS
    IPs = {i}
    Requests = {r1, r2}
    Scores = {0, 3}
    Window = 2
    IpCap = 2
    MinEvents = 2
    LastEvents = 1
    Defaults <- DefaultSettings
    Limits <- SmallLimits
    Patches <- SmallPatches
    MaxHeard = 2
    None = None
SPECIFICATION BehaviorSpec
INVARIANT SettingsFollow
PROPERTIES CooldownKept HotIpsKeepRaising
