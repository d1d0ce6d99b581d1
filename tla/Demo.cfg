CONSTANTS
    Users <- AllUsers
    ServerIds = {"s1"}
    DemoIds <- OneCase
    IPs = {i}
    Alerts = {a}
    Fresh <- FreshIncidents
    Patches <- Bodies
    MaxWrites = 3
    MaxAnswers = 2
    NoUser = NoUser
    NoAccount = NoAccount
    None = None
SPECIFICATION Spec
INVARIANTS NeverPretends ScreensKeepWrites
PROPERTY SimulationPermits
