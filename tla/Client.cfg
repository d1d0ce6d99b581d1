SPECIFICATION Spec
CONSTANTS
  Tabs = {t}
  Other = other
  Users = {u, v}
  None = None
  MaxSessions = 2
  MaxCalls = 2
INVARIANT ShownIsSession
PROPERTIES KeepsCookie EndedLeads
CHECK_DEADLOCK FALSE
