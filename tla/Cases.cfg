SPECIFICATION Spec
CONSTANTS
  NoUser = NoUser
  NoAccount = NoAccount
  NoCase = NoCase
  adm = adm
  i1 = i1
  Users = {adm, ana}
  Role <- Roster
  Ips = {i1, i2}
  Tasks = {0}
  Requests = {r1, r2}
  Cascade = TRUE
  ClearAbove = 1
  MemoryCap = 2
  MaxId = 3
  Bound <- FewerWithDb
SYMMETRY Symmetry
INVARIANTS IdsNeverClash
PROPERTIES BookSpec NewCaseIsEmpty
CHECK_DEADLOCK FALSE
