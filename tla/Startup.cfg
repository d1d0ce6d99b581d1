SPECIFICATION Spec
CONSTANTS
  NoUser = NoUser
  NoAccount = NoAccount
  NoPassword = NoPassword
  Late = Late
  ana = ana
  Users = {adm, ana}
  Admin = adm
  DemoRole <- Roster
  Passwords = {admindemo, pub, p1}
  AdminDemo = admindemo
  Public = pub
  p1 = p1
  Tables <- OlderTables
  FirstKey = 1
  Retired = {}
  Writers = {w1, w2}
  Logins = {l1}
  UseDb = TRUE
  MaxKey = 3
SYMMETRY Symmetry
INVARIANTS ServesOneAdmin KeyNeverOlder AgreeAtRest DeletedForGood PublicPasswordsDead SessionsKnowPassword RefusedForCause
CHECK_DEADLOCK FALSE
