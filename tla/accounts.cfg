CONSTANTS
  Calls = {c1, c2, c3}
  Emails = {e1, e2, e3}
  Founders = {e1, e2}
  Roles = {"admin", "viewer"}
  Local = TRUE
  MaxInFlight = 3
  None = None
SYMMETRY Symmetry
SPECIFICATION Spec
PROPERTY
  ImplementsUserDirectory
INVARIANTS
  AuditTellsWhoExists
  SessionsAreYoungerThanPassword
  LinkTellsItsUse
  AcceptanceIsKept
  LastAdminFallsToARace
CHECK_DEADLOCK FALSE
