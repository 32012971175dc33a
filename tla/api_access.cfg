CONSTANTS
  f1 = f1
  f2 = f2
  g = g
  here = here
  there = there
  Calls = {c1, c2, c3}
  Founders = {f1, f2, g}
  Workspaces = {here, there}
  Home <- TwoWorkspaces
  Grants <- Asked
  MaxRefs = 2
  MaxInFlight = 2
  None = None
SYMMETRY Symmetry
SPECIFICATION Spec
INVARIANTS
  WorkspacesAreApart
PROPERTIES
  RevokedSecretsGetNoNewUse
  LockoutNeedsARace
CHECK_DEADLOCK FALSE
