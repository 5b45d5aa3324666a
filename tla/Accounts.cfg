SPECIFICATION Spec
CONSTANTS
  u1 = u1
  u2 = u2
  o1 = o1
  o2 = o2
  c1 = c1
  c2 = c2
  c3 = c3
  k1 = k1
  k2 = k2
  r1 = r1
  r2 = r2
  None = None
  plaza = plaza
  plazaAgain = plazaAgain
  centre = centre
  north = north
  Users <- MCUsers
  Orgs <- MCOrgs
  ClerkRoles = {"org:admin", "org:guest"}
  MaxChanges = 3
  MaxTokens = 1
  Keys <- MCKeys
  Plans = {"essential", "business"}
  MaxSessions = 3
  MaxTries = 2
  Replacements <- MCReplacements
  Weeks <- MCWeeks
  Edits <- MCEdits
  Bodies <- MCBodies
  Areas <- MCAreas
  AreaKeys <- MCAreas
  Key <- MCAreaKey
  MaxAreas = 2
  Tokens <- MCTokens
  Kids <- MCKeys
  FreshFor = 2
  Timeout = 1
  MaxTime = 4
SYMMETRY Symmetric
INVARIANTS
  SyncedWhenApart
  LastWeekIsWhole
  ValidUnlessStale
  OneOpenSession
  KeysAreCurrent
PROPERTIES
  StaleRoleNeedsBoth
  ReplacedWhenApart
CHECK_DEADLOCK FALSE
