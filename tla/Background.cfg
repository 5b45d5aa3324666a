SPECIFICATION PartsSpec
CONSTANTS
  w1 = w1
  w2 = w2
  Workers <- MCWorkerPair
  Messages = {1, 2, 3}
  Poison = {1}
  BatchSize = 2
  Visibility = 4
  Deadline = 2
  Slack = 1
  MaxReads = 3
  MaxDelay = 3
  Step = 2
  Appointments = {1, 2}
  Preorders = {3}
  Customers = {1, 2, 3}
  Litter = {"archive"}
  Refused = {}
  PageSize = 1
  Rows = {1, 2, 3}
  Limits = {1, 2}
  MaxTime = 3
  Requests = {1, 2, 3, 4, 5}
  PeriodEnd = 3
  ExportPage = 2
  Cap = 3
  MaxChanges = 2
SYMMETRY Symmetric
INVARIANTS
  TypeOK
  OneWorkerPerMessage
  NobodySkipped
  StableListedOnce
  ExportsAreWhole
PROPERTY DeliversOnce
