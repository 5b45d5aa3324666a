SPECIFICATION Spec
CONSTANTS
  a = a
  b = b
  c = c
  h1 = h1
  h2 = h2
  w1 = w1
  w2 = w2
  Ids = {a}
  Handlers = {h1}
  Workers <- Workers2
  Phones = {"ann"}
  Keys = {"k1", "k2"}
  Services = {"svc"}
  Resources = {"chair"}
  Windows = {}
  NoService = NoService
  WindowStart <- NoWindow
  WindowEnd <- NoWindow
  RequestLimit <- MCLimit
  ResourceLimit <- MCResources
  CreateForms <- RaceCreates
  TransitionForms <- RaceTransitions
  EditForms <- RaceEdits
  SettingsForms = {}
  ServiceForms = {}
  ResourceForms = {}
  SubscriptionForms = {}
  Configured <- RaceConfigured
  PhoneLimit = 2
  TotalLimit = 2
  ReplayTTL = 2
  AccessTTL = 1
  MaxOpen = 1
  MaxClock = 4
  MaxVersion = 3
SYMMETRY SymmetricRace
INVARIANTS
  PendingHasItsJob
  PendingEndsBeforeStart
  AccessFollowsRequest
PROPERTIES
  DecisionIsFinal
