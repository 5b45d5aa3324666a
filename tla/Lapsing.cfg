SPECIFICATION FairSpec
CONSTANTS
  a = a
  b = b
  c = c
  h1 = h1
  h2 = h2
  w1 = w1
  w2 = w2
  Ids = {a}
  Handlers = {h1}
  Workers = {w1}
  Phones = {"ann"}
  Keys = {"k1", "k2"}
  Services = {"svc"}
  Resources = {"chair"}
  Windows = {}
  NoService = NoService
  WindowStart <- NoWindow
  WindowEnd <- NoWindow
  RequestLimit <- MCLimit
  ResourceLimit <- MCResources
  CreateForms <- RaceCreates
  TransitionForms <- RaceTransitions
  EditForms <- LapseEdits
  SettingsForms = {}
  ServiceForms <- LapseServices
  ResourceForms <- LapseResources
  SubscriptionForms <- LapseSubs
  Configured <- RaceConfigured
  PhoneLimit = 2
  TotalLimit = 2
  ReplayTTL = 2
  AccessTTL = 1
  MaxOpen = 1
  MaxClock = 5
  MaxVersion = 2
PROPERTIES
  PendingResolved
