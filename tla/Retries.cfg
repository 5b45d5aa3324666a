SPECIFICATION Spec
CONSTANTS
  a = a
  b = b
  c = c
  h1 = h1
  h2 = h2
  w1 = w1
  w2 = w2
  Ids <- MCIds3
  Handlers <- MCHandlers
  Workers = {}
  Phones = {"ann"}
  Keys = {"k1", "k2"}
  Services = {}
  Resources = {}
  Windows = {"noon"}
  NoService = NoService
  WindowStart <- RetryStart
  WindowEnd <- RetryEnd
  RequestLimit <- MCLimit
  ResourceLimit <- MCResources
  CreateForms <- RetryCreates
  TransitionForms <- RetryTransitions
  EditForms = {}
  SettingsForms = {}
  ServiceForms = {}
  ResourceForms = {}
  SubscriptionForms = {}
  Configured <- RetryConfigured
  PhoneLimit = 2
  TotalLimit = 9
  ReplayTTL = 3
  AccessTTL = 1
  MaxOpen = 2
  MaxClock = 5
  MaxVersion = 3
SYMMETRY Symmetric3
INVARIANTS
  CreatedOncePerKey
  PendingBounded
