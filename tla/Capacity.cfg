SPECIFICATION Spec
CONSTANTS
  a = a
  b = b
  c = c
  h1 = h1
  h2 = h2
  w1 = w1
  w2 = w2
  Ids <- MCIds2
  Handlers <- MCHandlers
  Workers = {}
  Phones = {"ann"}
  Keys = {"k1", "k2"}
  Services = {}
  Resources = {}
  Windows = {"noon", "later"}
  NoService = NoService
  WindowStart <- MCWindowStart
  WindowEnd <- MCWindowEnd
  RequestLimit <- MCLimit
  ResourceLimit <- MCResources
  CreateForms <- OrderCreates
  TransitionForms <- OrderTransitions
  EditForms <- OrderEdits
  SettingsForms <- OrderSettings
  ServiceForms = {}
  ResourceForms = {}
  SubscriptionForms <- OrderSubs
  Configured <- OrderConfigured
  PhoneLimit = 2
  TotalLimit = 2
  ReplayTTL = 2
  AccessTTL = 1
  MaxOpen = 0
  MaxClock = 1
  MaxVersion = 3
SYMMETRY Symmetric2
INVARIANTS
  ChargedIffHeld
PROPERTIES
  PickupCapacity
  QuotaRespected
