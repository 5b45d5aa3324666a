SPECIFICATION Spec
CONSTANTS
  a = a
  b = b
  c = c
  h1 = h1
  h2 = h2
  w1 = w1
  w2 = w2
  Ids <- MCIds2
  Handlers <- MCHandlers
  Workers = {}
  Phones = {"ann"}
  Keys = {"k1", "k2"}
  Services = {"svc"}
  Resources = {"chair"}
  Windows = {}
  NoService = NoService
  WindowStart <- NoWindow
  WindowEnd <- NoWindow
  RequestLimit <- MCLimit
  ResourceLimit <- MCResources
  CreateForms <- BookCreates
  TransitionForms <- BookTransitions
  EditForms <- ApptEdits
  SettingsForms = {}
  ServiceForms <- ApptServices
  ResourceForms = {}
  SubscriptionForms = {}
  Configured <- ApptConfigured
  PhoneLimit = 2
  TotalLimit = 2
  ReplayTTL = 2
  AccessTTL = 1
  MaxOpen = 1
  MaxClock = 1
  MaxVersion = 3
SYMMETRY Symmetric2
INVARIANTS
  TypeOK
  NoDoubleBooking
  HistoryChain
PROPERTIES
  ImplementsBookings
