SPECIFICATION PartsSpec
CONSTANTS
  i1 = i1
  i2 = i2
  i3 = i3
  h1 = h1
  h2 = h2
  h3 = h3
  c1 = c1
  c2 = c2
  v1 = v1
  Default = Default
  Unspecified = Unspecified
  NoCode = NoCode
  Keep = Keep
  Omit = Omit
  Handlers <- MCHandlers
  Ids <- MCIds
  Keys = {"k1", "k2", "k3"}
  Users = {"ann"}
  Locations = {"shop"}
  Rest = {"plain"}
  MaxLevel = 2
  CreateForms <- MCCreates
  EditForms <- MCEdits
  NoImage = NoImage
  NoVariant = NoVariant
  Calls <- MCCalls
  Variants = {v1}
  Codes = {}
  ImageAsks <- MCImageAsks
  PublicAsks <- MCPublicAsks
  TrackAsks = {TRUE}
  AskedStatuses = {"active", "archived"}
  Statuses = {"draft", "active", "archived"}
  Orderable = {"a", "b"}
  Prices = {1, 3}
  MaxPrice = 3
  Scale = 2
  MaxTotal = 7
  MaxItems = 2
  SettingsBodies <- MCSettings
  Baskets <- MCBaskets
  Finals = {3}
  MaxOrders = 1
SYMMETRY Symmetric
INVARIANTS
  RowsAreSound
  DeletionsNeverDeadlock
PROPERTIES
  ImplementsLedger
  VariantsAreAsAsked
  PlacedAsOffered
CHECK_DEADLOCK FALSE
