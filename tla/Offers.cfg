SPECIFICATION PartsSpec
CONSTANTS
  k1 = k1
  k2 = k2
  w1 = w1
  r1 = r1
  r2 = r2
  None = None
  stand = stand
  cart = cart
  van = van
  Blank = Blank
  Null = Null
  DayLength = 6
  Inputs <- MCInputs
  Shops = {stand, cart, van}
  Rows <- MCRows
  Queries <- MCQueries
  Words <- MCWords
  Lower <- MCLower
  Key <- MCKey
  PerPage = 2
  Keys <- MCKeys
  Workers <- MCWorkers
  Resources <- MCResources
  Plans <- MCPlans
  Wants <- MCWants
  MaxVersion = 1
  MaxTries = 2
  Interrupted = TRUE
INVARIANTS
  AccessWasPaidFor
  ChangesAreCarriedOut
  SlotsAreTheOpenings
  FoundWhereItServes
