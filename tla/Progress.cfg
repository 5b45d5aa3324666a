SPECIFICATION FairSpec
CONSTANTS
  i1 = i1
  i2 = i2
  h1 = h1
  h2 = h2
  c1 = c1
  c2 = c2
  v1 = v1
  v2 = v2
  x = x
  y = y
  k1 = k1
  w1 = w1
  Default = Default
  Unspecified = Unspecified
  NoCode = NoCode
  Keep = Keep
  NoImage = NoImage
  Omit = Omit
  None = None
PROPERTIES
  WritesEnd
  RowFollowsStripe
CHECK_DEADLOCK FALSE
