SPECIFICATION FairParts
CONSTANTS
  w1 = w1
  w2 = w2
  Workers <- MCWorkerPair
  Messages = {1, 2}
  Poison = {1}
  BatchSize = 2
  Visibility = 4
  Deadline = 2
  Slack = 1
  MaxReads = 2
  MaxDelay = 3
  Step = 1
PROPERTIES
  EachSettles
  SweepsCatchUp
