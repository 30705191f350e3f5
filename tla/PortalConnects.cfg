SPECIFICATION FairSpec
CONSTANTS
  p1 = p1
  Plans = {p1}
  NewPlan = NewPlan
  Prices <- OnePrice
  NotSold = NotSold
  Seed <- SeedOne
  Fallback <- SeedOne
  Requests = {r1}
  Pushes = {k1}
  NoPush = NoPush
  PollLimit = 2
  MaxClicks = 1

CHECK_DEADLOCK FALSE
PROPERTIES
  PortalConnects
