SPECIFICATION FairSpec
CONSTANTS
  p1 = p1
  Plans = {p1}
  NewPlan = NewPlan
  Prices <- TwoPrices
  NotSold = NotSold
  Seed <- SeedOne
  Fallback <- SeedOne
  Requests = {r1, r2}
  Pushes = {k1, k2}
  NoPush = NoPush
  PollLimit = 1
  MaxClicks = 3

CHECK_DEADLOCK FALSE
INVARIANTS
  TypeOK
  AmountIsCharged
  OnePushAtATime
  ChargedAsSoldOnce
  ModalIsWhatWasOpened
PROPERTIES
  FairSale
  WaitingEnds
  PanelCatchesUp
