SPECIFICATION FairSpec
CONSTANTS
  Sessions = {s1}
  Fabricated = {s1}
  Starting = Starting
  Logins = {k1, k2}
  NoLogin = NoLogin
  NoData = NoData
  Others = {o1}
  MaxLoad = 3
  MaxFaults = 1

CHECK_DEADLOCK FALSE
INVARIANTS
  TypeOK
  IndicatorIsTruthful
  CutWasReported
PROPERTIES
  LoginEndsForCause
  CatchesUp
