SPECIFICATION FairSpec
CONSTANTS
  RealSTK = FALSE
  MaxFaults = 0
  MaxCrashes = 1
  Checkouts = {c1, c2}
  Tries = {t1}
  Macs = {m1, m2}
  Plans = {p1, p2}
  Ips = {ip1}
  NoDevice = NoDevice
CHECK_DEADLOCK FALSE
INVARIANTS ConfirmedIsActivated SessionsAreBacked
PROPERTIES CompletedIsFinal AnsweredIsCompleted
