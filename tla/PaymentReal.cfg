SPECIFICATION Spec
CONSTANTS
  RealSTK = TRUE
  MaxFaults = 2
  MaxCrashes = 1
  Checkouts = {c1}
  Tries = {t1, t2, t3}
  Macs = {m1}
  Plans = {p1}
  Ips = {ip1}
  NoDevice = NoDevice
SYMMETRY Symmetry
CHECK_DEADLOCK FALSE
INVARIANTS TypeOK AccessOnlyIfReported CompletedHasAccess
PROPERTIES CompletedStays SessionLifecycle
