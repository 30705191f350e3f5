SPECIFICATION Spec
CONSTANTS
  RealSTK = TRUE
  MaxFaults = 0
  MaxCrashes = 0
  Checkouts = {c1}
  Tries = {t1, t2}
  Macs = {m1}
  Plans = {p1}
  Ips = {ip1}
  NoDevice = NoDevice

CHECK_DEADLOCK FALSE
INVARIANT ConfirmedIsActivated
