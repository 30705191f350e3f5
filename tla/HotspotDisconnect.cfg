SPECIFICATION Spec
CONSTANTS
  RealSTK = FALSE
  MaxFaults = 0
  MaxCrashes = 0
  Checkouts = {c1}
  Tries = {t1}
  Macs = {m1}
  Ips = {ip1}
  Clicks = {k1}
  MaxGatewayFaults = 0
  MaxNftErrors = 0
  MaxRestarts = 0
  MaxReboots = 0
  Plans = {p1}
  Simulate = FALSE
  NoDevice = NoDevice
  NoMac = NoMac
  NoIp = NoIp

CHECK_DEADLOCK FALSE
INVARIANT DisconnectRevokes
