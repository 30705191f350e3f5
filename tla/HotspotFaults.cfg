SPECIFICATION OneFailureSpec
CONSTANTS
  RealSTK = TRUE
  MaxFaults = 0
  MaxCrashes = 0
  Checkouts = {c1}
  Tries = {t1, t2}
  Macs = {m1, m2}
  Ips = {ip1}
  Clicks = {k1}
  MaxGatewayFaults = 1
  MaxNftErrors = 1
  MaxRestarts = 1
  MaxReboots = 1
  Plans = {p1}
  Simulate = FALSE
  NoDevice = NoDevice
  NoMac = NoMac
  NoIp = NoIp
SYMMETRY Symmetry
CHECK_DEADLOCK FALSE
INVARIANTS TypeOK DisconnectedWasRevoked GrantedOnlyIfReported
PROPERTIES KeepsPromise PaymentServiceAssumption
