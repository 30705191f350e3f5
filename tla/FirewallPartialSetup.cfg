SPECIFICATION Spec
CONSTANTS
  m1 = m1
  m2 = m2
  ip1 = ip1
  NoMac = NoMac
  NoIp = NoIp
  Macs <- MCMacs
  Ips <- MCIps
  Requests <- MCRequests
  Simulate = FALSE
  MaxNftErrors = 1
  MaxRestarts = 0
  MaxReboots = 0
CHECK_DEADLOCK FALSE
INVARIANT AuthorizedForwards
