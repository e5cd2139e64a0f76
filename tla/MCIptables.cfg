\* Two devices in two subnets; two commands may fail and one kill may happen.
SPECIFICATION Spec
CONSTANTS
  ip1 = ip1
  ip2 = ip2
  if1 = if1
  if2 = if2
  wlan = wlan
  Ips = {ip1, ip2}
  Wan = wan
  BaseIfs <- mcBaseIfs
  IfOf <- mcIfOf
  Nif = wlan
  Pairs <- mcPairs
  NatIps = {ip1}
  ChunkLines = 40
  MaxFail = 2
  MaxCrash = 1
INVARIANTS
  TypeOK
  DefaultDeny
  AllOrNothing
PROPERTIES
  ImplementsFirewall
  CallReturns
