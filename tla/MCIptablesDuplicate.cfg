\* One iptables command fails while a bridge that exists is added again.
SPECIFICATION Spec
CONSTANTS
  ip1 = ip1
  ip2 = ip2
  if1 = if1
  if2 = if2
  wlan = wlan
  Ips = {ip1, ip2}
  Wan = wan
  BaseIfs <- mcBaseIfs
  IfOf <- mcIfOf
  Nif = wlan
  Pairs <- mcPairs
  NatIps = {ip1, ip2}
  ChunkLines = 40
  MaxFail = 1
  MaxCrash = 0
INVARIANTS
  DeleteBridgeMeansGone
