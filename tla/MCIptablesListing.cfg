\* A listing longer than one read(): six lines stand for PIPE_BUF bytes.
SPECIFICATION Spec
CONSTANTS
  ip1 = ip1
  ip2 = ip2
  if1 = if1
  if2 = if2
  wlan = wlan
  Ips = {ip1, ip2}
  Wan = wan
  BaseIfs <- mcBaseIfs
  IfOf <- mcIfOf
  Nif = wlan
  Pairs <- mcPairs
  NatIps = {ip1, ip2}
  ChunkLines = 6
  MaxFail = 0
  MaxCrash = 0
INVARIANTS
  RuleListIsCurrent
