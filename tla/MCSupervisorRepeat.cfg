\* A firewall call fails, and the bridge it was made for is asked for again by its IPs.
SPECIFICATION NetworkSpec
CONSTANTS
  i1 = i1
  i2 = i2
  m1 = m1
  m2 = m2
  v1 = v1
  Macs = {m1, m2}
  ConfVlans = {v1}
  VlanArgs = {}
  Psks = {}
  LongPsks = {}
  ApEvents = {}
  Ips = {i1, i2}
  MaxTicket = 0
  MaxFault = 1
  MaxListed = 40
  DefaultVlan = v1
  AllocVlan <- mcAllocVlan
  Confs <- mcNat
  Wpa = wpa
  NoIp = noip
  Wan = wan
SYMMETRY Symmetry
INVARIANTS
  ListedBridgeHolds
