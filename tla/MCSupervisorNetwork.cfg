\* Three devices and two IPs that may be recorded for several of them.
SPECIFICATION NetworkSpec
CONSTANTS
  i1 = i1
  i2 = i2
  m1 = m1
  m2 = m2
  m3 = m3
  v1 = v1
  Macs = {m1, m2, m3}
  ConfVlans = {v1}
  VlanArgs = {}
  Psks = {}
  LongPsks = {}
  ApEvents = {}
  Ips = {i1, i2}
  MaxTicket = 0
  MaxFault = 0
  MaxListed = 40
  DefaultVlan = v1
  AllocVlan <- mcAllocVlan
  Confs <- mcNoCapture
  Wpa = wpa
  NoIp = noip
  Wan = wan
SYMMETRY Symmetry
INVARIANTS
  BridgesUndirected
  NoLeftoverRules
  NoMissingRules
