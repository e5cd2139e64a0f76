\* A short and a long password, no fault.
SPECIFICATION AccessSpec
CONSTANTS
  m1 = m1
  m2 = m2
  p1 = p1
  p2 = p2
  v1 = v1
  v2 = v2
  Macs = {m1, m2}
  ConfVlans = {v1}
  VlanArgs = {v1, v2}
  Psks = {p1, p2}
  LongPsks = {p1}
  ApEvents = {}
  Ips = {}
  MaxTicket = 0
  MaxFault = 0
  MaxListed = 40
  DefaultVlan = v1
  AllocVlan <- mcAllocVlan
  Confs <- mcClosed
  Wpa = wpa
  NoIp = noip
  Wan = wan
INVARIANTS
  PasswordSurvivesRestart
