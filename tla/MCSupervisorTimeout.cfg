\* Two tickets, no fault.
SPECIFICATION AccessSpec
CONSTANTS
  m1 = m1
  m2 = m2
  v1 = v1
  v2 = v2
  Macs = {m1, m2}
  ConfVlans = {v1}
  VlanArgs = {v1, v2}
  Psks = {}
  LongPsks = {}
  ApEvents = {}
  Ips = {}
  MaxTicket = 2
  MaxFault = 0
  MaxListed = 40
  DefaultVlan = v1
  AllocVlan <- mcAllocVlan
  Confs <- mcClosed
  Wpa = wpa
  NoIp = noip
  Wan = wan
INVARIANTS
  TicketHasItsTimeout
