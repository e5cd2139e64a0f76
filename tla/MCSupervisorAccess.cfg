\* Two devices, two tickets, a password shorter than the others, a configured and an unknown VLAN, one fault; open and closed.
SPECIFICATION AccessSpec
CONSTANTS
  m1 = m1
  m2 = m2
  p1 = p1
  v1 = v1
  v2 = v2
  Macs = {m1, m2}
  ConfVlans = {v1}
  VlanArgs = {v1, v2}
  Psks = {p1}
  LongPsks = {}
  ApEvents = {"connected"}
  Ips = {}
  MaxTicket = 2
  MaxFault = 1
  MaxListed = 40
  DefaultVlan = v1
  AllocVlan <- mcAllocVlan
  Confs <- mcOpenAndClosed
  Wpa = wpa
  NoIp = noip
  Wan = wan
INVARIANTS
  TypeOK
  DeniedStaysOut
  TicketSingleUse
  CapturedOnce
  StoreMirrorsMemory
  CanRestart
PROPERTIES
  TicketGoes
