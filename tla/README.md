# A TLA+ verification of EDGESec

EDGESec is a gateway that decides which WiFi devices may join a network, which
VLAN each of them is put on, which of them may talk to each other and to the
Internet, and that captures their traffic. This directory holds TLA+ modules
translated from its C code, TLC configurations that check them on small
instances, and TLAPS proofs of the properties that matter most. Paths such as
`supervisor/supervisor.c` are relative to `src/src/`.

Contents

1. The system and its parts
2. The modules and how they correspond to the code
3. What the runs check
4. What is proved
5. Where the code and its documentation disagree
6. What is not modelled
7. Plan

## 1. The system and its parts

`run_ctl` (`runctl.c`) reads the configuration, initialises the firewall, opens
the databases, loads the stored devices, starts hostapd, dnsmasq, the RADIUS
server, the capture and mDNS threads, and then runs one event loop (`eloop`).
Everything the supervisor does happens on the thread of that loop.

| Part | Code | State | What drives it |
|---|---|---|---|
| Supervisor commands | `supervisor/cmd_processor.c`, `network_commands.c`, `system_commands.c` | none of its own | datagrams on the control socket: administrator, DHCP script, mDNS reflector |
| Admission | `supervisor/supervisor.c` (`get_mac_conn_cmd`) | ticket, capture threads | one call for each RADIUS Access-Request |
| MAC mapper | `supervisor/mac_mapper.c`, `supervisor_utils.c` | MAC → record (allow, NAT, VLAN, password, IPs, status) | the two parts above |
| Bridge list | `supervisor/bridge_list.c` | directed edges between MACs | bridge commands |
| Stored connections | `supervisor/sqlite_macconn_writer.c` | a row for each MAC | every save; read at start |
| Event subscribers | `supervisor/subscriber_events.c` | addresses | SUBSCRIBE_EVENTS; notified by SET_IP and others |
| Firewall service | `firewall/firewall_service.c` | none of its own | supervisor |
| iptables backend | `utils/iptables.c`, `utils/os.c` | the kernel's chains; a listing of them | firewall service |
| Access point | `ap/` | hostapd process, its control socket | start; DENY_MAC, ASSIGN_PSK... disconnect devices; connection events come back |
| DHCP | `dhcp/` | dnsmasq process | start; its script sends SET_IP |
| RADIUS server | `radius/` | sessions | hostapd's requests |
| Crypt service | `crypt/`, `supervisor/crypt_commands.c` | keys, secrets | built only with `USE_CRYPTO_SERVICE` |
| Capture | `capture/` | queue, files and rows of captured packets; one thread for each VLAN | `schedule_analyser` |
| mDNS reflector | `dns/` | names, commands already sent; a thread | multicast packets; sends ADD_BRIDGE by IP |
| Tools | `edgesec-recap.c`, `sqlhook.c` | | stand-alone |

How they interact, for what follows:

* hostapd asks the RADIUS server about a MAC; the server calls
  `get_mac_conn_cmd`, which looks at the record and at the active ticket, starts
  the capture thread of the VLAN if it has none, saves the record and answers
  with a VLAN and a password, or refuses.
* The DHCP script reports an IP with SET_IP. The supervisor records it and then
  adds or removes the firewall rules for NAT and for the devices that the MAC is
  bridged to. Bridges and NAT may be asked for before or after the IPs are known.
* Every change of a record is written to the database as a DELETE and an INSERT.
  At the next start the firewall is flushed and the records are read back; IPs
  and bridges are not stored.
* A firewall call is a series of `iptables` processes, each waited for. Rules
  are inserted and deleted by number, from a listing made just before.

## 2. The modules and how they correspond to the code

| Module | Models | Role |
|---|---|---|
| `FirewallRules` | `firewall_service.c`: what the four rule calls ask for, and their effect | vocabulary shared by the next three |
| `Firewall` | the promise of the firewall service | abstract specification |
| `Iptables` | `utils/iptables.c`, `utils/os.c`, command by command | implements `Firewall` |
| `Supervisor` | the supervisor, the stored connections, the start | uses the effects of `FirewallRules` |
| `MCIptables`, `MCSupervisor` | | instances for TLC |
| `SupervisorProofs` | | types, admission, bridge list, stored records: theorems |
| `SupervisorRuleProofs` | | firewall rules: theorems |

### FirewallRules and Firewall

The kernel's rules are a bag: `count[r]` copies of each rule, because iptables
keeps duplicates and deletes one copy at a time. `Added` and `Removed` are the
effect of a call in which nothing fails; `Promised` is what holds after a call
in which something fails; `Outcomes` enumerates the states it allows. All of
them are about calls that see the whole of a chain, which they do while its
listing comes in one `read()` of PIPE_BUF bytes; what happens beyond that is in
`Iptables` (`Listed`) and in `Supervisor` (`SomeMissed`, `FailsUnseen`). `Times(r)`
is 2 for the rule of a bridge between an IP and itself, which the code asks for
when two bridged devices are recorded with the same IP: the two directions are
then one rule, added twice.

`Firewall` is a state machine with a request in progress: `Change` alters one
copy of one rule of the request's own set, `Reply` may say success only if
`Promised` holds.

### Iptables

| Variable | Code |
|---|---|
| `forward`, `postrouting` | the chains of the kernel, in order (external; used through `iptables`) |
| `pc`, `call` | where the thread is inside a call, and the call |
| `ret` | what the call returned |
| `fails`, `crashes` | bounded faults |

Each call is a table from a command to its successor on success and on failure
(`iptables_add_bridge`, `iptables_delete_bridge`, `iptables_add_nat`,
`iptables_delete_nat`, `iptables_init`), so that ignored results, early returns
and undo steps are visible in one place. Each command is an action:
`delete_bridge_rule`, `add_bridge_rule`, `insert_wan_rule`,
`delete_masquerade`, `insert_masquerade`, `flush_iptables`, `add_baseif_rules`.
`command_fails` is a failing iptables process, `killed` a kill between two
commands. `Listed` models the listing: `read_command_output` hands over the
output a piece at a time and `list_rule_cb` starts the list afresh for each
piece. The refinement mapping to `Firewall` counts copies (`RuleCount`).

### Supervisor

| Variable | Code |
|---|---|
| `conf` | `allow_all_connections`, `allow_all_nat`, `exec_capture` of the configuration |
| `mapped`, `info` | `context->mac_mapper` |
| `bridges` | `context->bridge_list` |
| `ticket`, `tickets`, `timers` | `context->ticket`; number of tickets so far; the pending eloop timeouts, oldest first |
| `stored`, `store` | the rows of the connections database (external; used through sqlite) |
| `threads` | capture threads started for each VLAN (`vlan_conn.capture_pid`) |
| `fw` | copies of the firewall rules |
| `cuts` | handlers whose firewall calls saw a part of a listing only |
| `running`, `exit_code` | whether `run_ctl` got to its event loop, what it returned |
| `faults` | faults so far |
| `granted`, `denied`, `applied`, `exclusive` | history, read by properties only |

| Action | Code |
|---|---|
| `accept_mac_cmd`, `deny_mac_cmd`, `assign_psk_cmd`, `clear_psk_cmd` | `network_commands.c` |
| `add_nat_cmd`, `remove_nat_cmd` | `network_commands.c` |
| `add_bridge_mac_cmd`, `add_bridge_ip_cmd`, `remove_bridge_cmd`, `clear_bridges_cmd` | `network_commands.c` |
| `set_ip_add`, `set_ip_del` | `set_ip_cmd` of `system_commands.c` |
| `register_ticket_cmd`, `eloop_ticket_timeout_handler` | `network_commands.c` |
| `get_mac_conn_cmd` | `supervisor.c`, with `save_device_vlan` and `schedule_analyser` |
| `ap_service_callback` | `supervisor.c` |
| `run_ctl` | a kill and the next start: `runctl.c`, `create_mac_mapper` |

A handler is one action, with its save and its firewall calls, because handlers
run to completion on one thread and nothing else writes this state. What can
happen inside is in the action: each save may fail (memory changed, row kept or
lost), each firewall call may fail (`FwCalls`: the calls before it have taken
effect, those after it have not, the failing one ends in a state that `Outcomes`
allows), the event to the subscribers may fail, a capture thread may not start,
the random number or the timeout of a ticket may not be had, and a kill may come
between the DELETE and the INSERT of a save. Each of these is a fault, at most
`MaxFault` of them in a behaviour. A ticket whose registration failed is freed
while `context->ticket` still points to it (`Dangling`): reading it then gives
any content. Two simplifications: at most one firewall call of a handler fails
(after a failure that went unnoticed the remaining calls work), and an allocation
never does (`put_mac_mapper` and `add_bridge_mac` fail for no other reason).

Listings. A firewall call finds its rules in a listing of the chain, and
`read_command_output` keeps only the last piece of one that takes several reads.
`Fits` says that the chains have at most `MaxListed` rules. While they do, calls
have the effect of `FirewallRules`. Beyond that a removal may miss any of its
rules and still answer 0, an add may put copies on top of the rules it missed,
and a call whose piece shows no rule fails half way (`SomeMissed`,
`FailsUnseen`); no command has failed, so this is not a fault, and is counted in
`cuts`, under the bound `MaxFault` as well.

ADD_BRIDGE by IP looks up the two MACs and answers OK at once when the bridge is
in the list (`bridge_exists`); ADD_BRIDGE by MAC always calls the firewall.

The bridge list is a set: `add_bridge_mac` returns early when both edges are
there and `BridgesUndirected` says that they always come in pairs, so the list
of the code has no duplicates.

Abstractions. Passwords are model values with two lengths, in a buffer with a
head and a tail, which is what the copy of `pass_len` bytes and the storage as
text tell apart. MACs, IPs and VLANs are model values. `allocate_vlan` is a
constant function: it is the default VLAN or a hash of the MAC. Time stamps,
host names and identifiers of records are left out; no guard reads them.

Bounds. `MaxTicket` is the number of tickets registered in a behaviour,
`MaxFault` the number of faults and cuts, `MaxListed` the rules that a listing
of one piece shows; in `Iptables`, `MaxFail` and `MaxCrash`.
The proofs hold for every value of all of them.

## 3. What the runs check

Runs that pass:

| Run | Instance | Distinct states | Checks |
|---|---|---|---|
| `iptables` | two IPs on two interfaces, a bridge between them and one from an IP to itself, NAT for one, two failing commands, one kill | 50,356 | `TypeOK`, `DefaultDeny`, `AllOrNothing`, `ImplementsFirewall`, `CallReturns` |
| `access` | two devices, two tickets, a password shorter than those it overwrites, a configured and an unknown VLAN, one fault, open and closed network | 504,269 | `TypeOK`, `DeniedStaysOut`, `TicketSingleUse`, `CapturedOnce`, `StoreMirrorsMemory`, `CanRestart`, `TicketGoes` |
| `network` | three devices, two IPs, any number of devices with the same IP, no fault | 61,062 up to symmetry | `BridgesUndirected`, `NoLeftoverRules`, `NoMissingRules` |
| `faults` | two devices, two IPs, NAT by default, one fault anywhere, listings of eight rules | 123,650 up to symmetry | `AddAnsweredOkHolds` |

* `DefaultDeny`: at every point, inside a call too, a packet that enters on a
  base interface is forwarded exactly when some ACCEPT rule is for it. It fails
  when a rule is inserted behind the REJECT rule of its interface, or a deletion
  by number hits the wrong rule.
* `AllOrNothing`: without failing commands, between calls a bridge has both its
  directions or neither and a NAT its three rules or none, and no rule has a
  duplicate, also after a kill in the middle of a call.
* `ImplementsFirewall`: with failing commands too, `Iptables` is a `Firewall`,
  while listings come in one piece. The promise admits duplicates of a rule;
  that an add leaves none when nothing fails is `AllOrNothing`.
* `CallReturns`: every call is finitely many iptables commands, undo included,
  whichever of them fail. That each of the commands ends is assumed (below).
* `DeniedStaysOut`: between DENY_MAC and the next ACCEPT_MAC no request of the
  device is granted a VLAN, whatever happens to tickets, passwords and saves,
  and across restarts unless a fault happened.
* `TicketSingleUse`: no two devices ever hold the passphrase of one ticket.
* `CapturedOnce`: with `exec_capture`, a VLAN that was granted has exactly one
  capture thread.
* `StoreMirrorsMemory`: without a fault, after every handler the rows read back
  give the records in memory: the same devices, permissions, VLANs and states,
  and the same passwords, but for one thing. A password that was copied over a
  longer one comes back with another length, which is the disagreement of
  `password_restart`; the property says that this is the only one.
* `CanRestart`: with `exec_capture`, no command stores a VLAN that makes the
  next start fail.
* `TicketGoes`: every ticket with a timeout is used or freed in the end.
* `BridgesUndirected`: the bridge list is an undirected graph without loops.
* `NoLeftoverRules`: without a fault or a cut, every rule in the firewall is justified by
  a bridge or a NAT of devices that hold the IPs now.
* `NoMissingRules`: without a fault or a cut, and when an IP is recorded for one device
  at a time, every justified rule is in the firewall. The condition is needed:
  when two devices share an IP, removing it from one removes the rules of both.
* `AddAnsweredOkHolds`: when ADD_BRIDGE or ADD_NAT has called the firewall and
  answers OK, all its rules are in place, whatever failed before and however
  much of the listings was seen. The OK of ADD_BRIDGE by IP for a listed bridge
  made no call and is the disagreement of `bridge_repeat`.

Why the bounds are enough to be interesting. Two tickets are what it takes for a
timeout of one to meet the other. Three devices let a device have two bridges,
so that removing one or clearing all must keep the rest, and two IPs let a device
have a primary and a secondary one and two devices share one. One fault is
enough for a failure to be followed by any sequence of commands that work. The
eight rules of `faults` are fewer than two devices with two IPs can have, so that
listings are cut; the 40 of the other runs are more.
The two failing commands of `iptables` let an undo fail as well. The symmetry of
`network` and `faults` is over MACs and IPs, which no definition tells apart
(their `AllocVlan` is constant); `access` checks liveness and uses none.

Fairness. `Supervisor` assumes weak fairness of `eloop_ticket_timeout_handler`:
the event loop runs every timeout that is due before it waits for sockets again.
Nothing is assumed of commands and requests. `Iptables` assumes weak fairness of
`command`: `run_command` waits for its child, and the iptables process ends,
with success or not. Nothing is assumed of who calls the firewall.

Deadlock is checked in every run but `start_failure`, in which the program has
ended.

Each property of these runs has a mutant: a definition that changes the modelled
code the way a plausible slip would, written next to the definition it replaces
under a comment that starts with "Mutation", which makes TLC report the property.

## 4. What is proved

TLAPS checks these theorems for every number of devices, IPs, VLANs, passwords,
tickets and faults:

| Theorem | Module | Says |
|---|---|---|
| `TypeCorrect` | `SupervisorProofs` | `Spec => []TypeOK` |
| `DeniedStaysOutHolds` | `SupervisorProofs` | `Spec => []DeniedStaysOut` |
| `BridgesUndirectedHolds` | `SupervisorProofs` | `Spec => []BridgesUndirected` |
| `StoreMirrorsMemoryHolds` | `SupervisorProofs` | `Spec => []StoreMirrorsMemory` |
| `CanRestartHolds` | `SupervisorProofs` | `Spec => []CanRestart` |
| `TicketSingleUseHolds` | `SupervisorProofs` | `Spec => []TicketSingleUse` |
| `CapturedOnceHolds` | `SupervisorProofs` | `Spec => []CapturedOnce` |
| `NoLeftoverRulesHolds` | `SupervisorRuleProofs` | `Spec => []NoLeftoverRules` |
| `NoMissingRulesHolds` | `SupervisorRuleProofs` | `Spec => []NoMissingRules` |
| `AddAnsweredOkHoldsAlways` | `SupervisorRuleProofs` | `Spec => []AddAnsweredOkHolds` |

`Spec` has all commands at once; the runs split it into `AccessSpec` and
`NetworkSpec`, each of which takes a subset of its steps.

Assumptions. `WanAssumption`: the WAN address is not the IP of a device.
`SupervisorAssumption`: finitely many devices, the default VLAN and what
`allocate_vlan` returns are configured, the empty string is not an IP, the
bounds are naturals. `DistinctAssumption`: the passphrase of a ticket is none of
the configured passwords, a password is not empty (ASSIGN_PSK refuses the empty
one). TLC evaluates all of them on every run.

What the rule theorems rest on besides. `NoLeftoverRules` and `NoMissingRules`
are about behaviours in which nothing has failed (`faults = 0`) and every firewall
call saw the whole of its listings (`cuts = 0`): the listings of the filter and
nat tables never were longer than one read of PIPE_BUF bytes (`os.c:283`,
`iptables.c:186`), which `MaxListed` counts in rules. They hold for any number of
devices and IPs within that limit and claim nothing beyond it, where the code
does leave rules behind without any command failing. `AddAnsweredOkHolds` needs
neither condition.

The arguments:

* `TypeCorrect`. `TypeOK` is inductive. It says more than types: a MAC that is
  not in the mapper has the default record, which is what lets `info` stand for
  the result of `get_mac_mapper` in both its cases. There is a lemma for each
  group of actions; what firewall calls do to the bag is in `ApplyType`,
  `OutcomeType` and `FwCallsType`, what a save does in `SaveType`.
* `DeniedStaysOutHolds`. The property is about answers, and an answer depends on
  the record, so the inductive invariant `DenyInv` adds `Out(m)` for every denied
  device: in a running system the device is in the mapper and its `allow` is
  false, and as long as there was no fault the same is true of its row, which is
  what the next start reads. A failed save changes memory all the same (the
  device stays out), and the fault it counts releases the row. No action but
  ACCEPT_MAC sets `allow` for a device that `Refused` stops.
* `BridgesUndirectedHolds`. Inductive as it stands with `TypeOK`: edges are added
  and removed as `Edges(l, r)`.
* `StoreMirrorsMemoryHolds`. The inductive invariant `MirrorInv` says that without
  a fault every row is what `Row` makes of the record, and of every buffer, fault
  or not, that its length is that of its text unless a shorter password was
  copied over a longer one (`Exact`). `SaveStep` reduces every action to a save
  of one record, a restart, or nothing; a restart reads the rows back
  (`RowRead`).
* `CanRestartHolds`. `RestartInv`: with `exec_capture`, the VLANs of all records
  and of all rows, also of rows that a restart has not read yet, are configured;
  `save_device_vlan` looks the VLAN up before it saves.
* `TicketSingleUseHolds`. `TicketInv` speaks of records and of rows, because a
  restart turns rows into records: no two devices have the passphrase of one
  ticket in either, and none has that of the ticket that is still active.
* `CapturedOnceHolds`. Inductive as it stands with `TypeOK`: `save_device_vlan`
  starts the thread of a VLAN, if it has none, before the VLAN is granted.
* `NoLeftoverRulesHolds`. A removal takes out `Times(r)` copies, so it leaves
  nothing only if there were no more: the inductive invariant `RuleInv` adds
  `fw[r] <= Times(r)` for as long as there was no fault and no cut. Given that, `RemoveEffect`
  says that a rule of a removing call is gone, `AddEffect` that a rule which is
  new belongs to a call, and each action is then a question of justification: the
  rules that an IP, a bridge or a NAT brings are justified after the step
  (`IpComes`), and a rule that is not among those taken out is still justified
  after it (`IpGoes`, `RemovedBridges`), by another device or the other IP of the
  same one. `BridgesUndirected` is needed because SET_IP walks the edges in one
  direction and removes both rules.
* `NoMissingRulesHolds`. `MissingInv` adds that while `exclusive` holds no two
  devices are recorded with one IP, so that a removal takes out no rule that
  another device needs.
* `AddAnsweredOkHoldsAlways`. From the effect of a series of calls that is answered
  OK (`AnsweredHolds`), in its three cases: nothing fails, a failing call that
  `Promised` covers, and listings that are seen in part.

TLC checked the inductive invariants before they were proved.

Only model-checked: the liveness properties (`TicketGoes`, `CallReturns`), which
are out of the prover's reach, and so far the refinement (`ImplementsFirewall`)
and the invariants of `Iptables`.

## 5. Where the code and its documentation disagree

Each of these is a run in which TLC finds the documented behaviour violated.

| Run | Property | What happens |
|---|---|---|
| `ticket_timeout` | `TicketHasItsTimeout` | Using a ticket does not cancel its timeout, and the timeout frees whatever ticket is active: the next ticket can go long before its 60 seconds. |
| `password_restart` | `PasswordSurvivesRestart` | A short password assigned over a longer one leaves the tail of the longer one in the buffer, the row stores both, and after a restart the device has the wrong password. |
| `start_failure` | `StartFailureReported` | When `create_mac_mapper` fails, `run_ctl` returns `false`, which is 0, where `runctl.h` says -1. A ticket for a VLAN that is not configured leads there when `exec_capture` is off. |
| `bridge_repeat` | `ListedBridgeHolds` | An ADD_BRIDGE whose firewall call fails leaves the bridge in the list. Repeated by IP it is found there and answered OK without a firewall call, with rules missing; repeated by MAC it would be repaired. |
| `iptables_listing` | `RuleListIsCurrent` | A listing longer than PIPE_BUF leaves only its last piece in `rule_list`, so rules that exist are not found. |
| `iptables_duplicate` | `DeleteBridgeMeansGone` | `iptables_add_bridge` ignores that its delete failed and inserts a second copy; a later removal returns 0 and leaves one. |

The passing runs show what these do not break: `ChunkLines` of `iptables` is
large enough for one piece, and `CanRestart` is about `exec_capture`.

## 6. What is not modelled

* Parsing and formatting of commands, RADIUS and mDNS messages, packets and
  configuration files: `config.c`, `radius/radius.c`, `packet_decoder.c`, the
  reply texts of `cmd_processor.c`. They hold no state; their results are the
  inputs that actions take from the constants.
* The crypt service and the crypt commands: the default build leaves them out
  (`USE_CRYPTO_SERVICE` is OFF), and `save_mac_mapper` is modelled as in that
  build.
* The UCI variant of the firewall service (OpenWrt) and `fw_set_ip_forward`.
* hostapd, dnsmasq, sqlite and the kernel themselves. The kernel's chains and
  the database's rows are variables; the processes are not.
* Allocation failures (`os_malloc`, `os_zalloc`, the hash tables of the mappers).
* A second failing firewall call in one handler.
* A data race between the capture threads and the event loop: the threads get
  copies of the configuration and share nothing that is modelled here.

## 7. Plan

In the order in which it is worth doing:

1. `Radius`: sessions, the duplicate check and the session timeout of
   `radius_server.c`, composed with the admission of `Supervisor`: a repeated
   request must not spend a second ticket; sessions stay within their limit and
   go in the end.
2. `Capture`: the packet queue, the timer that writes it, the stored files and
   the cleaner, over an abstract FIFO; nothing is lost or written twice, and the
   total comes back within the limit.
3. `Reflector`: the mDNS thread, the commands it remembers and sends, composed
   with ADD_BRIDGE by IP: a bridge that was called for is asked for, or the lost
   datagram shows.
4. `RunCtl`: the order of starts, and the shutdown that stops and joins threads;
   with the process supervision of hostapd and dnsmasq (bounded retries, a
   process that comes up late).
5. The disconnect sequence of `ap_service.c` with hostapd's deny list, and the
   subscriber array of `subscriber_events.c`.
6. The crypt service as an optional component: the master key, its derivation and
   storage in `load_crypt_service`, and secrets that survive a restart; with it
   the `USE_CRYPTO_SERVICE` variant of `save_mac_mapper`.
7. Pure algorithms, as operators checked against a reference over bounded inputs:
   the interface and address arithmetic of `utils/iface_mapper.c` and
   `utils/ipgen.c`, the queue of `utils/squeue.c`, the splitting and matching
   helpers of `utils/os.c`, the attribute lengths and limits of
   `radius/radius.c`, the argument checks of `cmd_processor.c`.
8. Theorems: type correctness and the position of the REJECT rules for
   `Iptables`, and its refinement of `Firewall` step by step.
