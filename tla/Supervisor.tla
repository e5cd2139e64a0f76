----------------------------- MODULE Supervisor -----------------------------
(***************************************************************************)
(* The supervisor (supervisor/*.c): the MAC mapper, the bridge list, the   *)
(* authentication ticket, the stored connections, the capture threads and  *)
(* the firewall calls that keep the network in step with them.             *)
(*                                                                         *)
(* Commands, RADIUS requests, AP events and timeouts are all handled on    *)
(* one thread by the event loop, so a handler is one action, including the *)
(* save and the firewall calls it ends with.  Any of those can fail half   *)
(* way: a failed command, statement or thread start is a fault, bounded by *)
(* MaxFault, and leaves the state the code leaves.  Firewall calls find    *)
(* their rules in listings of which they may see a part only: a handler    *)
(* that meets such a listing is counted in cuts, under the same bound.     *)
(***************************************************************************)
EXTENDS FirewallRules, Sequences, FiniteSets

CONSTANTS
  Macs,                   \* device MAC addresses
  ConfVlans,              \* VLAN ids of the configuration (vlan_mapper)
  VlanArgs,               \* VLAN ids that clients pass in commands
  DefaultVlan,            \* default_open_vlanid
  AllocVlan,              \* what allocate_vlan returns for each MAC
  Psks,                   \* passwords that clients pass to ASSIGN_PSK
  LongPsks,               \* those of them that are as long as the others' tail
  Wpa,                    \* wpa_passphrase of the AP configuration
  ApEvents,               \* connection statuses the AP reports
  NoIp,                   \* the empty IP string
  Confs,                  \* configurations: three flags of the app_config
  MaxListed,              \* rules in a chain whose listing one read() returns
  MaxTicket,              \* bound: tickets registered
  MaxFault                \* bound: faults, and handlers that see a part of a chain only

ASSUME SupervisorAssumption ==
  /\ IsFiniteSet(Macs)
  /\ DefaultVlan \in ConfVlans
  /\ AllocVlan \in [Macs -> ConfVlans]
  /\ NoIp \notin Ips
  /\ Confs \subseteq [allow_all_connections : BOOLEAN, allow_all_nat : BOOLEAN,
                      exec_capture : BOOLEAN]
  /\ MaxTicket \in Nat /\ MaxFault \in Nat

VARIABLES
  conf,       \* the configuration the system is run with
  mapped,     \* the MACs in mac_mapper
  info,       \* their mac_conn_info; for other MACs, the default one
  bridges,    \* bridge_list: the directed edges
  ticket,     \* context->ticket
  tickets,    \* tickets registered so far
  timers,     \* pending ticket timeouts, by the ticket they were set for
  stored,     \* the MACs with a row in the connections database
  store,      \* the rows
  threads,    \* capture threads started for each VLAN
  fw,         \* copies of each firewall rule
  running,    \* run_ctl got to its event loop
  exit_code,  \* what run_ctl returned when it did not
  faults,     \* faults so far
  cuts,       \* handlers so far whose listings did not fit one read()
  granted,    \* history: the VLAN last granted to each MAC since its last ACCEPT or DENY
  denied,     \* history: MACs denied and not accepted since
  applied,    \* history: the rules of the last command, if it was an add answered OK
  exclusive   \* history: no IP was set or deleted while another device had it

netVars == <<bridges, fw, cuts, applied, exclusive>>
ticketVars == <<ticket, tickets, timers>>
authVars == <<threads, granted, denied>>
recVars == <<mapped, info>>
dbVars == <<stored, store>>
runVars == <<conf, running, exit_code>>
vars == <<netVars, ticketVars, authVars, recVars, dbVars, runVars, faults>>

allow_all_connections == conf.allow_all_connections
allow_all_nat == conf.allow_all_nat
exec_capture == conf.exec_capture

-----------------------------------------------------------------------------
(***************************************************************************)
(* Passwords.  A password is short or long.  The buffer of a record holds  *)
(* the password last written to its head, and a tail if a long one was     *)
(* ever written to it: assign_psk_cmd copies pass_len bytes and leaves the *)
(* rest.  The database stores the buffer as text, not its first pass_len   *)
(* bytes.                                                                  *)
(***************************************************************************)
NoPass == <<"none">>
Junk == <<"junk">>
TicketPass(id) == <<"ticket", id>>
Passwords == Psks \cup {Wpa, Junk} \cup {TicketPass(id) : id \in 1..MaxTicket}

Empty == [len |-> 0, head |-> NoPass, tail |-> FALSE]

IsShort(pass) == pass \in Psks \ LongPsks

Written(buf, pass) ==
  IF IsShort(pass) THEN [len |-> 1, head |-> pass, tail |-> buf.tail]
                   ELSE [len |-> 2, head |-> pass, tail |-> TRUE]

TextLen(buf) ==
  IF buf.head = NoPass THEN 0 ELSE IF buf.tail THEN 2 ELSE 1

\* A password that was copied over a longer one.
Overwrites(buf) == IsShort(buf.head) /\ buf.tail

(***************************************************************************)
(* Records.                                                                *)
(***************************************************************************)
init_default_mac_info ==
  [allow |-> TRUE, nat |-> allow_all_nat, vlan |-> DefaultVlan, pass |-> Empty,
   status |-> "default", ip |-> NoIp, ip_sec |-> NoIp]

IpsOf(m) == {info[m].ip, info[m].ip_sec} \ {NoIp}

(***************************************************************************)
(* What a database row keeps of a record, and the record made of it when   *)
(* the rows are read back.                                                 *)
(***************************************************************************)
Row(rec) ==
  [allow |-> rec.allow, nat |-> rec.nat, vlan |-> rec.vlan, status |-> rec.status,
   pass |-> [rec.pass EXCEPT !.len = TextLen(rec.pass)]]

get_sqlite_macconn_entry(row) ==
  [allow |-> row.allow, nat |-> row.nat, vlan |-> row.vlan, pass |-> row.pass,
   status |-> row.status, ip |-> NoIp, ip_sec |-> NoIp]

(***************************************************************************)
(* save_sqlite_macconn_entry deletes the row and inserts the new one.  A   *)
(* fault leaves the old row, or none: a failed prepare or bind is          *)
(* reported, the result of the two steps is not looked at.                 *)
(***************************************************************************)
\* Mutation: an insert that does not replace the row that is there.
save_sqlite_macconn_entry_keeps_old(m, rec, ok, fault) ==
  /\ ok /\ fault = 0
  /\ stored' = stored \cup {m}
  /\ store' = IF m \in stored THEN store ELSE [store EXCEPT ![m] = Row(rec)]

save_sqlite_macconn_entry(m, rec, ok, fault) ==
  \/ /\ ok /\ fault = 0
     /\ stored' = stored \cup {m}
     /\ store' = [store EXCEPT ![m] = Row(rec)]
  \/ /\ fault = 1
     /\ stored' \in {stored, stored \ {m}}
     /\ UNCHANGED store

(***************************************************************************)
(* save_mac_mapper: memory first, then the database.                       *)
(***************************************************************************)
\* Mutation: the record of a new MAC does not get into the mapper.
save_mac_mapper_no_insert(m, rec, ok, fault) ==
  /\ info' = [info EXCEPT ![m] = rec]
  /\ save_sqlite_macconn_entry(m, rec, ok, fault)
  /\ UNCHANGED mapped

save_mac_mapper(m, rec, ok, fault) ==
  /\ mapped' = mapped \cup {m}
  /\ info' = [info EXCEPT ![m] = rec]
  /\ save_sqlite_macconn_entry(m, rec, ok, fault)

Faults(n) == faults' = faults + n /\ faults' + cuts <= MaxFault
Cut == cuts' = cuts + 1 /\ faults' + cuts' <= MaxFault

(***************************************************************************)
(* A sequence of firewall calls, each a set of rules, that a handler makes *)
(* one after the other until one of them fails.                            *)
(***************************************************************************)
Copies(calls, J, r) == Times(r) * Cardinality({j \in J : r \in calls[j]})

Apply(add, count, calls, J) ==
  IF add
    THEN Added(count, UNION {calls[j] : j \in J})
    ELSE [r \in FwRules |-> IF count[r] > Copies(calls, J, r)
                              THEN count[r] - Copies(calls, J, r) ELSE 0]

(***************************************************************************)
(* A listing is read in pieces of PIPE_BUF bytes, of which only the last   *)
(* is kept, so that calls see the whole of a chain only while its listing  *)
(* fits one piece.  The listings are longest after an add and before a     *)
(* removal.                                                                *)
(***************************************************************************)
Chains == {{r \in FwRules : r.kind = kind} : kind \in {"fwd", "masq"}}

Fits(count) ==
  \A C \in Chains : Cardinality(UNION {{r} \X (1..count[r]) : r \in C}) <= MaxListed

SeenWhole(add, calls) ==
  \/ \A j \in DOMAIN calls : calls[j] = {}
  \/ Fits(IF add THEN Apply(TRUE, fw, calls, DOMAIN calls) ELSE fw)

(***************************************************************************)
(* Beyond that, a removal may miss any of its rules and still answer 0, an *)
(* add may miss any of them and insert copies on top of those it missed,   *)
(* and a call whose listing shows no rule at all fails half way.           *)
(***************************************************************************)
Between(low, high) ==
  {[r \in FwRules |-> low[r] + Cardinality({c \in S : c[1] = r})]
     : S \in SUBSET UNION {{r} \X (1..(high[r] - low[r])) : r \in FwRules}}

AllMissed(add, calls, J) ==
  [r \in FwRules |-> IF add THEN fw[r] + Copies(calls, J, r) ELSE fw[r]]

SomeMissed(add, calls, J) ==
  Between(Apply(add, fw, calls, J), AllMissed(add, calls, J))

FailsUnseen(add, calls, i) ==
  Between(Removed(Apply(add, fw, calls, 1..(i - 1)), calls[i]), AllMissed(add, calls, 1..i))

(***************************************************************************)
(* What the calls of a handler do.  At most one of them fails: a second    *)
(* failure in the same handler, after one that was not noticed, is left    *)
(* out, and so is a failure beyond the limit of the listing.               *)
(***************************************************************************)
\* Mutation: the result of a call is not looked at.
FwCalls_unchecked(add, calls, ok, fault) ==
  /\ UNCHANGED cuts
  /\ \/ /\ ok /\ fault = 0
        /\ fw' = Apply(add, fw, calls, DOMAIN calls)
     \/ /\ ok /\ fault = 1
        /\ \E i \in DOMAIN calls :
             /\ calls[i] # {}
             /\ \E mid \in Outcomes(add, calls[i], Apply(add, fw, calls, 1..(i - 1)), FALSE) :
                  fw' = Apply(add, mid, calls, (i + 1)..Len(calls))

FwCalls(add, calls, ok, fault) ==
  IF SeenWhole(add, calls)
    THEN /\ \/ /\ ok /\ fault = 0
               /\ fw' = Apply(add, fw, calls, DOMAIN calls)
            \/ /\ fault = 1
               /\ \E i \in DOMAIN calls :
                    /\ calls[i] # {}
                    /\ \E mid \in Outcomes(add, calls[i], Apply(add, fw, calls, 1..(i - 1)), ok) :
                         fw' = IF ok THEN Apply(add, mid, calls, (i + 1)..Len(calls)) ELSE mid
         /\ UNCHANGED cuts
    ELSE /\ fault = 0
         /\ Cut
         /\ IF ok THEN fw' \in SomeMissed(add, calls, DOMAIN calls)
                  ELSE \E i \in DOMAIN calls : calls[i] # {} /\ fw' \in FailsUnseen(add, calls, i)

(***************************************************************************)
(* add_nat_ip and add_bridge_ip call the firewall only for IPs that are    *)
(* set.  A MAC that is not in the mapper has none in info.                 *)
(***************************************************************************)
NatCall(ip) == IF ip = NoIp THEN {} ELSE NatRules(ip)
BridgeCall(left, right) ==
  IF NoIp \in {left, right} THEN {} ELSE BridgeRules(left, right)

NatCalls(m) == <<NatCall(info[m].ip), NatCall(info[m].ip_sec)>>

BridgeCalls(l, r) ==
  <<BridgeCall(info[l].ip, info[r].ip), BridgeCall(info[l].ip, info[r].ip_sec),
    BridgeCall(info[l].ip_sec, info[r].ip), BridgeCall(info[l].ip_sec, info[r].ip_sec)>>

(***************************************************************************)
(* The rules that an add had to put in place when it is answered OK: those *)
(* of the device's IPs, or between the IPs of the two devices.             *)
(***************************************************************************)
NatOf(m) == UNION {NatRules(i) : i \in IpsOf(m)}
BridgeOf(l, r) == UNION {BridgeRules(i, j) : i \in IpsOf(l), j \in IpsOf(r)}

Answered(how, R) == IF R = {} THEN <<>> ELSE <<how, R>>

(***************************************************************************)
(* The orders in which the bridges of a device can be walked.              *)
(***************************************************************************)
Orders(S) == {s \in [1..Cardinality(S) -> S] : {s[k] : k \in DOMAIN s} = S}

-----------------------------------------------------------------------------
NoTicket == [id |-> 0, vlan |-> DefaultVlan]
Dangling == [id |-> -1, vlan |-> DefaultVlan]
NoGrant == "none"

\* The passphrases of tickets are random, so that no other password is one of them,
\* ASSIGN_PSK refuses the empty one, and no VLAN id is NoGrant.
ASSUME DistinctAssumption ==
  /\ \A id \in 1..MaxTicket : TicketPass(id) \notin Psks \cup {Wpa}
  /\ NoPass \notin Psks \cup {Wpa}
  /\ NoGrant \notin ConfVlans

Init ==
  /\ conf \in Confs
  /\ mapped = {}
  /\ info = [m \in Macs |-> init_default_mac_info]
  /\ bridges = {}
  /\ ticket = NoTicket
  /\ tickets = 0
  /\ timers = <<>>
  /\ stored = {}
  /\ store = [m \in Macs |-> Row(init_default_mac_info)]
  /\ threads = [v \in ConfVlans |-> 0]
  /\ fw = NoRules
  /\ running = TRUE
  /\ exit_code = 0
  /\ faults = 0
  /\ cuts = 0
  /\ granted = [m \in Macs |-> NoGrant]
  /\ denied = {}
  /\ applied = <<>>
  /\ exclusive = TRUE

(***************************************************************************)
(* Commands that change a record and save it.  A VLAN that is not          *)
(* configured makes ACCEPT_MAC fail before it changes anything.  The AP is *)
(* told to drop the device afterwards; that changes nothing here.          *)
(***************************************************************************)
SaveOnly(m, rec) ==
  /\ running
  /\ \E ok \in BOOLEAN, f \in 0..1 : Faults(f) /\ save_mac_mapper(m, rec, ok, f)
  /\ applied' = <<>>
  /\ UNCHANGED <<bridges, fw, cuts, exclusive, ticketVars, threads, runVars>>

accept_mac_cmd(m, vlanid) ==
  /\ vlanid \in ConfVlans
  /\ SaveOnly(m, [info[m] EXCEPT !.allow = TRUE, !.vlan = vlanid])
  /\ denied' = denied \ {m}
  /\ granted' = [granted EXCEPT ![m] = NoGrant]

deny_mac_cmd(m) ==
  /\ SaveOnly(m, [info[m] EXCEPT !.allow = FALSE])
  /\ denied' = denied \cup {m}
  /\ granted' = [granted EXCEPT ![m] = NoGrant]

assign_psk_cmd(m, pass) ==
  /\ SaveOnly(m, [info[m] EXCEPT !.pass = Written(@, pass)])
  /\ UNCHANGED <<denied, granted>>

clear_psk_cmd(m) ==
  /\ SaveOnly(m, [info[m] EXCEPT !.pass = Empty])
  /\ UNCHANGED <<denied, granted>>

ap_service_callback(m, status) ==
  /\ m \in mapped
  /\ SaveOnly(m, [info[m] EXCEPT !.status = status])
  /\ UNCHANGED <<denied, granted>>

(***************************************************************************)
(* ADD_NAT and REMOVE_NAT: the firewall first, then the record.            *)
(***************************************************************************)
nat_cmd(m, add) ==
  /\ running
  /\ \E ok, saved \in BOOLEAN, f, g \in 0..1 :
       /\ Faults(f + g)
       /\ FwCalls(add, NatCalls(m), ok, f)
       /\ IF ok THEN save_mac_mapper(m, [info[m] EXCEPT !.nat = add], saved, g)
                ELSE ~saved /\ g = 0 /\ UNCHANGED <<recVars, dbVars>>
       /\ applied' = IF add /\ saved THEN Answered("called", NatOf(m)) ELSE <<>>
  /\ UNCHANGED <<bridges, exclusive, ticketVars, authVars, runVars>>

add_nat_cmd(m) == nat_cmd(m, TRUE)
remove_nat_cmd(m) == nat_cmd(m, FALSE)

(***************************************************************************)
(* ADD_BRIDGE by MAC and by IP, REMOVE_BRIDGE, CLEAR_BRIDGE: the bridge    *)
(* list first, then the firewall, for devices that are mapped.             *)
(***************************************************************************)
\* Mutation: one direction only.
Edges_one_way(l, r) == {<<l, r>>}

Edges(l, r) == {<<l, r>>, <<r, l>>}

add_bridge_mac_cmd(l, r) ==
  /\ running
  /\ l # r
  /\ bridges' = bridges \cup Edges(l, r)
  /\ \E ok \in BOOLEAN, f \in 0..1 :
       /\ Faults(f)
       /\ FwCalls(TRUE, BridgeCalls(l, r), ok, f)
       /\ applied' = IF ok THEN Answered("called", BridgeOf(l, r)) ELSE <<>>
  /\ UNCHANGED <<exclusive, recVars, dbVars, ticketVars, authVars, runVars>>

get_ip_mapper(ip) == {m \in mapped : ip \in IpsOf(m)}

\* ADD_BRIDGE by IP of a bridge that is listed answers OK and makes no call.
check_bridge_exist(l, r) == Edges(l, r) \subseteq bridges

bridge_exists(l, r) ==
  /\ running
  /\ Faults(0)
  /\ applied' = Answered("exists", BridgeOf(l, r))
  /\ UNCHANGED <<bridges, fw, cuts, exclusive, recVars, dbVars, ticketVars, authVars, runVars>>

add_bridge_ip_cmd(left_ip, right_ip) ==
  \E l \in get_ip_mapper(left_ip), r \in get_ip_mapper(right_ip) :
    IF check_bridge_exist(l, r) THEN bridge_exists(l, r) ELSE add_bridge_mac_cmd(l, r)

remove_bridge_cmd(l, r) ==
  /\ running
  /\ bridges' = bridges \ Edges(l, r)
  /\ \E ok \in BOOLEAN, f \in 0..1 :
       Faults(f) /\ FwCalls(FALSE, BridgeCalls(l, r), ok, f)
  /\ applied' = <<>>
  /\ UNCHANGED <<exclusive, recVars, dbVars, ticketVars, authVars, runVars>>

(***************************************************************************)
(* CLEAR_BRIDGE removes the bridge to every MAC of the mapper, in the      *)
(* order of the hash table, and does not look at the results: a removal    *)
(* that fails leaves out the rest of its own four calls and the next one   *)
(* is tried.                                                               *)
(***************************************************************************)
ClearCalls(m) == [c \in mapped \X (1..4) |-> BridgeCalls(m, c[1])[c[2]]]

CallsBefore(first, el, k) ==
  {c \in mapped \X (1..4) : c[1] \in first \/ (c[1] = el /\ c[2] < k)}
CallsAfter(first, el, k, ok) ==
  {c \in mapped \X (1..4) : \/ c[1] \notin first \cup {el}
                            \/ ok /\ c[1] = el /\ c[2] > k}

clear_bridges_cmd(m) ==
  /\ running
  /\ bridges' = bridges \ UNION {Edges(m, el) : el \in mapped}
  /\ IF SeenWhole(FALSE, ClearCalls(m))
       THEN /\ \/ /\ Faults(0)
                  /\ fw' = Apply(FALSE, fw, ClearCalls(m), mapped \X (1..4))
               \/ /\ Faults(1)
                  /\ \E el \in mapped, k \in 1..4, ok \in BOOLEAN :
                       /\ BridgeCalls(m, el)[k] # {}
                       /\ \E first \in SUBSET (mapped \ {el}) :
                            \E mid \in Outcomes(FALSE, BridgeCalls(m, el)[k],
                                      Apply(FALSE, fw, ClearCalls(m), CallsBefore(first, el, k)), ok) :
                              fw' = Apply(FALSE, mid, ClearCalls(m), CallsAfter(first, el, k, ok))
            /\ UNCHANGED cuts
       ELSE /\ Faults(0)
            /\ Cut
            /\ fw' \in SomeMissed(FALSE, ClearCalls(m), mapped \X (1..4))
  /\ applied' = <<>>
  /\ UNCHANGED <<exclusive, recVars, dbVars, ticketVars, authVars, runVars>>

(***************************************************************************)
(* SET_IP: the record and the database, then the subscribers, then the     *)
(* firewall, for every device the MAC is bridged to.  An IP that the       *)
(* device already has, and a third IP, change nothing.                     *)
(***************************************************************************)
get_src_mac_list(m) == {r \in Macs : <<m, r>> \in bridges}

\* Mutation: only the peers' primary IPs.
IpCalls_primary(rec, m, ip, s) ==
  <<IF rec.nat THEN NatCall(ip) ELSE {}>>
    \o [j \in 1..Len(s) |-> BridgeCall(ip, info[s[j]].ip)]

\* Mutation: forgets NAT.
IpCalls_without_nat(rec, m, ip, s) ==
  [j \in 1..(2 * Len(s)) |->
     LET peer == info[s[(j + 1) \div 2]]
     IN  BridgeCall(ip, IF j % 2 = 1 THEN peer.ip ELSE peer.ip_sec)]

IpCalls(rec, m, ip, s) ==
  <<IF rec.nat THEN NatCall(ip) ELSE {}>>
    \o [j \in 1..(2 * Len(s)) |->
          LET peer == info[s[(j + 1) \div 2]]
          IN  BridgeCall(ip, IF j % 2 = 1 THEN peer.ip ELSE peer.ip_sec)]

set_ip(m, ip, add, rec) ==
  /\ running
  /\ exclusive' = (exclusive /\ \A d \in Macs \ {m} : ip \notin IpsOf(d))
  /\ \E s \in Orders(get_src_mac_list(m)), saved, ok \in BOOLEAN, f, g, h \in 0..1 :
       /\ Faults(f + g + h)
       /\ save_mac_mapper(m, rec, saved, f)
       /\ g = 1 => add /\ saved
       /\ IF saved /\ g = 0
            THEN FwCalls(add, IpCalls(rec, m, ip, s), ok, h)
            ELSE ~ok /\ h = 0 /\ UNCHANGED <<fw, cuts>>
  /\ applied' = <<>>
  /\ UNCHANGED <<bridges, ticketVars, authVars, runVars>>

set_ip_add(m, ip) ==
  /\ ip \notin IpsOf(m)
  /\ NoIp \in {info[m].ip, info[m].ip_sec}
  /\ set_ip(m, ip, TRUE, IF info[m].ip = NoIp THEN [info[m] EXCEPT !.ip = ip]
                                              ELSE [info[m] EXCEPT !.ip_sec = ip])

set_ip_del(m, ip) ==
  set_ip(m, ip, FALSE, [info[m] EXCEPT !.ip = IF @ = ip THEN NoIp ELSE @,
                                       !.ip_sec = IF @ = ip THEN NoIp ELSE @])

(***************************************************************************)
(* REGISTER_TICKET: refused while a ticket is active.  When the random     *)
(* number or the timeout cannot be had, the ticket is freed but the        *)
(* context still points to it.                                             *)
(***************************************************************************)
register_ticket_cmd(vlanid) ==
  /\ running
  /\ ticket = NoTicket
  /\ tickets < MaxTicket
  /\ tickets' = tickets + 1
  /\ \/ /\ ticket' = [id |-> tickets + 1, vlan |-> vlanid]
        /\ timers' = Append(timers, tickets + 1)
        /\ Faults(0)
     \/ /\ ticket' = Dangling
        /\ UNCHANGED timers
        /\ Faults(1)
  /\ applied' = <<>>
  /\ UNCHANGED <<bridges, fw, cuts, exclusive, recVars, dbVars, authVars, runVars>>

(***************************************************************************)
(* The timeout of a ticket frees whatever ticket is active.                *)
(***************************************************************************)
\* Mutation: the handler does not free the ticket.
eloop_ticket_timeout_handler_no_free ==
  /\ running
  /\ timers # <<>>
  /\ timers' = Tail(timers)
  /\ UNCHANGED <<ticket, tickets, netVars, recVars, dbVars, authVars, runVars, faults>>

eloop_ticket_timeout_handler ==
  /\ running
  /\ timers # <<>>
  /\ timers' = Tail(timers)
  /\ ticket' = NoTicket
  /\ UNCHANGED <<tickets, netVars, recVars, dbVars, authVars, runVars, faults>>

(***************************************************************************)
(* save_device_vlan: start the capture thread of the VLAN if it has none,  *)
(* read the clock, save the record.                                        *)
(***************************************************************************)
\* Mutation: does not look whether the VLAN has a thread.
schedule_analyser_always(vlanid) == [threads EXCEPT ![vlanid] = @ + 1]

schedule_analyser(vlanid) ==
  [threads EXCEPT ![vlanid] = IF @ = 0 THEN 1 ELSE @]

\* Mutation: saves first and then looks the VLAN up.
save_device_vlan_saves_first(m, rec, ok, fault) ==
  IF exec_capture /\ rec.vlan \notin ConfVlans
    THEN ~ok /\ fault = 0 /\ UNCHANGED threads /\ save_mac_mapper(m, rec, TRUE, 0)
    ELSE /\ threads' = IF exec_capture THEN schedule_analyser(rec.vlan) ELSE threads
         /\ save_mac_mapper(m, rec, ok, fault)

save_device_vlan(m, rec, ok, fault) ==
  IF exec_capture /\ rec.vlan \notin ConfVlans
    THEN ~ok /\ fault = 0 /\ UNCHANGED <<threads, recVars, dbVars>>
    ELSE \/ /\ ~ok /\ fault = 1
            /\ threads' \in {threads} \cup
                 (IF exec_capture THEN {schedule_analyser(rec.vlan)} ELSE {})
            /\ UNCHANGED <<recVars, dbVars>>
         \/ /\ threads' = IF exec_capture THEN schedule_analyser(rec.vlan) ELSE threads
            /\ save_mac_mapper(m, rec, ok, fault)

(***************************************************************************)
(* get_mac_conn_cmd, called for every RADIUS Access-Request: the record    *)
(* that the device is to be connected with.  A device without a password   *)
(* takes the active ticket, or the default VLAN and passphrase when there  *)
(* is none.  A ticket that was freed already is memory of any content.     *)
(***************************************************************************)
\* Mutation: a denied MAC without a password counts as not assigned.
Refused_with_password(m) == m \in mapped /\ ~info[m].allow /\ info[m].pass.len > 0

Refused(m) == m \in mapped /\ ~info[m].allow

TicketRecords(m) ==
  LET rec(vlanid, pass) ==
        [info[m] EXCEPT !.allow = TRUE, !.vlan = vlanid, !.pass = Written(@, pass)]
  IN  CASE ticket = NoTicket -> {rec(AllocVlan[m], Wpa)}
        [] ticket = Dangling -> {rec(v, Junk) : v \in VlanArgs}
        [] OTHER -> {rec(ticket.vlan, TicketPass(ticket.id))}

TakesTicket(m) == ~allow_all_connections /\ info[m].pass.len = 0

ConnRecords(m) ==
  IF info[m].pass.len > 0 THEN {info[m]}
  ELSE IF TakesTicket(m) THEN TicketRecords(m)
  ELSE {[info[m] EXCEPT !.vlan = IF m \in mapped THEN @ ELSE AllocVlan[m],
                        !.pass = Written(@, Wpa)]}

\* Mutation: the ticket is freed after a successful save only.
get_mac_conn_cmd_frees_late(m) ==
  /\ running
  /\ ~Refused(m)
  /\ \E rec \in ConnRecords(m), ok \in BOOLEAN, f \in 0..1 :
       /\ Faults(f)
       /\ save_device_vlan(m, rec, ok, f)
       /\ granted' = [granted EXCEPT ![m] = IF ok THEN rec.vlan ELSE NoGrant]
       /\ ticket' = IF ok /\ TakesTicket(m) THEN NoTicket ELSE ticket
  /\ applied' = <<>>
  /\ UNCHANGED <<bridges, fw, cuts, exclusive, tickets, timers, denied, runVars>>

get_mac_conn_cmd(m) ==
  /\ running
  /\ IF Refused(m)
       THEN /\ granted' = [granted EXCEPT ![m] = NoGrant]
            /\ UNCHANGED <<ticket, threads, recVars, dbVars, faults>>
       ELSE /\ \E rec \in ConnRecords(m), ok \in BOOLEAN, f \in 0..1 :
                 /\ Faults(f)
                 /\ save_device_vlan(m, rec, ok, f)
                 /\ granted' = [granted EXCEPT ![m] = IF ok THEN rec.vlan ELSE NoGrant]
            /\ ticket' = IF TakesTicket(m) THEN NoTicket ELSE ticket
  /\ applied' = <<>>
  /\ UNCHANGED <<bridges, fw, cuts, exclusive, tickets, timers, denied, runVars>>

(***************************************************************************)
(* The process is killed and started again.  A kill between the DELETE and *)
(* the INSERT of a save loses the row.  fw_init_context flushes the        *)
(* firewall; create_mac_mapper reads the rows, and run_ctl gives up when   *)
(* one of them has a VLAN that is not configured.                          *)
(***************************************************************************)
create_mac_mapper(rows) ==
  [m \in Macs |-> IF m \in rows THEN get_sqlite_macconn_entry(store[m])
                                ELSE init_default_mac_info]

run_ctl ==
  /\ running
  /\ \/ stored' = stored /\ Faults(0)
     \/ (\E m \in stored : stored' = stored \ {m}) /\ Faults(1)
  /\ running' = \A m \in stored' : store[m].vlan \in ConfVlans
  /\ exit_code' = 0
  /\ mapped' = IF running' THEN stored' ELSE {}
  /\ info' = create_mac_mapper(mapped')
  /\ bridges' = {}
  /\ ticket' = NoTicket
  /\ timers' = <<>>
  /\ threads' = [v \in ConfVlans |-> 0]
  /\ fw' = NoRules
  /\ granted' = [m \in Macs |-> NoGrant]
  /\ denied' = IF faults' = 0 THEN denied ELSE {}
  /\ applied' = <<>>
  /\ exclusive' = TRUE
  /\ UNCHANGED <<conf, tickets, store, cuts>>

(***************************************************************************)
(* Who may connect, and who may talk to whom.                              *)
(***************************************************************************)
AccessNext ==
  \/ \E m \in Macs, v \in VlanArgs : accept_mac_cmd(m, v)
  \/ \E m \in Macs : deny_mac_cmd(m)
  \/ \E m \in Macs, p \in Psks : assign_psk_cmd(m, p)
  \/ \E m \in Macs : clear_psk_cmd(m)
  \/ \E m \in Macs, s \in ApEvents : ap_service_callback(m, s)
  \/ \E v \in VlanArgs : register_ticket_cmd(v)
  \/ eloop_ticket_timeout_handler
  \/ \E m \in Macs : get_mac_conn_cmd(m)
  \/ run_ctl

NetworkNext ==
  \/ \E m \in Macs : add_nat_cmd(m)
  \/ \E m \in Macs : remove_nat_cmd(m)
  \/ \E l, r \in Macs : add_bridge_mac_cmd(l, r)
  \/ \E i, j \in Ips : add_bridge_ip_cmd(i, j)
  \/ \E l, r \in Macs : remove_bridge_cmd(l, r)
  \/ \E m \in Macs : clear_bridges_cmd(m)
  \/ \E m \in Macs, i \in Ips : set_ip_add(m, i)
  \/ \E m \in Macs, i \in Ips : set_ip_del(m, i)
  \/ run_ctl

Next == AccessNext \/ NetworkNext

(***************************************************************************)
(* The event loop runs every timeout that is due.                          *)
(***************************************************************************)
Fairness == WF_vars(eloop_ticket_timeout_handler)

Spec == Init /\ [][Next]_vars /\ Fairness
AccessSpec == Init /\ [][AccessNext]_vars /\ Fairness
NetworkSpec == Init /\ [][NetworkNext]_vars

-----------------------------------------------------------------------------
(***************************************************************************)
(* Properties.                                                             *)
(***************************************************************************)
Vlans == ConfVlans \cup VlanArgs

Buffers == [len : 0..2, head : Passwords \cup {NoPass}, tail : BOOLEAN]

Statuses == ApEvents \cup {"default"}

Infos ==
  [allow : BOOLEAN, nat : BOOLEAN, vlan : Vlans, pass : Buffers,
   status : Statuses, ip : Ips \cup {NoIp}, ip_sec : Ips \cup {NoIp}]

StoredRows ==
  [allow : BOOLEAN, nat : BOOLEAN, vlan : Vlans, status : Statuses, pass : Buffers]

(* Type invariant.  A MAC that is not in the mapper has no IP.             *)
TypeOK ==
  /\ mapped \in SUBSET Macs
  /\ info \in [Macs -> Infos]
  /\ \A m \in Macs \ mapped : info[m] = init_default_mac_info
  /\ bridges \in SUBSET (Macs \X Macs)
  /\ ticket \in {NoTicket, Dangling} \cup [id : 1..MaxTicket, vlan : VlanArgs]
  /\ tickets \in 0..MaxTicket
  /\ timers \in Seq(1..MaxTicket)
  /\ stored \in SUBSET Macs
  /\ store \in [Macs -> StoredRows]
  /\ threads \in [ConfVlans -> Nat]
  /\ fw \in [FwRules -> Nat]
  /\ conf \in Confs
  /\ running \in BOOLEAN
  /\ exclusive \in BOOLEAN
  /\ exit_code \in {0, -1}
  /\ faults \in 0..MaxFault
  /\ cuts \in 0..MaxFault
  /\ granted \in [Macs -> Vlans \cup {NoGrant}]
  /\ denied \in SUBSET Macs

(* A denied device stays out: from DENY_MAC until the next ACCEPT_MAC no   *)
(* RADIUS request of the device is granted a VLAN, whatever tickets,       *)
(* passwords and allow_all_connections say, whichever saves fail, and      *)
(* across restarts if no fault has happened.                               *)
DeniedStaysOut == \A m \in denied : granted[m] = NoGrant

(* A ticket admits one device: no two MACs ever hold the passphrase of the *)
(* same ticket, though its timeout is still pending after it was used and  *)
(* whether or not the save of the first device failed.                     *)
TicketSingleUse ==
  \A m, d \in mapped, id \in 1..MaxTicket :
    info[m].pass.head = TicketPass(id) /\ info[d].pass.head = TicketPass(id) => m = d

(* Traffic of an admitted device is captured: with exec_capture, a VLAN    *)
(* that a device was granted has exactly one capture thread, however many  *)
(* devices were put on it and whichever requests failed half way.          *)
CapturedOnce ==
  \A v \in ConfVlans :
    /\ threads[v] <= 1
    /\ exec_capture /\ (\E m \in Macs : granted[m] = v) => threads[v] = 1

(* The database mirrors the mapper: as long as nothing has failed, each    *)
(* handler that changes a record has also stored it, so that a restart at  *)
(* any point finds the records as they were, but for the IPs, which are    *)
(* not stored, and for a password that was assigned over a longer one.     *)
(* Of the latter the buffer comes back but not its length, as              *)
(* PasswordSurvivesRestart says.                                           *)
StoreMirrorsMemory ==
  faults = 0 /\ running =>
    /\ stored = mapped
    /\ \A m \in mapped :
         LET back == get_sqlite_macconn_entry(store[m])
         IN  /\ \A field \in {"allow", "nat", "vlan", "status"} : back[field] = info[m][field]
             /\ [back.pass EXCEPT !.len = info[m].pass.len] = info[m].pass
             /\ Overwrites(info[m].pass) \/ back.pass.len = info[m].pass.len

(* With exec_capture, no sequence of commands and tickets stores a VLAN    *)
(* that makes create_mac_mapper, and with it every later start, fail.      *)
CanRestart == exec_capture => running

(* The bridge list stays an undirected graph without loops: an edge and    *)
(* its reverse are added and removed together.                             *)
BridgesUndirected ==
  \A l, r \in Macs : <<l, r>> \in bridges => l # r /\ <<r, l>> \in bridges

(***************************************************************************)
(* What justifies a firewall rule: a device with NAT that holds the IP, or *)
(* two bridged devices that hold the two IPs.                              *)
(***************************************************************************)
HasNat(ip) == \E m \in mapped : info[m].nat /\ ip \in IpsOf(m)
Bridged(src, dst) == \E e \in bridges : src \in IpsOf(e[1]) /\ dst \in IpsOf(e[2])
Justified(r) ==
  IF r.dst = Wan THEN HasNat(r.src)
  ELSE IF r.src = Wan THEN HasNat(r.dst) ELSE Bridged(r.src, r.dst)

(* No leftover access: as long as nothing has failed and every listing of  *)
(* a chain came in one read(), the firewall lets through only what the     *)
(* records and the bridge list justify now, in whatever order IPs come and *)
(* go, bridges and NATs are added and removed and devices are recorded     *)
(* with the same IP.                                                       *)
NoLeftoverRules ==
  faults = 0 /\ cuts = 0 => \A r \in FwRules : fw[r] > 0 => Justified(r)

(* Nothing is missing: as long as nothing has failed, every listing of a   *)
(* chain came in one read(), and DHCP gives an IP to one device at a time, *)
(* every rule the records and the bridge list call for is in the firewall, *)
(* whether the bridge or the NAT came before the IPs or after them.        *)
NoMissingRules ==
  exclusive /\ faults = 0 /\ cuts = 0 => \A r \in FwRules : Justified(r) => fw[r] > 0

(* An add that is answered OK holds: whatever failed before, and whether   *)
(* or not the listings were seen whole, when ADD_NAT or ADD_BRIDGE answers *)
(* OK all its rules are in the firewall, so that repeating the command     *)
(* repairs what an earlier failure left out.  ADD_BRIDGE by IP of a bridge *)
(* that is listed makes no call and is not among them.                     *)
AddAnsweredOkHolds ==
  applied # <<>> /\ applied[1] = "called" => \A r \in applied[2] : fw[r] > 0

(* network_commands.h says that add_bridge_ip_cmd returns 0 on success:    *)
(* when ADD_BRIDGE by IP answers OK for a bridge that is listed, its rules *)
(* are in the firewall.                                                    *)
ListedBridgeHolds ==
  applied # <<>> /\ applied[1] = "exists" /\ exclusive =>
    \A r \in applied[2] : fw[r] > 0

(* A ticket does not stay: every ticket whose timeout was registered is    *)
(* used or freed by a timeout in the end, though timeouts left over from   *)
(* earlier tickets are pending and requests and saves may fail.            *)
TicketGoes == \A id \in 1..MaxTicket : (ticket.id = id) ~> (ticket.id # id)

(* network_commands.h gives a ticket a timeout of TICKET_TIMEOUT seconds:  *)
(* the next timeout to fire is that of the ticket that is active.          *)
TicketHasItsTimeout == ticket.id > 0 => timers # <<>> /\ Head(timers) = ticket.id

(* mac_mapper.h describes pass_len as the length of the WiFi password that *)
(* is assigned to the device: reading the stored row back gives the same   *)
(* password, its first pass_len bytes.                                     *)
PasswordSurvivesRestart ==
  faults = 0 => \A m \in mapped : store[m].pass.len = info[m].pass.len

(* runctl.h says that run_ctl returns -1 if a service fails to start.      *)
StartFailureReported == ~running => exit_code = -1
=============================================================================
