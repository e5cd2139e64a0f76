--------------------------- MODULE FirewallRules ---------------------------
(***************************************************************************)
(* The rules the firewall service (firewall/firewall_service.c) deals in,  *)
(* and the effect of its calls when no command fails.                      *)
(*                                                                         *)
(* The rules the kernel holds are a bag: a count of copies for each rule,  *)
(* because iptables keeps duplicates and deletes one copy at a time.       *)
(***************************************************************************)
EXTENDS Integers

CONSTANTS
  Ips,    \* the IP addresses of devices
  Wan     \* "0.0.0.0/0" on the NAT interface

ASSUME WanAssumption == Wan \notin Ips

(***************************************************************************)
(* An ACCEPT rule of the FORWARD chain from src to dst, and a MASQUERADE   *)
(* rule of the POSTROUTING chain for src.                                  *)
(***************************************************************************)
Fwd(src, dst) == [kind |-> "fwd", src |-> src, dst |-> dst]
Masq(src) == [kind |-> "masq", src |-> src, dst |-> Wan]

(***************************************************************************)
(* The rules of one fw_add_bridge / fw_remove_bridge call and of one       *)
(* fw_add_nat / fw_remove_nat call.                                        *)
(***************************************************************************)
BridgeRules(left, right) == {Fwd(left, right), Fwd(right, left)}
NatRules(ip) == {Fwd(ip, Wan), Fwd(Wan, ip), Masq(ip)}

FwRules ==
  UNION ({BridgeRules(l, r) : l, r \in Ips} \cup {NatRules(i) : i \in Ips})

NoRules == [r \in FwRules |-> 0]

(***************************************************************************)
(* A bridge from an IP to itself, which is asked for when two bridged      *)
(* devices are recorded with the same IP, names one rule twice.            *)
(***************************************************************************)
Times(r) == IF r.src = r.dst THEN 2 ELSE 1

Less(count, r) == IF count[r] > Times(r) THEN count[r] - Times(r) ELSE 0

(***************************************************************************)
(* The effect of a call in which no command fails and the calls see the    *)
(* whole of the chain, which they do while its listing fits one read().    *)
(* Adding first deletes one copy of each rule, if there is one, and then   *)
(* inserts one.                                                            *)
(***************************************************************************)
Added(count, R) ==
  [r \in FwRules |-> IF r \in R /\ count[r] < Times(r) THEN Times(r) ELSE count[r]]
Removed(count, R) ==
  [r \in FwRules |-> IF r \in R THEN Less(count, r) ELSE count[r]]

(***************************************************************************)
(* The effect of a call in which a command fails, with listings as above.  *)
(* A call touches only its own rules and ends within one copy of where it  *)
(* started.  A successful add has put every rule in place.  A successful   *)
(* removal has taken out one copy of every forwarding rule; it does not    *)
(* vouch for the masquerading rule, because iptables_delete_nat answers 0  *)
(* when the POSTROUTING chain cannot be listed.                            *)
(***************************************************************************)
Promised(add, R, before, after, success) ==
  \A r \in R :
    /\ after[r] \in Less(before, r)..(before[r] + Times(r))
    /\ success /\ add => after[r] >= Times(r)
    /\ success /\ ~add /\ r.kind = "fwd" => after[r] = Less(before, r)
    /\ success /\ ~add => after[r] <= before[r]

Steps(R) == IF \E r \in R : Times(r) = 2 THEN -2..2 ELSE -1..1

Outcomes(add, R, before, success) ==
  {after \in {[r \in FwRules |-> IF r \in R THEN before[r] + d[r] ELSE before[r]]
                : d \in [R -> Steps(R)]}
     : Promised(add, R, before, after, success)}
=============================================================================
