------------------------------ MODULE Iptables ------------------------------
(***************************************************************************)
(* The iptables backend of the firewall service (utils/iptables.c, called  *)
(* from firewall/firewall_service.c).                                      *)
(*                                                                         *)
(* The kernel's FORWARD and POSTROUTING chains are sequences of rules that *)
(* are matched first to last.  Every action below is one iptables command  *)
(* (with the listing that precedes it, which changes nothing), so that the *)
(* states between two commands of a call, in which packets are forwarded   *)
(* and in which the process may be killed, are states of the model.        *)
(***************************************************************************)
EXTENDS FirewallRules, Sequences, FiniteSets, SequencesExt

CONSTANTS
  BaseIfs,     \* the base interfaces of config_ifinfo_array, in its order
  IfOf,        \* the base interface of each IP (get_ifname_from_ip)
  Nif,         \* the NAT interface
  Pairs,       \* the pairs of IPs that bridges are asked for
  NatIps,      \* the IPs that NAT is asked for
  ChunkLines,  \* lines of an iptables listing that one read() returns
  MaxFail,     \* bound: iptables commands that fail
  MaxCrash     \* bound: times the process is killed

ASSUME IptablesAssumption ==
  /\ Len(BaseIfs) > 0
  /\ IfOf \in [Ips -> Range(BaseIfs)]
  /\ Nif \notin Range(BaseIfs)
  /\ Pairs \subseteq Ips \X Ips
  /\ NatIps \subseteq Ips
  /\ ChunkLines \in Nat \ {0}
  /\ MaxFail \in Nat
  /\ MaxCrash \in Nat

VARIABLES
  forward,      \* the FORWARD chain of table filter
  postrouting,  \* the POSTROUTING chain of table nat
  pc,           \* the next command of the call being served
  call,         \* the call being served, with the rules it started from
  ret,          \* what the last call returned (TRUE: 0, FALSE: -1)
  fails,        \* commands that have failed
  crashes       \* times the process was killed

vars == <<forward, postrouting, pc, call, ret, fails, crashes>>

-----------------------------------------------------------------------------
(***************************************************************************)
(* Rules.  An end point is an IP with its interface.                       *)
(***************************************************************************)
Star == "*"
Mcast == "224.0.0.0/4"

Interface(ip) == IF ip = Wan THEN Nif ELSE IfOf[ip]

AcceptRule(src, dst) ==
  [target |-> "ACCEPT", in |-> Interface(src), out |-> Interface(dst),
   src |-> src, dst |-> dst]

MasqueradeRule(src) ==
  [target |-> "MASQUERADE", in |-> Star, out |-> Nif, src |-> src, dst |-> Wan]

RejectRule(ifname) ==
  [target |-> "REJECT", in |-> ifname, out |-> Star, src |-> Wan, dst |-> Wan]

McastRule ==
  [target |-> "ACCEPT", in |-> Star, out |-> Star, src |-> Mcast, dst |-> Mcast]

(***************************************************************************)
(* get_filter_rules and get_nat_rules.  The listing has two header lines   *)
(* and a line for each rule.  It is read ChunkLines at a time, and         *)
(* list_rule_cb empties rule_list for every chunk and skips the first two  *)
(* lines of each: rule_list ends up with the last chunk, less two lines.   *)
(***************************************************************************)
Listed(chain) ==
  {i \in DOMAIN chain : i > ((Len(chain) + 1) \div ChunkLines) * ChunkLines}

FirstOf(S) == IF S = {} THEN 0 ELSE CHOOSE i \in S : \A j \in S : i <= j

find_rule(chain, rule) == FirstOf({i \in Listed(chain) : chain[i] = rule})

\* Mutation: counts the rule that was looked for, and is one too high.
find_baseif_rulenum_off_by_one(chain, ifname) ==
  1 + FirstOf({i \in Listed(chain) : chain[i].in = ifname /\ chain[i].out = Star
                                     /\ chain[i].target = "REJECT"})

find_baseif_rulenum(chain, ifname) ==
  FirstOf({i \in Listed(chain) : chain[i].in = ifname /\ chain[i].out = Star
                                 /\ chain[i].target = "REJECT"})

(***************************************************************************)
(* The control flow of each call: for every command, the one that follows  *)
(* it when it succeeds and when it fails.                                  *)
(***************************************************************************)
Done == {"ok", "error"}

iptables_init ==
  [flush_nat    |-> <<"flush_filter", "error">>,
   flush_filter |-> <<"add_mcast", "error">>,
   add_mcast    |-> <<"add_reject", "error">>,
   add_reject   |-> <<"add_reject", "error">>]

\* Mutation: forgets the opposite direction.
iptables_delete_bridge_one_way ==
  [del_lr |-> <<"ok", "error">>]

iptables_delete_bridge ==
  [del_lr |-> <<"del_rl", "error">>,
   del_rl |-> <<"ok", "error">>]

\* Mutation: deletes one direction only before it adds both.
iptables_add_bridge_one_delete ==
  [del_lr  |-> <<"add_lr", "add_lr">>,
   add_lr  |-> <<"add_rl", "error">>,
   add_rl  |-> <<"ok", "undo_lr">>,
   undo_lr |-> <<"error", "error">>]

\* Mutation: deletes until nothing is found, but never looks at the result.
iptables_add_bridge_endless_undo ==
  [del_lr  |-> <<"del_rl", "add_lr">>,
   del_rl  |-> <<"add_lr", "add_lr">>,
   add_lr  |-> <<"add_rl", "error">>,
   add_rl  |-> <<"ok", "undo_lr">>,
   undo_lr |-> <<"undo_lr", "error">>]

iptables_add_bridge ==
  [del_lr  |-> <<"del_rl", "add_lr">>,
   del_rl  |-> <<"add_lr", "add_lr">>,
   add_lr  |-> <<"add_rl", "error">>,
   add_rl  |-> <<"ok", "undo_lr">>,
   undo_lr |-> <<"error", "error">>]

iptables_delete_nat ==
  [del_lr   |-> <<"del_rl", "error">>,
   del_rl   |-> <<"del_masq", "error">>,
   del_masq |-> <<"ok", "error">>]

iptables_add_nat ==
  [del_lr   |-> <<"del_rl", "error">>,
   del_rl   |-> <<"del_masq", "error">>,
   del_masq |-> <<"add_lr", "error">>,
   add_lr   |-> <<"ins_rl", "error">>,
   ins_rl   |-> <<"ins_masq", "undo_lr">>,
   ins_masq |-> <<"ok", "undo_lr">>,
   undo_lr  |-> <<"undo_rl", "error">>,
   undo_rl  |-> <<"error", "error">>]

Flow(op) ==
  CASE op = "init"       -> iptables_init
    [] op = "add_bridge" -> iptables_add_bridge
    [] op = "del_bridge" -> iptables_delete_bridge
    [] op = "add_nat"    -> iptables_add_nat
    [] op = "del_nat"    -> iptables_delete_nat

OnOk == Flow(call.op)[pc][1]
OnFail == Flow(call.op)[pc][2]

NoCall == [op |-> "none", l |-> Wan, r |-> Wan, before |-> NoRules]

(***************************************************************************)
(* The copies of each rule in the kernel, as module Firewall counts them.  *)
(***************************************************************************)
Serving == pc # "off" /\ call.op # "init"

Copies(chain, rule) == Cardinality({i \in DOMAIN chain : chain[i] = rule})

RuleCount ==
  [r \in FwRules |->
     IF r.kind = "fwd" THEN Copies(forward, AcceptRule(r.src, r.dst))
                       ELSE Copies(postrouting, MasqueradeRule(r.src))]

-----------------------------------------------------------------------------
Init ==
  /\ forward = <<>>
  /\ postrouting = <<>>
  /\ pc = "off"
  /\ call = NoCall
  /\ ret = TRUE
  /\ fails = 0
  /\ crashes = 0

(***************************************************************************)
(* fw_init_context starts iptables_init; the fw_ calls are made one at a   *)
(* time by the supervisor's only thread.                                   *)
(***************************************************************************)
Start ==
  /\ pc = "off"
  /\ pc' = "flush_nat"
  /\ call' = [NoCall EXCEPT !.op = "init"]
  /\ ret' = TRUE
  /\ UNCHANGED <<forward, postrouting, fails, crashes>>

Invoke(op, l, r) ==
  /\ pc = "idle"
  /\ pc' = "del_lr"
  /\ call' = [op |-> op, l |-> l, r |-> r, before |-> RuleCount]
  /\ UNCHANGED <<forward, postrouting, ret, fails, crashes>>

fw_add_bridge == \E p \in Pairs : Invoke("add_bridge", p[1], p[2])
fw_remove_bridge == \E p \in Pairs : Invoke("del_bridge", p[1], p[2])
fw_add_nat == \E l \in NatIps : Invoke("add_nat", l, Wan)
fw_remove_nat == \E l \in NatIps : Invoke("del_nat", l, Wan)

(***************************************************************************)
(* The commands of iptables_init: the flush commands that matter here, in  *)
(* their order, then a REJECT rule for each base interface.                *)
(***************************************************************************)
flush_iptables ==
  /\ pc \in {"flush_nat", "flush_filter", "add_mcast"}
  /\ postrouting' = IF pc = "flush_nat" THEN <<>> ELSE postrouting
  /\ forward' = CASE pc = "flush_nat" -> forward
                  [] pc = "flush_filter" -> <<>>
                  [] pc = "add_mcast" -> Append(forward, McastRule)
  /\ pc' = OnOk
  /\ UNCHANGED <<call, ret, fails, crashes>>

add_baseif_rules ==
  /\ pc = "add_reject"
  /\ forward' = Append(forward, RejectRule(BaseIfs[Len(forward)]))
  /\ IF Len(forward) = Len(BaseIfs)
       THEN pc' = "idle" /\ call' = NoCall
       ELSE pc' = OnOk /\ UNCHANGED call
  /\ UNCHANGED <<postrouting, ret, fails, crashes>>

(***************************************************************************)
(* delete_bridge_rule: list, find, delete by number; nothing to delete is  *)
(* a success.  A chain whose listing shows no rule at all is an error.     *)
(***************************************************************************)
Pair(where) ==
  IF where \in {"del_rl", "add_rl", "ins_rl", "undo_rl"}
    THEN AcceptRule(call.r, call.l)
    ELSE AcceptRule(call.l, call.r)

delete_bridge_rule ==
  /\ pc \in {"del_lr", "del_rl", "undo_lr", "undo_rl"}
  /\ IF Listed(forward) = {}
       THEN pc' = OnFail /\ UNCHANGED forward
       ELSE LET num == find_rule(forward, Pair(pc))
            IN  /\ forward' = IF num = 0 THEN forward ELSE RemoveAt(forward, num)
                /\ pc' = OnOk
  /\ UNCHANGED <<postrouting, call, ret, fails, crashes>>

(***************************************************************************)
(* add_bridge_rule: insert in front of the REJECT rule of the source's     *)
(* interface, or at the head when the listing shows none.                  *)
(***************************************************************************)
add_bridge_rule ==
  /\ pc \in {"add_lr", "add_rl"}
  /\ IF Listed(forward) = {}
       THEN pc' = OnFail /\ UNCHANGED forward
       ELSE LET num == find_baseif_rulenum(forward, Pair(pc).in)
            IN  /\ forward' = InsertAt(forward, IF num = 0 THEN 1 ELSE num, Pair(pc))
                /\ pc' = OnOk
  /\ UNCHANGED <<postrouting, call, ret, fails, crashes>>

insert_wan_rule ==
  /\ pc = "ins_rl"
  /\ forward' = <<Pair(pc)>> \o forward
  /\ pc' = OnOk
  /\ UNCHANGED <<postrouting, call, ret, fails, crashes>>

delete_masquerade ==
  /\ pc = "del_masq"
  /\ LET num == find_rule(postrouting, MasqueradeRule(call.l))
     IN  postrouting' = IF num = 0 THEN postrouting ELSE RemoveAt(postrouting, num)
  /\ pc' = OnOk
  /\ UNCHANGED <<forward, call, ret, fails, crashes>>

\* Mutation: leaves out "-t nat", and the rule goes into the default table.
insert_masquerade_filter_table ==
  /\ pc = "ins_masq"
  /\ forward' = <<MasqueradeRule(call.l)>> \o forward
  /\ pc' = OnOk
  /\ UNCHANGED <<postrouting, call, ret, fails, crashes>>

insert_masquerade ==
  /\ pc = "ins_masq"
  /\ postrouting' = <<MasqueradeRule(call.l)>> \o postrouting
  /\ pc' = OnOk
  /\ UNCHANGED <<forward, call, ret, fails, crashes>>

(***************************************************************************)
(* The iptables process exits with an error: the chain is as it was.  When *)
(* it is the listing of POSTROUTING that fails, iptables_delete_nat takes  *)
(* the chain for empty and goes on.  A failed iptables_init ends run_ctl.  *)
(***************************************************************************)
command_fails ==
  /\ pc \notin {"off", "idle"} \cup Done
  /\ fails < MaxFail
  /\ fails' = fails + 1
  /\ pc' \in IF pc = "del_masq" THEN {OnFail, OnOk} ELSE {OnFail}
  /\ UNCHANGED <<forward, postrouting, call, ret, crashes>>

return ==
  /\ pc \in Done
  /\ ret' = (pc = "ok")
  /\ pc' = IF call.op = "init" THEN "off" ELSE "idle"
  /\ call' = NoCall
  /\ UNCHANGED <<forward, postrouting, fails, crashes>>

(***************************************************************************)
(* The process is killed, between or inside calls; the kernel keeps its    *)
(* chains until the next iptables_init.                                    *)
(***************************************************************************)
killed ==
  /\ pc # "off"
  /\ crashes < MaxCrash
  /\ crashes' = crashes + 1
  /\ pc' = "off"
  /\ call' = NoCall
  /\ ret' = TRUE
  /\ UNCHANGED <<forward, postrouting, fails>>

command ==
  \/ flush_iptables
  \/ add_baseif_rules
  \/ delete_bridge_rule
  \/ add_bridge_rule
  \/ insert_wan_rule
  \/ delete_masquerade
  \/ insert_masquerade
  \/ command_fails
  \/ return

Next ==
  \/ Start
  \/ fw_add_bridge
  \/ fw_remove_bridge
  \/ fw_add_nat
  \/ fw_remove_nat
  \/ command
  \/ killed

(***************************************************************************)
(* run_command waits for its child, and iptables terminates: a command     *)
(* that has been started finishes.                                         *)
(***************************************************************************)
Spec == Init /\ [][Next]_vars /\ WF_vars(command)

-----------------------------------------------------------------------------
(***************************************************************************)
(* Properties.                                                             *)
(***************************************************************************)
FilterRules ==
  {AcceptRule(s, d) : s, d \in Ips \cup {Wan}}
    \cup {RejectRule(f) : f \in Range(BaseIfs)} \cup {McastRule}

(* Type invariant: each chain holds only the rules the backend builds for  *)
(* it (a MASQUERADE rule is valid in table nat alone), and a call in       *)
(* progress is at a command of its own control flow.                       *)
TypeOK ==
  /\ Range(forward) \subseteq FilterRules
  /\ Range(postrouting) \subseteq {MasqueradeRule(s) : s \in Ips}
  /\ pc \notin {"off", "idle"} => pc \in DOMAIN Flow(call.op) \cup Done
  /\ call.l \in Ips \cup {Wan} /\ call.r \in Ips \cup {Wan}
  /\ ret \in BOOLEAN
  /\ fails \in 0..MaxFail
  /\ crashes \in 0..MaxCrash

(***************************************************************************)
(* A packet to be forwarded.  The kernel applies the first rule that       *)
(* matches it, and the ACCEPT policy when none does.                       *)
(***************************************************************************)
Internet == "internet"

Packets ==
  [in : Range(BaseIfs), out : Range(BaseIfs) \cup {Nif},
   src : Ips, dst : Ips \cup {Internet}]

Matches(rule, p) ==
  /\ rule.in \in {Star, p.in}
  /\ rule.out \in {Star, p.out}
  /\ rule.src \in {Wan, p.src}
  /\ rule.dst \in {Wan, p.dst}

Verdict(p) ==
  LET num == FirstOf({i \in DOMAIN forward : Matches(forward[i], p)})
  IN  IF num = 0 THEN "ACCEPT" ELSE forward[num].target

(* Default deny: whatever calls were made, whichever commands failed and   *)
(* wherever between two commands a call is, a packet that comes in on a    *)
(* base interface is forwarded exactly when some ACCEPT rule of the chain  *)
(* is for it.  No insertion ends up behind the REJECT rule of its          *)
(* interface, and none of the REJECT rules is lost to a deletion by        *)
(* number.                                                                 *)
DefaultDeny ==
  Serving =>
    \A p \in Packets :
      Verdict(p) = "ACCEPT"
        <=> \E i \in DOMAIN forward :
              forward[i].target = "ACCEPT" /\ Matches(forward[i], p)

(* All or nothing: as long as no command fails, between two calls a bridge *)
(* is in place in both directions or in neither, a NAT has its three rules *)
(* or none of them, and no rule has a second copy, even after the process  *)
(* was killed in the middle of a call and started again.                   *)
AllOrNothing ==
  pc = "idle" /\ fails = 0 =>
    \A R \in {BridgeRules(l, r) : l, r \in Ips} \cup {NatRules(i) : i \in Ips} :
      \E n \in 0..1 : \A r \in R : RuleCount[r] = n * Times(r)

(* iptables.h says of rule_list that it holds the current iptables rules:  *)
(* a bridge or NAT rule that is in the chain is found in a listing of it,  *)
(* so that it can be deleted.                                              *)
RuleListIsCurrent ==
  pc = "idle" =>
    \A i \in DOMAIN forward : find_rule(forward, forward[i]) # 0

(* iptables.h says that iptables_delete_bridge returns 0 on success, and   *)
(* a comment in iptables_add_bridge that bridge rules are deleted if       *)
(* present: when the removal is about to return 0, the chain has no ACCEPT *)
(* rule left between the two end points.                                   *)
DeleteBridgeMeansGone ==
  pc = "ok" /\ call.op = "del_bridge" =>
    \A r \in BridgeRules(call.l, call.r) : RuleCount[r] = 0

(* Every call, and every start, comes to an end: the supervisor's thread   *)
(* is never left inside a firewall call.                                   *)
CallReturns == (pc \in {"del_lr", "flush_nat"}) ~> (pc \in {"idle", "off"})

(***************************************************************************)
(* The backend implements the firewall service's promise.                  *)
(***************************************************************************)
RulesOfCall ==
  IF call.r = Wan THEN NatRules(call.l) ELSE BridgeRules(call.l, call.r)

FW == INSTANCE Firewall WITH
  up <- Serving,
  count <- IF Serving THEN RuleCount ELSE NoRules,
  req <- IF pc \in {"off", "idle"} \/ call.op = "init"
           THEN [add |-> FALSE, rules |-> {}, before |-> NoRules]
           ELSE [add |-> call.op \in {"add_bridge", "add_nat"},
                 rules |-> RulesOfCall, before |-> call.before],
  ok <- IF Serving THEN ret ELSE TRUE

(* Refinement: a call changes the rules of its own request and no others,  *)
(* one copy at a time, whatever fails; an add that returns 0 has put all   *)
(* its rules in place; a removal that returns 0 has taken out exactly one  *)
(* copy of each forwarding rule; a call that returns -1 is within one copy *)
(* of where it started; and a start begins from no rules at all.           *)
ImplementsFirewall == FW!FwSpec

=============================================================================
