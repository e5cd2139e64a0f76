------------------------------ MODULE Firewall ------------------------------
(***************************************************************************)
(* What the firewall service (firewall/firewall_service.c) promises to the *)
(* supervisor, independently of how iptables keeps its rules.              *)
(*                                                                         *)
(* The state is a bag: how many copies of each rule the kernel holds.      *)
(* fw_add_bridge and fw_add_nat ask for a set of rules, fw_remove_bridge   *)
(* and fw_remove_nat ask for one copy of each to be taken out.  A request  *)
(* touches the rules of its own set and no others, one copy at a time, and *)
(* the reply says what may be relied on afterwards.  Module Iptables is    *)
(* shown to implement this specification; module Supervisor uses the       *)
(* operators of FirewallRules as the effect of its firewall calls.         *)
(***************************************************************************)
EXTENDS FirewallRules

VARIABLES
  up,      \* the firewall context exists
  count,   \* copies of each rule
  req,     \* the request being served, or NoReq
  ok       \* the last reply

fwVars == <<up, count, req, ok>>

NoReq == [add |-> FALSE, rules |-> {}, before |-> NoRules]

RequestSets ==
  {BridgeRules(l, r) : l, r \in Ips} \cup {NatRules(i) : i \in Ips}

FwInit ==
  /\ up = FALSE
  /\ count = NoRules
  /\ req = NoReq
  /\ ok = TRUE

Boot ==
  /\ ~up
  /\ up' = TRUE
  /\ UNCHANGED <<count, req, ok>>

Crash ==
  /\ up
  /\ up' = FALSE
  /\ count' = NoRules
  /\ req' = NoReq
  /\ ok' = TRUE

Request(add, R) ==
  /\ up
  /\ req = NoReq
  /\ req' = [add |-> add, rules |-> R, before |-> count]
  /\ UNCHANGED <<up, count, ok>>

(***************************************************************************)
(* One command of the request takes effect.                                *)
(***************************************************************************)
Change(r, d) ==
  /\ up
  /\ r \in req.rules
  /\ count[r] + d >= 0
  /\ count' = [count EXCEPT ![r] = @ + d]
  /\ UNCHANGED <<up, req, ok>>

Reply ==
  /\ up
  /\ req # NoReq
  /\ \E success \in BOOLEAN :
       /\ Promised(req.add, req.rules, req.before, count, success)
       /\ ok' = success
  /\ req' = NoReq
  /\ UNCHANGED <<up, count>>

FwNext ==
  \/ Boot
  \/ Crash
  \/ \E add \in BOOLEAN, R \in RequestSets : Request(add, R)
  \/ \E r \in FwRules, d \in {-1, 1} : Change(r, d)
  \/ Reply

FwSpec == FwInit /\ [][FwNext]_fwVars
=============================================================================
