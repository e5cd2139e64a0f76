-------------------------- MODULE SupervisorProofs --------------------------
(***************************************************************************)
(* Proofs about Supervisor, for any set of devices, IPs, VLANs, passwords  *)
(* and configurations, any number of tickets and any number of faults.     *)
(***************************************************************************)
EXTENDS Supervisor, FiniteSetTheorems, TLAPS

-----------------------------------------------------------------------------
(***************************************************************************)
(* Types.  TypeOK in four parts, each of which a group of operators        *)
(* changes.                                                                *)
(***************************************************************************)
RecOK ==
  /\ mapped \in SUBSET Macs
  /\ info \in [Macs -> Infos]
  /\ \A m \in Macs \ mapped : info[m] = init_default_mac_info
  /\ stored \in SUBSET Macs
  /\ store \in [Macs -> StoredRows]

TicketOK ==
  /\ ticket \in {NoTicket, Dangling} \cup [id : 1..MaxTicket, vlan : VlanArgs]
  /\ tickets \in 0..MaxTicket
  /\ timers \in Seq(1..MaxTicket)

NetOK ==
  /\ bridges \in SUBSET (Macs \X Macs)
  /\ fw \in [FwRules -> Nat]
  /\ cuts \in 0..MaxFault
  /\ exclusive \in BOOLEAN

RunOK ==
  /\ conf \in Confs
  /\ running \in BOOLEAN
  /\ exit_code \in {0, -1}
  /\ faults \in 0..MaxFault
  /\ threads \in [ConfVlans -> Nat]
  /\ granted \in [Macs -> Vlans \cup {NoGrant}]
  /\ denied \in SUBSET Macs

(* The four parts make up the type invariant of Supervisor.                *)
LEMMA TypeParts == TypeOK <=> RecOK /\ TicketOK /\ NetOK /\ RunOK
BY Zenon DEF TypeOK, RecOK, TicketOK, NetOK, RunOK

(* The record that init_default_mac_info makes is a record.                *)
LEMMA DefaultType == conf \in Confs => init_default_mac_info \in Infos
<1> SUFFICES ASSUME conf \in Confs PROVE init_default_mac_info \in Infos
  BY Zenon
<1>1. Empty \in Buffers
  BY DEF Empty, Buffers
<1>2. conf.allow_all_nat \in BOOLEAN
  BY SupervisorAssumption, Zenon
<1> QED
  BY <1>1, <1>2, SupervisorAssumption, Zenon
  DEF init_default_mac_info, Infos, allow_all_nat, Vlans, Statuses

(* What is written to a password buffer is a password buffer.              *)
LEMMA WrittenType ==
  ASSUME NEW buf \in Buffers, NEW pass \in Passwords
  PROVE  Written(buf, pass) \in Buffers
BY DEF Written, Buffers

(* A row is made of a record, and a record of a row.                       *)
LEMMA RowType == \A rec \in Infos : Row(rec) \in StoredRows
<1> TAKE rec \in Infos
<1>1. rec.pass \in Buffers /\ TextLen(rec.pass) \in 0..2
  BY DEF Infos, TextLen
<1>2. [rec.pass EXCEPT !.len = TextLen(rec.pass)] \in Buffers
  BY <1>1, Zenon DEF Buffers
<1> QED
  BY <1>2, Zenon DEF Row, Infos, StoredRows

LEMMA EntryType == \A row \in StoredRows : get_sqlite_macconn_entry(row) \in Infos
BY Zenon DEF get_sqlite_macconn_entry, Infos, StoredRows

(* save_mac_mapper keeps the records and the rows well typed.              *)
LEMMA SaveType ==
  ASSUME RecOK, NEW m \in Macs, NEW rec \in Infos, NEW ok, NEW f,
         save_mac_mapper(m, rec, ok, f), UNCHANGED conf
  PROVE  RecOK'
<1>1. /\ mapped' \in SUBSET Macs
      /\ info' \in [Macs -> Infos]
      /\ \A d \in Macs \ mapped' : info'[d] = init_default_mac_info
  BY Zenon DEF RecOK, save_mac_mapper
<1>2. init_default_mac_info' = init_default_mac_info
  BY Zenon DEF init_default_mac_info, allow_all_nat
<1>3. stored' \in SUBSET Macs /\ store' \in [Macs -> StoredRows]
  BY RowType, Zenon DEF RecOK, save_mac_mapper, save_sqlite_macconn_entry
<1> QED
  BY <1>1, <1>2, <1>3, Zenon DEF RecOK

(* Nothing changes when the records and the rows do not.                   *)
LEMMA RecUnchanged ==
  ASSUME RecOK, UNCHANGED <<recVars, dbVars, conf>>
  PROVE  RecOK'
<1>1. init_default_mac_info' = init_default_mac_info
  BY Zenon DEF init_default_mac_info, allow_all_nat
<1> QED
  BY <1>1, Zenon DEF RecOK, recVars, dbVars

-----------------------------------------------------------------------------
(***************************************************************************)
(* Firewall calls.                                                         *)
(***************************************************************************)

(* A rule of a call is a rule of the firewall.                             *)
LEMMA CallRules ==
  /\ \A i \in Ips \cup {NoIp} : NatCall(i) \subseteq FwRules
  /\ \A i, j \in Ips \cup {NoIp} : BridgeCall(i, j) \subseteq FwRules
BY DEF NatCall, BridgeCall, FwRules

(* A rule counts once or twice.                                            *)
LEMMA TimesType == \A r : Times(r) \in {1, 2}
BY Zenon DEF Times

(* The copies that a finite set of calls asks for are a number.            *)
LEMMA CopiesType ==
  ASSUME NEW calls, NEW J, IsFiniteSet(J), NEW r
  PROVE  Copies(calls, J, r) \in Nat
<1>1. IsFiniteSet({j \in J : r \in calls[j]})
  BY FS_Subset, Zenon
<1>2. Cardinality({j \in J : r \in calls[j]}) \in Nat
  BY <1>1, FS_CardinalityType, Zenon
<1> QED
  BY <1>2, TimesType DEF Copies

(* Calls that succeed leave a count of each rule.                          *)
LEMMA ApplyType ==
  ASSUME NEW add, NEW count \in [FwRules -> Nat], NEW calls, NEW J, IsFiniteSet(J)
  PROVE  Apply(add, count, calls, J) \in [FwRules -> Nat]
<1>1. Added(count, UNION {calls[j] : j \in J}) \in [FwRules -> Nat]
  BY TimesType DEF Added
<1>2. \A r \in FwRules :
        (IF count[r] > Copies(calls, J, r) THEN count[r] - Copies(calls, J, r) ELSE 0) \in Nat
  BY CopiesType
<1>3. [r \in FwRules |-> IF count[r] > Copies(calls, J, r)
                           THEN count[r] - Copies(calls, J, r) ELSE 0] \in [FwRules -> Nat]
  BY <1>2, Zenon
<1> QED
  BY <1>1, <1>3, Zenon DEF Apply

(* A call in which a command failed leaves a count of each rule.           *)
LEMMA OutcomeType ==
  ASSUME NEW add, NEW R, NEW before \in [FwRules -> Nat], NEW ok,
         NEW after \in Outcomes(add, R, before, ok)
  PROVE  after \in [FwRules -> Nat]
<1>1. PICK d \in [R -> Steps(R)] :
        after = [r \in FwRules |-> IF r \in R THEN before[r] + d[r] ELSE before[r]]
  BY Zenon DEF Outcomes
<1>2. \A r \in R : after[r] \in Less(before, r)..(before[r] + Times(r))
  BY Zenon DEF Outcomes, Promised
<1>3. \A r \in FwRules : after[r] \in Nat
  <2> TAKE r \in FwRules
  <2>1. CASE r \in R
    BY <2>1, <1>2, TimesType DEF Less
  <2>2. CASE r \notin R
    BY <2>2, <1>1, Zenon
  <2> QED
    BY <2>1, <2>2, Zenon
<1> QED
  BY <1>1, <1>3, Zenon

(* A bag between two others counts each rule, and no fewer copies of it    *)
(* than the lower of the two.                                              *)
LEMMA BetweenType ==
  ASSUME NEW low \in [FwRules -> Nat], NEW high \in [FwRules -> Nat],
         NEW after \in Between(low, high)
  PROVE  after \in [FwRules -> Nat] /\ \A r \in FwRules : after[r] >= low[r]
<1>1. PICK S \in SUBSET UNION {{r} \X (1..(high[r] - low[r])) : r \in FwRules} :
        after = [r \in FwRules |-> low[r] + Cardinality({c \in S : c[1] = r})]
  BY Zenon DEF Between
<1>2. ASSUME NEW r \in FwRules PROVE Cardinality({c \in S : c[1] = r}) \in Nat
  <2> DEFINE n == high[r] - low[r]
  <2>1. {c \in S : c[1] = r} \subseteq {r} \X (1..n)
    <3> SUFFICES ASSUME NEW c \in S, c[1] = r PROVE c \in {r} \X (1..n)
      BY Zenon
    <3>1. PICK q \in FwRules : c \in {q} \X (1..(high[q] - low[q]))
      BY Zenon
    <3>2. c[1] = q
      BY <3>1, Zenon
    <3> QED
      BY <3>1, <3>2, Zenon
  <2>2. n \in Int /\ 1 \in Int
    OBVIOUS
  <2>3. IsFiniteSet({r} \X (1..n))
    BY <2>2, FS_Singleton, FS_Interval, FS_Product, Zenon
  <2> HIDE DEF n
  <2>4. IsFiniteSet({c \in S : c[1] = r})
    BY <2>1, <2>3, FS_Subset, Zenon
  <2> QED
    BY <2>4, FS_CardinalityType, Zenon
<1>3. \A r \in FwRules : after[r] \in Nat /\ after[r] >= low[r]
  <2> TAKE r \in FwRules
  <2> DEFINE n == Cardinality({c \in S : c[1] = r})
  <2>1. after[r] = low[r] + n /\ n \in Nat
    BY <1>1, <1>2, Zenon
  <2> HIDE DEF n
  <2> QED
    BY <2>1
<1> QED
  BY <1>1, <1>3, Zenon

(* Adds that miss every copy leave a count of each rule.                   *)
LEMMA AllMissedType ==
  ASSUME NEW add, NEW calls, NEW J, IsFiniteSet(J), fw \in [FwRules -> Nat]
  PROVE  AllMissed(add, calls, J) \in [FwRules -> Nat]
<1>1. \A r \in FwRules : (IF add THEN fw[r] + Copies(calls, J, r) ELSE fw[r]) \in Nat
  BY CopiesType
<1> QED
  BY <1>1, Zenon DEF AllMissed

(* So do calls that see a part of the chain only.                          *)
LEMMA MissedType ==
  ASSUME NEW add, NEW calls, NEW J, IsFiniteSet(J), fw \in [FwRules -> Nat],
         NEW after \in SomeMissed(add, calls, J)
  PROVE  /\ after \in [FwRules -> Nat]
         /\ \A r \in FwRules : after[r] >= Apply(add, fw, calls, J)[r]
<1>1. Apply(add, fw, calls, J) \in [FwRules -> Nat] /\ AllMissed(add, calls, J) \in [FwRules -> Nat]
  BY ApplyType, AllMissedType, Zenon
<1> QED
  BY <1>1, BetweenType, Zenon DEF SomeMissed

(* A sequence of calls leaves a count of each rule.                        *)
LEMMA FwCallsType ==
  ASSUME NEW add, NEW calls \in Seq(SUBSET FwRules), NEW ok \in BOOLEAN, NEW f,
         fw \in [FwRules -> Nat], FwCalls(add, calls, ok, f)
  PROVE  fw' \in [FwRules -> Nat]
<1>0. IsFiniteSet(DOMAIN calls)
  BY FS_Interval
<1>1. CASE fw' = Apply(add, fw, calls, DOMAIN calls)
  BY <1>0, <1>1, ApplyType, Zenon
<1>2. ASSUME NEW i \in DOMAIN calls,
             NEW mid \in Outcomes(add, calls[i], Apply(add, fw, calls, 1..(i - 1)), ok),
             fw' = IF ok THEN Apply(add, mid, calls, (i + 1)..Len(calls)) ELSE mid
      PROVE  fw' \in [FwRules -> Nat]
  <2>1. i \in Int /\ Len(calls) \in Int
    OBVIOUS
  <2>2. IsFiniteSet(1..(i - 1)) /\ IsFiniteSet((i + 1)..Len(calls))
    BY <2>1, FS_Interval
  <2>3. Apply(add, fw, calls, 1..(i - 1)) \in [FwRules -> Nat]
    BY <2>2, ApplyType, Zenon
  <2>4. mid \in [FwRules -> Nat]
    BY <2>3, OutcomeType, Zenon
  <2> QED
    BY <1>2, <2>2, <2>4, ApplyType, Zenon
<1>3. CASE fw' \in SomeMissed(add, calls, DOMAIN calls)
  BY <1>0, <1>3, MissedType, Zenon
<1>4. ASSUME NEW i \in DOMAIN calls, fw' \in FailsUnseen(add, calls, i)
      PROVE  fw' \in [FwRules -> Nat]
  <2>1. i \in Int
    OBVIOUS
  <2>2. IsFiniteSet(1..(i - 1)) /\ IsFiniteSet(1..i)
    BY <2>1, FS_Interval
  <2>3. Apply(add, fw, calls, 1..(i - 1)) \in [FwRules -> Nat]
    BY <2>2, ApplyType, Zenon
  <2>4. \A r \in FwRules : Less(Apply(add, fw, calls, 1..(i - 1)), r) \in Nat
    <3> DEFINE b == Apply(add, fw, calls, 1..(i - 1))
    <3>1. b \in [FwRules -> Nat]
      BY <2>3, Zenon
    <3> HIDE DEF b
    <3>2. \A r \in FwRules : Less(b, r) \in Nat
      BY <3>1, TimesType DEF Less
    <3> QED
      BY <3>2, Zenon DEF b
  <2>5. Removed(Apply(add, fw, calls, 1..(i - 1)), calls[i]) \in [FwRules -> Nat]
    BY <2>3, <2>4, Zenon DEF Removed
  <2>6. AllMissed(add, calls, 1..i) \in [FwRules -> Nat]
    BY <2>2, AllMissedType, Zenon
  <2> QED
    BY <1>4, <2>5, <2>6, BetweenType, Zenon DEF FailsUnseen
<1> QED
  BY <1>1, <1>2, <1>3, <1>4, Zenon DEF FwCalls

(* A handler counts the listing that it saw in part within the bound.      *)
LEMMA CutsType ==
  ASSUME cuts \in 0..MaxFault, faults' \in 0..MaxFault, Cut \/ UNCHANGED cuts
  PROVE  cuts' \in 0..MaxFault
BY SupervisorAssumption DEF Cut

LEMMA FwCallsCuts ==
  ASSUME NEW add, NEW calls, NEW ok, NEW f, FwCalls(add, calls, ok, f)
  PROVE  Cut \/ UNCHANGED cuts
BY Zenon DEF FwCalls

(* The calls of a handler are sets of firewall rules.                      *)
LEMMA CallSeqs ==
  ASSUME RecOK
  PROVE  /\ \A m \in Macs : NatCalls(m) \in Seq(SUBSET FwRules)
         /\ \A l, r \in Macs : BridgeCalls(l, r) \in Seq(SUBSET FwRules)
         /\ \A m \in Macs, k \in 1..4 : \A l \in Macs : BridgeCalls(l, m)[k] \in SUBSET FwRules
<1>1. \A m \in Macs : info[m].ip \in Ips \cup {NoIp} /\ info[m].ip_sec \in Ips \cup {NoIp}
  BY Zenon DEF RecOK, Infos
<1>2. \A m \in Macs : NatCalls(m) \in Seq(SUBSET FwRules)
  BY <1>1, CallRules DEF NatCalls
<1>3. \A l, r \in Macs : /\ BridgeCalls(l, r) \in Seq(SUBSET FwRules)
                         /\ \A k \in 1..4 : BridgeCalls(l, r)[k] \in SUBSET FwRules
  <2> TAKE l, r \in Macs
  <2> DEFINE c1 == BridgeCall(info[l].ip, info[r].ip)
             c2 == BridgeCall(info[l].ip, info[r].ip_sec)
             c3 == BridgeCall(info[l].ip_sec, info[r].ip)
             c4 == BridgeCall(info[l].ip_sec, info[r].ip_sec)
  <2>1. /\ c1 \in SUBSET FwRules /\ c2 \in SUBSET FwRules
        /\ c3 \in SUBSET FwRules /\ c4 \in SUBSET FwRules
    BY <1>1, CallRules, Zenon
  <2>2. BridgeCalls(l, r) = <<c1, c2, c3, c4>>
    BY Zenon DEF BridgeCalls
  <2> HIDE DEF c1, c2, c3, c4
  <2> QED
    BY <2>1, <2>2
<1> QED
  BY <1>2, <1>3, Zenon

LEMMA IpCallSeq ==
  ASSUME RecOK, NEW rec \in Infos, NEW m, NEW ip \in Ips,
         NEW S \in SUBSET Macs, NEW s \in Orders(S)
  PROVE  IpCalls(rec, m, ip, s) \in Seq(SUBSET FwRules)
<1>1. IsFiniteSet(S)
  BY SupervisorAssumption, FS_Subset, Zenon
<1>2. Cardinality(S) \in Nat
  BY <1>1, FS_CardinalityType, Zenon
<1>3. s \in Seq(Macs) /\ Len(s) = Cardinality(S)
  BY <1>2 DEF Orders
<1> DEFINE Call(j) == LET peer == info[s[(j + 1) \div 2]]
                      IN  BridgeCall(ip, IF j % 2 = 1 THEN peer.ip ELSE peer.ip_sec)
           Nats == IF rec.nat THEN NatCall(ip) ELSE {}
<1>4. \A j \in 1..(2 * Len(s)) : Call(j) \in SUBSET FwRules
  <2> TAKE j \in 1..(2 * Len(s))
  <2>1. (j + 1) \div 2 \in 1..Len(s)
    BY <1>3, <1>2
  <2>2. s[(j + 1) \div 2] \in Macs
    BY <1>3, <2>1
  <2>3. info[s[(j + 1) \div 2]] \in Infos
    BY <2>2, Zenon DEF RecOK
  <2>4. /\ info[s[(j + 1) \div 2]].ip \in Ips \cup {NoIp}
        /\ info[s[(j + 1) \div 2]].ip_sec \in Ips \cup {NoIp}
    BY <2>3, Zenon DEF Infos
  <2> QED
    BY <2>4, CallRules, Zenon
<1>5. Nats \in SUBSET FwRules
  BY CallRules, Zenon
<1>6. 2 * Len(s) \in Nat
  BY <1>3, <1>2
<1>7. [j \in 1..(2 * Len(s)) |-> Call(j)] \in Seq(SUBSET FwRules)
  <2> HIDE DEF Call
  <2> QED
    BY <1>4, <1>6
<1>8. <<Nats>> \in Seq(SUBSET FwRules)
  <2> HIDE DEF Nats
  <2> QED
    BY <1>5
<1>9. <<Nats>> \o [j \in 1..(2 * Len(s)) |-> Call(j)] \in Seq(SUBSET FwRules)
  <2> HIDE DEF Nats, Call
  <2> QED
    BY <1>7, <1>8
<1> QED
  BY <1>9, Zenon DEF IpCalls

-----------------------------------------------------------------------------
(***************************************************************************)
(* Type correctness, one lemma for each kind of handler.                   *)
(***************************************************************************)

(* A handler counts its faults within the bound.                           *)
LEMMA FaultsType ==
  ASSUME faults \in 0..MaxFault, cuts \in 0..MaxFault, NEW n \in Nat, Faults(n)
  PROVE  faults' \in 0..MaxFault
BY SupervisorAssumption DEF Faults

LEMMA SaveOnlyType ==
  ASSUME TypeOK, NEW m \in Macs, NEW rec \in Infos, SaveOnly(m, rec),
         granted' \in [Macs -> Vlans \cup {NoGrant}], denied' \in SUBSET Macs
  PROVE  TypeOK'
<1>1. PICK ok \in BOOLEAN, f \in 0..1 : Faults(f) /\ save_mac_mapper(m, rec, ok, f)
  BY Zenon DEF SaveOnly
<1>2. UNCHANGED <<bridges, fw, cuts, exclusive, ticketVars, threads, runVars>>
  BY Zenon DEF SaveOnly
<1>3. RecOK'
  BY <1>1, <1>2, TypeParts, SaveType, Zenon DEF runVars
<1>4. faults' \in 0..MaxFault
  BY <1>1, FaultsType DEF TypeOK
<1> QED
  BY <1>2, <1>3, <1>4, Zenon DEF TypeOK, RecOK, ticketVars, runVars

LEMMA RecordCommandsType ==
  ASSUME TypeOK, NEW m \in Macs,
         \/ \E v \in VlanArgs : accept_mac_cmd(m, v)
         \/ deny_mac_cmd(m)
         \/ \E p \in Psks : assign_psk_cmd(m, p)
         \/ clear_psk_cmd(m)
         \/ \E s \in ApEvents : ap_service_callback(m, s)
  PROVE  TypeOK'
<1>1. /\ info[m] \in Infos
      /\ granted \in [Macs -> Vlans \cup {NoGrant}]
      /\ denied \in SUBSET Macs
  BY Zenon DEF TypeOK
<1>2. ASSUME NEW v \in VlanArgs, accept_mac_cmd(m, v) PROVE TypeOK'
  <2>1. [info[m] EXCEPT !.allow = TRUE, !.vlan = v] \in Infos
    BY <1>1, Zenon DEF Infos, Vlans
  <2> QED
    BY <1>1, <1>2, <2>1, SaveOnlyType, Zenon DEF accept_mac_cmd
<1>3. ASSUME deny_mac_cmd(m) PROVE TypeOK'
  <2>1. [info[m] EXCEPT !.allow = FALSE] \in Infos
    BY <1>1, Zenon DEF Infos
  <2> QED
    BY <1>1, <1>3, <2>1, SaveOnlyType, Zenon DEF deny_mac_cmd
<1>4. ASSUME NEW p \in Psks, assign_psk_cmd(m, p) PROVE TypeOK'
  <2>1. info[m].pass \in Buffers
    BY <1>1, Zenon DEF Infos
  <2>2. Written(info[m].pass, p) \in Buffers
    BY <2>1, WrittenType, Zenon DEF Passwords
  <2>3. [info[m] EXCEPT !.pass = Written(@, p)] \in Infos
    BY <1>1, <2>2, Zenon DEF Infos
  <2> QED
    BY <1>1, <1>4, <2>3, SaveOnlyType, Zenon DEF assign_psk_cmd
<1>5. ASSUME clear_psk_cmd(m) PROVE TypeOK'
  <2>1. Empty \in Buffers
    BY DEF Empty, Buffers
  <2>2. [info[m] EXCEPT !.pass = Empty] \in Infos
    BY <1>1, <2>1, Zenon DEF Infos
  <2> QED
    BY <1>1, <1>5, <2>2, SaveOnlyType, Zenon DEF clear_psk_cmd
<1>6. ASSUME NEW s \in ApEvents, ap_service_callback(m, s) PROVE TypeOK'
  <2>1. [info[m] EXCEPT !.status = s] \in Infos
    BY <1>1, Zenon DEF Infos, Statuses
  <2> QED
    BY <1>1, <1>6, <2>1, SaveOnlyType, Zenon DEF ap_service_callback
<1> QED
  BY <1>2, <1>3, <1>4, <1>5, <1>6, Zenon

LEMMA TicketType ==
  ASSUME TypeOK,
         (\E v \in VlanArgs : register_ticket_cmd(v)) \/ eloop_ticket_timeout_handler
  PROVE  TypeOK'
<1>1. ASSUME NEW v \in VlanArgs, register_ticket_cmd(v) PROVE TypeOK'
  <2>1. tickets + 1 \in 1..MaxTicket
    BY <1>1, SupervisorAssumption DEF TypeOK, register_ticket_cmd
  <2>2. TicketOK'
    <3>1. [id |-> tickets + 1, vlan |-> v] \in [id : 1..MaxTicket, vlan : VlanArgs]
      BY <2>1, Zenon
    <3>2. Append(timers, tickets + 1) \in Seq(1..MaxTicket)
      BY <2>1 DEF TypeOK
    <3>3. tickets' \in 0..MaxTicket
      BY <1>1, <2>1, SupervisorAssumption DEF register_ticket_cmd
    <3> QED
      BY <1>1, <3>1, <3>2, <3>3, Zenon DEF TypeOK, TicketOK, register_ticket_cmd
  <2>3. RecOK'
    BY <1>1, TypeParts, RecUnchanged, Zenon DEF register_ticket_cmd, runVars
  <2>4. faults' \in 0..MaxFault
    BY <1>1, FaultsType, Zenon DEF register_ticket_cmd, TypeOK
  <2>5. NetOK' /\ RunOK'
    BY <1>1, <2>4, Zenon DEF TypeOK, NetOK, RunOK, register_ticket_cmd, authVars, runVars
  <2> QED
    BY <2>2, <2>3, <2>5, TypeParts, Zenon DEF TypeOK, RecOK, TicketOK, NetOK, RunOK
<1>2. ASSUME eloop_ticket_timeout_handler PROVE TypeOK'
  <2>1. TicketOK'
    <3>1. timers \in Seq(1..MaxTicket) /\ timers # <<>>
      BY <1>2, Zenon DEF TypeOK, eloop_ticket_timeout_handler
    <3>2. Tail(timers) \in Seq(1..MaxTicket)
      BY <3>1
    <3> QED
      BY <1>2, <3>2, Zenon DEF TypeOK, TicketOK, eloop_ticket_timeout_handler
  <2>2. RecOK'
    BY <1>2, TypeParts, RecUnchanged, Zenon DEF eloop_ticket_timeout_handler, runVars
  <2>3. NetOK' /\ RunOK'
    BY <1>2, Zenon DEF TypeOK, NetOK, RunOK, eloop_ticket_timeout_handler, netVars, authVars, runVars
  <2> QED
    BY <2>1, <2>2, <2>3, Zenon DEF TypeOK, RecOK, TicketOK, NetOK, RunOK
<1> QED
  BY <1>1, <1>2, Zenon

(* The record of a RADIUS request is a record.                             *)
LEMMA ConnType ==
  ASSUME TypeOK, NEW m \in Macs, NEW rec \in ConnRecords(m)
  PROVE  rec \in Infos
<1>1. info[m] \in Infos /\ info[m].pass \in Buffers
  BY Zenon DEF TypeOK, Infos
<1>2. \A v \in Vlans, p \in Passwords :
        [info[m] EXCEPT !.allow = TRUE, !.vlan = v, !.pass = Written(@, p)] \in Infos
  BY <1>1, WrittenType, Zenon DEF Infos
<1>3. AllocVlan[m] \in Vlans /\ Wpa \in Passwords /\ Junk \in Passwords /\ VlanArgs \subseteq Vlans
  BY SupervisorAssumption, Zenon DEF Vlans, Passwords
<1>4. TicketRecords(m) \subseteq Infos
  <2> NoTicket # Dangling
    BY DEF NoTicket, Dangling
  <2>1. CASE ticket = NoTicket
    <3>1. TicketRecords(m) = {[info[m] EXCEPT !.allow = TRUE, !.vlan = AllocVlan[m],
                                              !.pass = Written(@, Wpa)]}
      BY <2>1, Zenon DEF TicketRecords
    <3> QED
      BY <3>1, <1>2, <1>3, Zenon
  <2>2. CASE ticket = Dangling
    <3>1. TicketRecords(m) = {[info[m] EXCEPT !.allow = TRUE, !.vlan = v,
                                              !.pass = Written(@, Junk)] : v \in VlanArgs}
      BY <2>2, Zenon DEF TicketRecords
    <3>2. \A v \in VlanArgs : [info[m] EXCEPT !.allow = TRUE, !.vlan = v,
                                              !.pass = Written(@, Junk)] \in Infos
      BY <1>2, <1>3, Zenon
    <3> QED
      BY <3>1, <3>2, Zenon
  <2>3. CASE ticket \notin {NoTicket, Dangling}
    <3>1. ticket \in [id : 1..MaxTicket, vlan : VlanArgs]
      BY <2>3, Zenon DEF TypeOK
    <3>2. ticket.vlan \in Vlans /\ TicketPass(ticket.id) \in Passwords
      BY <3>1, <1>3, Zenon DEF Passwords
    <3>3. TicketRecords(m) = {[info[m] EXCEPT !.allow = TRUE, !.vlan = ticket.vlan,
                                              !.pass = Written(@, TicketPass(ticket.id))]}
      BY <2>3, Zenon DEF TicketRecords
    <3>4. [info[m] EXCEPT !.allow = TRUE, !.vlan = ticket.vlan,
                          !.pass = Written(@, TicketPass(ticket.id))] \in Infos
      BY <3>2, <1>2, Zenon
    <3> QED
      BY <3>3, <3>4, Zenon
  <2> QED
    BY <2>1, <2>2, <2>3, Zenon
<1>5. [info[m] EXCEPT !.vlan = IF m \in mapped THEN @ ELSE AllocVlan[m],
                      !.pass = Written(@, Wpa)] \in Infos
  BY <1>1, <1>3, WrittenType, Zenon DEF Infos
<1> QED
  BY <1>1, <1>4, <1>5, Zenon DEF ConnRecords

(* save_device_vlan changes the records as save_mac_mapper does, or not.   *)
LEMMA SaveDeviceType ==
  ASSUME TypeOK, NEW m \in Macs, NEW rec \in Infos, NEW ok \in BOOLEAN, NEW f \in 0..1,
         save_device_vlan(m, rec, ok, f), UNCHANGED conf
  PROVE  RecOK' /\ threads' \in [ConfVlans -> Nat]
<1>1. schedule_analyser(rec.vlan) \in [ConfVlans -> Nat]
  BY Zenon DEF schedule_analyser, TypeOK
<1>2. threads' \in [ConfVlans -> Nat]
  BY <1>1, Zenon DEF TypeOK, save_device_vlan
<1>3. save_mac_mapper(m, rec, ok, f) \/ UNCHANGED <<recVars, dbVars>>
  BY Zenon DEF save_device_vlan
<1> QED
  BY <1>2, <1>3, TypeParts, SaveType, RecUnchanged, Zenon

LEMMA ConnCommandType ==
  ASSUME TypeOK, NEW m \in Macs, get_mac_conn_cmd(m)
  PROVE  TypeOK'
<1>1. UNCHANGED <<bridges, fw, cuts, exclusive, tickets, timers, denied, runVars>>
  BY Zenon DEF get_mac_conn_cmd
<1>2. UNCHANGED conf
  BY <1>1, Zenon DEF runVars
<1>3. CASE Refused(m)
  <2>1. /\ UNCHANGED <<ticket, threads, recVars, dbVars, faults>>
        /\ granted' = [granted EXCEPT ![m] = NoGrant]
    BY <1>3, Zenon DEF get_mac_conn_cmd
  <2>2. RecOK'
    BY <2>1, <1>2, TypeParts, RecUnchanged, Zenon
  <2> QED
    BY <1>1, <2>1, <2>2, Zenon DEF TypeOK, RecOK, runVars
<1>4. CASE ~Refused(m)
  <2>1. PICK rec \in ConnRecords(m), ok \in BOOLEAN, f \in 0..1 :
          /\ Faults(f)
          /\ save_device_vlan(m, rec, ok, f)
          /\ granted' = [granted EXCEPT ![m] = IF ok THEN rec.vlan ELSE NoGrant]
    BY <1>4, Zenon DEF get_mac_conn_cmd
  <2>2. rec \in Infos /\ rec.vlan \in Vlans
    BY ConnType, Zenon DEF Infos
  <2>3. RecOK' /\ threads' \in [ConfVlans -> Nat]
    BY <1>2, <2>1, <2>2, SaveDeviceType, Zenon
  <2>4. faults' \in 0..MaxFault
    BY <2>1, FaultsType, SMTT(60) DEF TypeOK
  <2>5. granted' \in [Macs -> Vlans \cup {NoGrant}]
    BY <2>1, <2>2, Zenon DEF TypeOK
  <2>6. ticket' \in {NoTicket, ticket}
    BY <1>4, Zenon DEF get_mac_conn_cmd
  <2> QED
    BY <1>1, <2>3, <2>4, <2>5, <2>6, Zenon DEF TypeOK, RecOK, runVars
<1> QED
  BY <1>3, <1>4, Zenon

LEMMA NatType ==
  ASSUME TypeOK, NEW m \in Macs, NEW add \in BOOLEAN, nat_cmd(m, add)
  PROVE  TypeOK'
<1>1. PICK ok \in BOOLEAN, saved \in BOOLEAN, f \in 0..1, g \in 0..1 :
        /\ Faults(f + g)
        /\ FwCalls(add, NatCalls(m), ok, f)
        /\ IF ok THEN save_mac_mapper(m, [info[m] EXCEPT !.nat = add], saved, g)
                 ELSE ~saved /\ g = 0 /\ UNCHANGED <<recVars, dbVars>>
  BY Zenon DEF nat_cmd
<1>2. UNCHANGED <<bridges, exclusive, ticketVars, authVars, runVars>>
  BY Zenon DEF nat_cmd
<1>3. [info[m] EXCEPT !.nat = add] \in Infos
  <2> info[m] \in Infos
    BY Zenon DEF TypeOK
  <2> QED
    BY Zenon DEF Infos
<1>4. RecOK'
  BY <1>1, <1>2, <1>3, TypeParts, SaveType, RecUnchanged, Zenon DEF runVars
<1>5. fw' \in [FwRules -> Nat]
  <2>1. NatCalls(m) \in Seq(SUBSET FwRules)
    BY TypeParts, CallSeqs, Zenon
  <2>2. fw \in [FwRules -> Nat]
    BY Zenon DEF TypeOK
  <2> QED
    BY <1>1, <2>1, <2>2, FwCallsType, Zenon
<1>6. faults' \in 0..MaxFault
  <2> f + g \in Nat
    OBVIOUS
  <2> QED
    BY <1>1, FaultsType, Zenon DEF TypeOK
<1>7. cuts' \in 0..MaxFault
  BY <1>1, <1>6, FwCallsCuts, CutsType, Zenon DEF TypeOK
<1> QED
  BY <1>2, <1>4, <1>5, <1>6, <1>7, Zenon DEF TypeOK, RecOK, ticketVars, authVars, runVars

LEMMA BridgeType ==
  ASSUME TypeOK, NEW l \in Macs, NEW r \in Macs,
         add_bridge_mac_cmd(l, r) \/ remove_bridge_cmd(l, r)
  PROVE  TypeOK'
<1>1. UNCHANGED <<exclusive, recVars, dbVars, ticketVars, authVars, runVars>>
  BY Zenon DEF add_bridge_mac_cmd, remove_bridge_cmd
<1>2. PICK add \in BOOLEAN, ok \in BOOLEAN, f \in 0..1 :
        Faults(f) /\ FwCalls(add, BridgeCalls(l, r), ok, f)
  BY Zenon DEF add_bridge_mac_cmd, remove_bridge_cmd
<1>3. bridges' \in SUBSET (Macs \X Macs)
  <2>1. Edges(l, r) \subseteq Macs \X Macs
    BY DEF Edges
  <2>2. bridges \subseteq Macs \X Macs
    BY Zenon DEF TypeOK
  <2>3. bridges' = bridges \cup Edges(l, r) \/ bridges' = bridges \ Edges(l, r)
    BY Zenon DEF add_bridge_mac_cmd, remove_bridge_cmd
  <2> QED
    BY <2>1, <2>2, <2>3, Zenon
<1>4. RecOK'
  BY <1>1, TypeParts, RecUnchanged, Zenon DEF runVars
<1>5. fw' \in [FwRules -> Nat]
  <2>1. BridgeCalls(l, r) \in Seq(SUBSET FwRules)
    BY TypeParts, CallSeqs, Zenon
  <2>2. fw \in [FwRules -> Nat]
    BY Zenon DEF TypeOK
  <2> QED
    BY <1>2, <2>1, <2>2, FwCallsType, Zenon
<1>6. faults' \in 0..MaxFault
  BY <1>2, FaultsType DEF TypeOK
<1>7. cuts' \in 0..MaxFault
  BY <1>2, <1>6, FwCallsCuts, CutsType, Zenon DEF TypeOK
<1> QED
  BY <1>1, <1>3, <1>4, <1>5, <1>6, <1>7, Zenon DEF TypeOK, RecOK, ticketVars, authVars, runVars

(* ADD_BRIDGE by IP of a bridge that is listed changes nothing.            *)
LEMMA ExistsType ==
  ASSUME TypeOK, NEW l, NEW r, bridge_exists(l, r)
  PROVE  TypeOK'
<1>1. UNCHANGED <<bridges, fw, cuts, exclusive, recVars, dbVars, ticketVars, authVars, runVars>>
  BY Zenon DEF bridge_exists
<1>2. RecOK'
  BY <1>1, TypeParts, RecUnchanged, Zenon DEF runVars
<1>3. faults' \in 0..MaxFault
  BY FaultsType, Zenon DEF TypeOK, bridge_exists
<1> QED
  BY <1>1, <1>2, <1>3, Zenon DEF TypeOK, RecOK, ticketVars, authVars, runVars

LEMMA ClearType ==
  ASSUME TypeOK, NEW m \in Macs, clear_bridges_cmd(m)
  PROVE  TypeOK'
<1>1. UNCHANGED <<exclusive, recVars, dbVars, ticketVars, authVars, runVars>>
  BY Zenon DEF clear_bridges_cmd
<1>2. bridges' \in SUBSET (Macs \X Macs)
  BY Zenon DEF TypeOK, clear_bridges_cmd
<1>3. RecOK'
  BY <1>1, TypeParts, RecUnchanged, Zenon DEF runVars
<1>4. \A J \in SUBSET (mapped \X (1..4)) : IsFiniteSet(J)
  <2>1. IsFiniteSet(mapped)
    BY SupervisorAssumption, FS_Subset, Zenon DEF TypeOK
  <2>2. IsFiniteSet(1..4)
    <3> 1 \in Int /\ 4 \in Int
      OBVIOUS
    <3> QED
      BY FS_Interval, Zenon
  <2>3. IsFiniteSet(mapped \X (1..4))
    BY <2>1, <2>2, FS_Product, Zenon
  <2> QED
    BY <2>3, FS_Subset, Zenon
<1>5. fw \in [FwRules -> Nat]
  BY Zenon DEF TypeOK
<1>6. fw' \in [FwRules -> Nat]
  <2>1. CASE fw' = Apply(FALSE, fw, ClearCalls(m), mapped \X (1..4))
    BY <1>4, <1>5, <2>1, ApplyType, Zenon
  <2>2. ASSUME NEW el \in mapped, NEW k \in 1..4, NEW ok \in BOOLEAN, NEW first,
               NEW mid \in Outcomes(FALSE, BridgeCalls(m, el)[k],
                             Apply(FALSE, fw, ClearCalls(m), CallsBefore(first, el, k)), ok),
               fw' = Apply(FALSE, mid, ClearCalls(m), CallsAfter(first, el, k, ok))
        PROVE  fw' \in [FwRules -> Nat]
    <3>1. IsFiniteSet(CallsBefore(first, el, k)) /\ IsFiniteSet(CallsAfter(first, el, k, ok))
      BY <1>4, Zenon DEF CallsBefore, CallsAfter
    <3>2. Apply(FALSE, fw, ClearCalls(m), CallsBefore(first, el, k)) \in [FwRules -> Nat]
      BY <1>5, <3>1, ApplyType, Zenon
    <3>3. mid \in [FwRules -> Nat]
      BY <3>2, OutcomeType, Zenon
    <3> QED
      BY <2>2, <3>1, <3>3, ApplyType, Zenon
  <2>3. CASE fw' \in SomeMissed(FALSE, ClearCalls(m), mapped \X (1..4))
    BY <1>4, <1>5, <2>3, MissedType, Zenon
  <2> QED
    BY <2>1, <2>2, <2>3, Zenon DEF clear_bridges_cmd
<1>7. faults' \in 0..MaxFault
  BY FaultsType, Zenon DEF TypeOK, clear_bridges_cmd
<1>8. cuts' \in 0..MaxFault
  BY <1>7, CutsType, Zenon DEF TypeOK, clear_bridges_cmd
<1> QED
  BY <1>1, <1>2, <1>3, <1>6, <1>7, <1>8, Zenon DEF TypeOK, RecOK, ticketVars, authVars, runVars

LEMMA SetIpType ==
  ASSUME TypeOK, NEW m \in Macs, NEW ip \in Ips, NEW add \in BOOLEAN, NEW rec \in Infos,
         set_ip(m, ip, add, rec)
  PROVE  TypeOK'
<1>1. UNCHANGED <<bridges, ticketVars, authVars, runVars>>
  BY Zenon DEF set_ip
<1>2. exclusive' \in BOOLEAN
  BY Zenon DEF set_ip
<1>3. PICK s \in Orders(get_src_mac_list(m)), saved \in BOOLEAN, ok \in BOOLEAN,
           f \in 0..1, g \in 0..1, h \in 0..1 :
        /\ Faults(f + g + h)
        /\ save_mac_mapper(m, rec, saved, f)
        /\ IF saved /\ g = 0
             THEN FwCalls(add, IpCalls(rec, m, ip, s), ok, h)
             ELSE ~ok /\ h = 0 /\ UNCHANGED <<fw, cuts>>
  BY DEF set_ip
<1>4. RecOK'
  BY <1>1, <1>3, TypeParts, SaveType, Zenon DEF runVars
<1>5. fw' \in [FwRules -> Nat]
  <2>1. get_src_mac_list(m) \in SUBSET Macs
    BY Zenon DEF get_src_mac_list
  <2>2. IpCalls(rec, m, ip, s) \in Seq(SUBSET FwRules)
    BY <2>1, TypeParts, IpCallSeq, Zenon
  <2>3. fw \in [FwRules -> Nat]
    BY Zenon DEF TypeOK
  <2> QED
    BY <1>3, <2>2, <2>3, FwCallsType, Zenon
<1>6. faults' \in 0..MaxFault
  <2> f + g + h \in Nat
    OBVIOUS
  <2> QED
    BY <1>3, FaultsType, Zenon DEF TypeOK
<1>7. cuts' \in 0..MaxFault
  BY <1>3, <1>6, FwCallsCuts, CutsType, Zenon DEF TypeOK
<1> QED
  BY <1>1, <1>2, <1>4, <1>5, <1>6, <1>7, Zenon DEF TypeOK, RecOK, ticketVars, authVars, runVars

(* A restart begins with the rows, or without any record.                  *)
LEMMA RestartType ==
  ASSUME TypeOK, run_ctl
  PROVE  TypeOK'
<1>1. /\ UNCHANGED <<conf, tickets, store, cuts>>
      /\ stored' \subseteq stored
      /\ mapped' \in {stored', {}}
      /\ info' = create_mac_mapper(mapped')
  BY Zenon DEF run_ctl
<1>2. init_default_mac_info' = init_default_mac_info /\ init_default_mac_info \in Infos
  BY <1>1, DefaultType, Zenon DEF init_default_mac_info, allow_all_nat, TypeOK
<1>3. \A m \in Macs : get_sqlite_macconn_entry(store[m]) \in Infos
  BY EntryType, Zenon DEF TypeOK
<1>4. info' \in [Macs -> Infos] /\ \A m \in Macs \ mapped' : info'[m] = init_default_mac_info
  BY <1>1, <1>2, <1>3, Zenon DEF create_mac_mapper
<1>5. RecOK'
  BY <1>1, <1>2, <1>4, Zenon DEF RecOK, TypeOK
<1>6. TicketOK'
  BY <1>1, SMTT(60) DEF TicketOK, TypeOK, run_ctl
<1>7. NetOK'
  BY <1>1, Zenon DEF NetOK, TypeOK, run_ctl, NoRules
<1>8. faults' \in 0..MaxFault
  BY FaultsType, Zenon DEF TypeOK, run_ctl
<1>9. RunOK'
  <2>1. running' \in BOOLEAN
    BY Zenon DEF run_ctl
  <2>2. denied' \in SUBSET Macs
    BY Zenon DEF run_ctl, TypeOK
  <2> QED
    BY <1>1, <1>8, <2>1, <2>2, Zenon DEF RunOK, TypeOK, run_ctl
<1> QED
  BY <1>5, <1>6, <1>7, <1>9, Zenon DEF TypeOK, RecOK, TicketOK, NetOK, RunOK

LEMMA InitType == Init => TypeOK
<1> SUFFICES ASSUME Init PROVE TypeOK
  BY Zenon
<1>1. conf \in Confs /\ init_default_mac_info \in Infos
  BY DefaultType, Zenon DEF Init
<1>2. Row(init_default_mac_info) \in StoredRows
  BY <1>1, RowType, Zenon
<1>3. RecOK
  BY <1>1, <1>2, Zenon DEF RecOK, Init
<1>4. TicketOK
  BY SupervisorAssumption DEF TicketOK, Init
<1>5. NetOK
  <2>1. 0 \in 0..MaxFault
    BY SupervisorAssumption
  <2> QED
    BY <2>1, Zenon DEF NetOK, Init, NoRules
<1>6. RunOK
  BY SupervisorAssumption DEF RunOK, Init
<1> QED
  BY <1>3, <1>4, <1>5, <1>6, TypeParts, Zenon

LEMMA StutterType ==
  ASSUME TypeOK, UNCHANGED vars
  PROVE  TypeOK'
<1>1. RecOK'
  BY TypeParts, RecUnchanged, Zenon DEF vars, runVars
<1> QED
  BY <1>1, Zenon DEF TypeOK, RecOK, vars, netVars, ticketVars, authVars, runVars

(***************************************************************************)
(* The handlers keep the types.                                            *)
(***************************************************************************)
LEMMA NextType ==
  ASSUME TypeOK, [Next]_vars
  PROVE  TypeOK'
<1>1. ASSUME AccessNext PROVE TypeOK'
  BY <1>1, RecordCommandsType, TicketType, ConnCommandType, RestartType, Zenon DEF AccessNext
<1>2. ASSUME NetworkNext PROVE TypeOK'
  <2>1. ASSUME NEW m \in Macs, add_nat_cmd(m) \/ remove_nat_cmd(m) PROVE TypeOK'
    BY <2>1, NatType, Zenon DEF add_nat_cmd, remove_nat_cmd
  <2>2. ASSUME NEW i \in Ips, NEW j \in Ips, add_bridge_ip_cmd(i, j) PROVE TypeOK'
    BY <2>2, BridgeType, ExistsType, Zenon DEF add_bridge_ip_cmd, get_ip_mapper, TypeOK
  <2>3. ASSUME NEW m \in Macs, NEW i \in Ips, set_ip_add(m, i) PROVE TypeOK'
    <3>1. info[m] \in Infos
      BY Zenon DEF TypeOK
    <3>2. /\ [info[m] EXCEPT !.ip = i] \in Infos
          /\ [info[m] EXCEPT !.ip_sec = i] \in Infos
      BY <3>1, Zenon DEF Infos
    <3> QED
      BY <2>3, <3>2, SetIpType, Zenon DEF set_ip_add
  <2>4. ASSUME NEW m \in Macs, NEW i \in Ips, set_ip_del(m, i) PROVE TypeOK'
    <3>1. info[m] \in Infos
      BY Zenon DEF TypeOK
    <3>2. [info[m] EXCEPT !.ip = IF @ = i THEN NoIp ELSE @,
                          !.ip_sec = IF @ = i THEN NoIp ELSE @] \in Infos
      BY <3>1, Zenon DEF Infos
    <3> QED
      BY <2>4, <3>2, SetIpType, Zenon DEF set_ip_del
  <2> QED
    BY <1>2, <2>1, <2>2, <2>3, <2>4, BridgeType, ClearType, RestartType, Zenon DEF NetworkNext
<1> QED
  BY <1>1, <1>2, StutterType, Zenon DEF Next

(* Type correctness: whatever commands, requests, events, timeouts, faults *)
(* and restarts come, in whatever order, each record, row, count and       *)
(* history has its type, and a MAC that is not in the mapper has the       *)
(* default record.                                                         *)
THEOREM TypeCorrect == Spec => []TypeOK
<1>1. Init => TypeOK
  BY InitType, Zenon
<1>2. TypeOK /\ [Next]_vars => TypeOK'
  BY NextType, Zenon
<1> QED
  BY <1>1, <1>2, PTL DEF Spec

-----------------------------------------------------------------------------
(***************************************************************************)
(* Denied devices.  DeniedStaysOut is about answers; what makes the next   *)
(* answer right is the record, and what makes the record right after a     *)
(* restart is the row.                                                     *)
(***************************************************************************)
Out(m) ==
  /\ m \in mapped
  /\ ~info[m].allow
  /\ faults = 0 => m \in stored /\ ~store[m].allow

DenyInv ==
  /\ DeniedStaysOut
  /\ running => \A m \in denied : Out(m)

(* A save keeps every denied device out if the record it saves does.       *)
LEMMA SaveOut ==
  ASSUME TypeOK, NEW m \in Macs, NEW rec \in Infos, NEW ok, NEW f \in 0..1,
         save_mac_mapper(m, rec, ok, f),
         NEW n \in Nat, n >= f, Faults(n),
         NEW d \in Macs, IF d = m THEN ~rec.allow ELSE Out(d)
  PROVE  Out(d)'
<1>1. faults' = 0 => f = 0 /\ faults = 0
  BY DEF Faults, TypeOK
<1>2. d \in mapped'
  BY Zenon DEF save_mac_mapper, Out
<1>3. ~info'[d].allow
  BY Zenon DEF save_mac_mapper, Out, TypeOK
<1>4. faults' = 0 => d \in stored' /\ ~store'[d].allow
  <2> SUFFICES ASSUME faults' = 0 PROVE d \in stored' /\ ~store'[d].allow
    BY Zenon
  <2>1. stored' = stored \cup {m} /\ store' = [store EXCEPT ![m] = Row(rec)]
    BY <1>1 DEF save_mac_mapper, save_sqlite_macconn_entry
  <2>2. Row(rec).allow = rec.allow
    BY Zenon DEF Row
  <2> QED
    BY <1>1, <2>1, <2>2, Zenon DEF Out, TypeOK
<1> QED
  BY <1>2, <1>3, <1>4, Zenon DEF Out

(* A handler that leaves the records alone keeps every denied device out.  *)
LEMMA UnchangedOut ==
  ASSUME UNCHANGED <<recVars, dbVars>>, faults' = 0 => faults = 0, NEW d \in Macs, Out(d)
  PROVE  Out(d)'
BY Zenon DEF Out, recVars, dbVars

LEMMA FaultsGrow ==
  ASSUME TypeOK, NEW n \in Nat, Faults(n)
  PROVE  faults' = 0 => faults = 0
BY DEF Faults, TypeOK

(* A handler that changes neither the answers nor who is denied keeps the  *)
(* invariant if it keeps every denied device out.                          *)
LEMMA DenyKept ==
  ASSUME DenyInv, UNCHANGED <<denied, granted>>, \A d \in denied : Out(d)'
  PROVE  DenyInv'
BY Zenon DEF DenyInv, DeniedStaysOut

LEMMA SaveOnlyDeny ==
  ASSUME TypeOK, DenyInv, NEW m \in Macs, NEW rec \in Infos, SaveOnly(m, rec),
         rec.allow = info[m].allow, UNCHANGED <<denied, granted>>
  PROVE  DenyInv'
<1>1. PICK ok \in BOOLEAN, f \in 0..1 : Faults(f) /\ save_mac_mapper(m, rec, ok, f)
  BY Zenon DEF SaveOnly
<1>2. \A d \in denied : d \in Macs /\ Out(d)
  BY Zenon DEF SaveOnly, DenyInv, TypeOK
<1>3. \A d \in denied : Out(d)'
  <2> TAKE d \in denied
  <2>1. IF d = m THEN ~rec.allow ELSE Out(d)
    BY <1>2, Zenon DEF Out
  <2>2. f \in Nat /\ f >= f
    OBVIOUS
  <2> QED
    BY <1>1, <1>2, <2>1, <2>2, SaveOut, Zenon
<1> QED
  BY <1>3, DenyKept, Zenon

LEMMA AcceptDeny ==
  ASSUME TypeOK, DenyInv, NEW m \in Macs, NEW v \in VlanArgs, accept_mac_cmd(m, v)
  PROVE  DenyInv'
<1> DEFINE rec == [info[m] EXCEPT !.allow = TRUE, !.vlan = v]
<1>1. rec \in Infos
  <2> info[m] \in Infos
    BY Zenon DEF TypeOK
  <2> QED
    BY Zenon DEF Infos, Vlans
<1>2. PICK ok \in BOOLEAN, f \in 0..1 : Faults(f) /\ save_mac_mapper(m, rec, ok, f)
  BY Zenon DEF accept_mac_cmd, SaveOnly
<1>3. \A d \in denied \ {m} : d \in Macs /\ Out(d)
  BY Zenon DEF accept_mac_cmd, SaveOnly, DenyInv, TypeOK
<1>4. \A d \in denied \ {m} : Out(d)'
  <2> HIDE DEF rec
  <2> TAKE d \in denied \ {m}
  <2>1. (IF d = m THEN ~rec.allow ELSE Out(d)) /\ f \in Nat /\ f >= f
    BY <1>3
  <2> QED
    BY <1>1, <1>2, <1>3, <2>1, SaveOut, Zenon
<1>5. DeniedStaysOut'
  BY Zenon DEF accept_mac_cmd, DenyInv, DeniedStaysOut, TypeOK
<1> QED
  BY <1>4, <1>5, Zenon DEF DenyInv, accept_mac_cmd

LEMMA DenyDeny ==
  ASSUME TypeOK, DenyInv, NEW m \in Macs, deny_mac_cmd(m)
  PROVE  DenyInv'
<1> DEFINE rec == [info[m] EXCEPT !.allow = FALSE]
<1>1. rec \in Infos /\ ~rec.allow
  <2>1. info[m] \in Infos
    BY Zenon DEF TypeOK
  <2> QED
    BY <2>1, Zenon DEF Infos
<1>2. PICK ok \in BOOLEAN, f \in 0..1 : Faults(f) /\ save_mac_mapper(m, rec, ok, f)
  BY Zenon DEF deny_mac_cmd, SaveOnly
<1>3. \A d \in denied : d \in Macs /\ Out(d)
  BY Zenon DEF deny_mac_cmd, SaveOnly, DenyInv, TypeOK
<1>4. \A d \in denied \cup {m} : Out(d)'
  <2> HIDE DEF rec
  <2> TAKE d \in denied \cup {m}
  <2>1. (IF d = m THEN ~rec.allow ELSE Out(d)) /\ f \in Nat /\ f >= f /\ d \in Macs
    BY <1>1, <1>3
  <2> QED
    BY <1>1, <1>2, <2>1, SaveOut, Zenon
<1>5. DeniedStaysOut'
  BY Zenon DEF deny_mac_cmd, DenyInv, DeniedStaysOut, TypeOK
<1> QED
  BY <1>4, <1>5, Zenon DEF DenyInv, deny_mac_cmd

(* A request of a denied device is rejected; a request of another device   *)
(* does not change the record of a denied one.                             *)
LEMMA ConnDeny ==
  ASSUME TypeOK, DenyInv, NEW m \in Macs, get_mac_conn_cmd(m)
  PROVE  DenyInv'
<1>1. denied' = denied /\ running
  BY Zenon DEF get_mac_conn_cmd
<1>2. \A d \in denied : d \in Macs /\ Out(d)
  BY <1>1, Zenon DEF DenyInv, TypeOK
<1>3. CASE Refused(m)
  <2>1. /\ UNCHANGED <<recVars, dbVars, faults>>
        /\ granted' = [granted EXCEPT ![m] = NoGrant]
    BY <1>3, Zenon DEF get_mac_conn_cmd
  <2>2. \A d \in denied : Out(d)'
    BY <1>2, <2>1, Zenon DEF Out, recVars, dbVars
  <2>3. DeniedStaysOut'
    BY <1>1, <2>1, Zenon DEF DenyInv, DeniedStaysOut, TypeOK
  <2> QED
    BY <1>1, <2>2, <2>3, Zenon DEF DenyInv
<1>4. CASE ~Refused(m)
  <2>1. m \notin denied
    BY <1>2, <1>4, Zenon DEF Refused, Out
  <2>2. PICK rec \in ConnRecords(m), ok \in BOOLEAN, f \in 0..1 :
          /\ Faults(f)
          /\ save_device_vlan(m, rec, ok, f)
          /\ granted' = [granted EXCEPT ![m] = IF ok THEN rec.vlan ELSE NoGrant]
    BY <1>4, Zenon DEF get_mac_conn_cmd
  <2>3. rec \in Infos /\ f \in Nat /\ f >= f
    BY ConnType
  <2>4. save_mac_mapper(m, rec, ok, f) \/ UNCHANGED <<recVars, dbVars>>
    BY <2>2, Zenon DEF save_device_vlan
  <2>5. \A d \in denied : Out(d)'
    <3> TAKE d \in denied
    <3>1. (IF d = m THEN ~rec.allow ELSE Out(d)) /\ d \in Macs /\ Out(d)
      BY <1>2, <2>1, Zenon
    <3> QED
      BY <2>2, <2>3, <2>4, <3>1, SaveOut, FaultsGrow, UnchangedOut, Zenon
  <2>6. DeniedStaysOut'
    BY <1>1, <2>1, <2>2, Zenon DEF DenyInv, DeniedStaysOut, TypeOK
  <2> QED
    BY <1>1, <2>5, <2>6, Zenon DEF DenyInv
<1> QED
  BY <1>3, <1>4, Zenon

LEMMA NatDeny ==
  ASSUME TypeOK, DenyInv, NEW m \in Macs, NEW add \in BOOLEAN, nat_cmd(m, add)
  PROVE  DenyInv'
<1> DEFINE rec == [info[m] EXCEPT !.nat = add]
<1>1. rec \in Infos /\ rec.allow = info[m].allow
  <2> info[m] \in Infos
    BY Zenon DEF TypeOK
  <2> QED
    BY Zenon DEF Infos
<1>2. PICK saved \in BOOLEAN, f \in 0..1, g \in 0..1 :
        /\ Faults(f + g)
        /\ save_mac_mapper(m, rec, saved, g) \/ UNCHANGED <<recVars, dbVars>>
  BY Zenon DEF nat_cmd
<1>3. \A d \in denied : d \in Macs /\ Out(d)
  BY Zenon DEF nat_cmd, DenyInv, TypeOK
<1>4. \A d \in denied : Out(d)'
  <2> HIDE DEF rec
  <2> TAKE d \in denied
  <2>1. IF d = m THEN ~rec.allow ELSE Out(d)
    BY <1>1, <1>3, Zenon DEF Out
  <2>2. f + g \in Nat /\ f + g >= g
    OBVIOUS
  <2> QED
    BY <1>1, <1>2, <1>3, <2>1, <2>2, SaveOut, FaultsGrow, UnchangedOut, Zenon
<1> QED
  BY <1>4, DenyKept, Zenon DEF nat_cmd, authVars

LEMMA BridgeDeny ==
  ASSUME TypeOK, DenyInv, UNCHANGED <<recVars, dbVars, authVars>>, running,
         faults' = 0 => faults = 0
  PROVE  DenyInv'
<1>1. \A d \in denied : d \in Macs /\ Out(d)
  BY Zenon DEF DenyInv, TypeOK
<1>2. \A d \in denied : Out(d)'
  BY <1>1, UnchangedOut, Zenon
<1> QED
  BY <1>2, DenyKept, Zenon DEF authVars

LEMMA SetIpDeny ==
  ASSUME TypeOK, DenyInv, NEW m \in Macs, NEW ip, NEW add, NEW rec \in Infos,
         rec.allow = info[m].allow, set_ip(m, ip, add, rec)
  PROVE  DenyInv'
<1>1. PICK saved \in BOOLEAN, f \in 0..1, g \in 0..1, h \in 0..1 :
        Faults(f + g + h) /\ save_mac_mapper(m, rec, saved, f)
  BY Zenon DEF set_ip
<1>2. \A d \in denied : d \in Macs /\ Out(d)
  BY Zenon DEF set_ip, DenyInv, TypeOK
<1>3. \A d \in denied : Out(d)'
  <2> TAKE d \in denied
  <2>1. IF d = m THEN ~rec.allow ELSE Out(d)
    BY <1>2, Zenon DEF Out
  <2>2. f + g + h \in Nat /\ f + g + h >= f
    OBVIOUS
  <2> QED
    BY <1>1, <1>2, <2>1, <2>2, SaveOut, Zenon
<1> QED
  BY <1>3, DenyKept, Zenon DEF set_ip, authVars

(* Without a fault a restart finds the row of every denied device.         *)
LEMMA RestartDeny ==
  ASSUME TypeOK, DenyInv, run_ctl
  PROVE  DenyInv'
<1>1. DeniedStaysOut'
  BY Zenon DEF run_ctl, DeniedStaysOut, TypeOK
<1>2. ASSUME running', NEW d \in denied' PROVE Out(d)'
  <2>1. faults' = 0 /\ faults = 0 /\ stored' = stored /\ d \in denied
    BY <1>2, SMTT(60) DEF run_ctl, Faults, TypeOK
  <2>2. d \in Macs /\ d \in stored /\ ~store[d].allow
    BY <2>1, Zenon DEF DenyInv, Out, TypeOK, run_ctl
  <2>3. mapped' = stored' /\ info' = create_mac_mapper(mapped') /\ store' = store
    BY <1>2, Zenon DEF run_ctl
  <2>4. info'[d] = get_sqlite_macconn_entry(store[d])
    BY <2>1, <2>2, <2>3, Zenon DEF create_mac_mapper
  <2>5. ~info'[d].allow
    BY <2>2, <2>4, SMTT(60) DEF get_sqlite_macconn_entry
  <2> QED
    BY <2>1, <2>2, <2>3, <2>5, Zenon DEF Out
<1> QED
  BY <1>1, <1>2, Zenon DEF DenyInv

LEMMA DenyNext ==
  ASSUME TypeOK, DenyInv, [Next]_vars
  PROVE  DenyInv'
<1>0. \A m \in Macs : info[m] \in Infos /\ info[m].pass \in Buffers
  BY Zenon DEF TypeOK, Infos
<1>1. ASSUME NEW m \in Macs, NEW p \in Psks, assign_psk_cmd(m, p) PROVE DenyInv'
  <2>1. Written(info[m].pass, p) \in Buffers
    BY <1>0, WrittenType, Zenon DEF Passwords
  <2>2. /\ [info[m] EXCEPT !.pass = Written(@, p)] \in Infos
        /\ [info[m] EXCEPT !.pass = Written(@, p)].allow = info[m].allow
    BY <1>0, <2>1, Zenon DEF Infos
  <2> QED
    BY <1>1, <2>2, SaveOnlyDeny, Zenon DEF assign_psk_cmd
<1>2. ASSUME NEW m \in Macs, clear_psk_cmd(m) PROVE DenyInv'
  <2>1. Empty \in Buffers
    BY DEF Empty, Buffers
  <2>2. /\ [info[m] EXCEPT !.pass = Empty] \in Infos
        /\ [info[m] EXCEPT !.pass = Empty].allow = info[m].allow
    BY <1>0, <2>1, Zenon DEF Infos
  <2> QED
    BY <1>2, <2>2, SaveOnlyDeny, Zenon DEF clear_psk_cmd
<1>3. ASSUME NEW m \in Macs, NEW s \in ApEvents, ap_service_callback(m, s) PROVE DenyInv'
  <2>1. /\ [info[m] EXCEPT !.status = s] \in Infos
        /\ [info[m] EXCEPT !.status = s].allow = info[m].allow
    BY <1>0, Zenon DEF Infos, Statuses
  <2> QED
    BY <1>3, <2>1, SaveOnlyDeny, Zenon DEF ap_service_callback
<1>4. ASSUME NEW v \in VlanArgs, register_ticket_cmd(v) PROVE DenyInv'
  BY <1>4, FaultsGrow, BridgeDeny, Zenon DEF register_ticket_cmd
<1>5. ASSUME eloop_ticket_timeout_handler PROVE DenyInv'
  BY <1>5, BridgeDeny, Zenon DEF eloop_ticket_timeout_handler
<1>6. ASSUME AccessNext PROVE DenyInv'
  BY <1>1, <1>2, <1>3, <1>4, <1>5, <1>6, AcceptDeny, DenyDeny, ConnDeny, RestartDeny, Zenon
  DEF AccessNext
<1>7. ASSUME NEW m \in Macs, add_nat_cmd(m) \/ remove_nat_cmd(m) PROVE DenyInv'
  BY <1>7, NatDeny, Zenon DEF add_nat_cmd, remove_nat_cmd
<1>8. ASSUME NEW l, NEW r,
             add_bridge_mac_cmd(l, r) \/ remove_bridge_cmd(l, r) \/ bridge_exists(l, r)
      PROVE  DenyInv'
  <2> 0 \in 0..1
    OBVIOUS
  <2>1. PICK f \in 0..1 : Faults(f)
    BY <1>8, Zenon DEF add_bridge_mac_cmd, remove_bridge_cmd, bridge_exists
  <2>2. running /\ UNCHANGED <<recVars, dbVars, authVars>>
    BY <1>8, Zenon DEF add_bridge_mac_cmd, remove_bridge_cmd, bridge_exists
  <2>3. f \in Nat
    OBVIOUS
  <2> QED
    BY <2>1, <2>2, <2>3, FaultsGrow, BridgeDeny, Zenon
<1>9. ASSUME NEW i, NEW j, add_bridge_ip_cmd(i, j) PROVE DenyInv'
  BY <1>8, <1>9, Zenon DEF add_bridge_ip_cmd
<1>10. ASSUME NEW m \in Macs, clear_bridges_cmd(m) PROVE DenyInv'
  BY <1>10, FaultsGrow, BridgeDeny, Zenon DEF clear_bridges_cmd
<1>11. ASSUME NEW m \in Macs, NEW i \in Ips, set_ip_add(m, i) PROVE DenyInv'
  <2>1. /\ [info[m] EXCEPT !.ip = i] \in Infos
        /\ [info[m] EXCEPT !.ip_sec = i] \in Infos
        /\ [info[m] EXCEPT !.ip = i].allow = info[m].allow
        /\ [info[m] EXCEPT !.ip_sec = i].allow = info[m].allow
    BY <1>0, Zenon DEF Infos
  <2> QED
    BY <1>11, <2>1, SetIpDeny, Zenon DEF set_ip_add
<1>12. ASSUME NEW m \in Macs, NEW i \in Ips, set_ip_del(m, i) PROVE DenyInv'
  <2> DEFINE rec == [info[m] EXCEPT !.ip = IF @ = i THEN NoIp ELSE @,
                                    !.ip_sec = IF @ = i THEN NoIp ELSE @]
  <2>1. rec \in Infos /\ rec.allow = info[m].allow
    BY <1>0, Zenon DEF Infos
  <2>2. set_ip(m, i, FALSE, rec)
    BY <1>12, Zenon DEF set_ip_del
  <2> HIDE DEF rec
  <2> QED
    BY <2>1, <2>2, SetIpDeny, Zenon
<1>13. ASSUME NetworkNext PROVE DenyInv'
  BY <1>7, <1>8, <1>9, <1>10, <1>11, <1>12, <1>13, RestartDeny, Zenon DEF NetworkNext
<1>14. ASSUME UNCHANGED vars PROVE DenyInv'
  <2>1. UNCHANGED <<mapped, info, stored, store, faults, denied, granted, running>>
    BY <1>14, Zenon DEF vars, authVars, recVars, dbVars, runVars
  <2>2. \A d : Out(d) => Out(d)'
    BY <2>1, Zenon DEF Out
  <2> QED
    BY <2>1, <2>2, Zenon DEF DenyInv, DeniedStaysOut
<1> QED
  BY <1>6, <1>13, <1>14, Zenon DEF Next

(* A denied device stays out, for every number of devices, tickets and     *)
(* faults: no RADIUS request that comes after DENY_MAC and before the next *)
(* ACCEPT_MAC is granted a VLAN by get_mac_conn_cmd, whatever commands,    *)
(* failed saves and (as long as nothing failed) restarts come in between.  *)
THEOREM DeniedStaysOutHolds == Spec => []DeniedStaysOut
<1>1. Init => DenyInv
  BY Zenon DEF Init, DenyInv, DeniedStaysOut
<1>2. TypeOK /\ DenyInv /\ [Next]_vars => DenyInv'
  BY DenyNext, Zenon
<1>3. DenyInv => DeniedStaysOut
  BY Zenon DEF DenyInv
<1> QED
  BY <1>1, <1>2, <1>3, TypeCorrect, PTL DEF Spec

-----------------------------------------------------------------------------
(* The bridge list stays an undirected graph without loops, for every      *)
(* number of devices and however many firewall calls fail: bridge_list     *)
(* edges are added and removed in pairs.                                   *)
THEOREM BridgesUndirectedHolds == Spec => []BridgesUndirected
<1>1. Init => BridgesUndirected
  BY Zenon DEF Init, BridgesUndirected
<1>2. ASSUME BridgesUndirected, bridges' = bridges PROVE BridgesUndirected'
  BY <1>2, Zenon DEF BridgesUndirected
<1>3. ASSUME BridgesUndirected, NEW l, NEW r, add_bridge_mac_cmd(l, r)
      PROVE  BridgesUndirected'
  BY <1>3, SMTT(60) DEF BridgesUndirected, add_bridge_mac_cmd, Edges
<1>4. ASSUME BridgesUndirected, NEW l, NEW r, remove_bridge_cmd(l, r)
      PROVE  BridgesUndirected'
  BY <1>4, Zenon DEF BridgesUndirected, remove_bridge_cmd, Edges
<1>5. ASSUME BridgesUndirected, NEW m, clear_bridges_cmd(m) PROVE BridgesUndirected'
  BY <1>5, SMTT(60) DEF BridgesUndirected, clear_bridges_cmd, Edges
<1>6. ASSUME run_ctl PROVE BridgesUndirected'
  BY <1>6, Zenon DEF BridgesUndirected, run_ctl
<1>7. BridgesUndirected /\ [Next]_vars => BridgesUndirected'
  <2> SUFFICES ASSUME BridgesUndirected, [Next]_vars PROVE BridgesUndirected'
    BY Zenon
  <2>1. CASE AccessNext
    BY <2>1, <1>2, <1>6, Zenon
    DEF AccessNext, accept_mac_cmd, deny_mac_cmd, assign_psk_cmd, clear_psk_cmd,
        ap_service_callback, SaveOnly, register_ticket_cmd, eloop_ticket_timeout_handler,
        get_mac_conn_cmd, netVars
  <2>2. CASE NetworkNext
    BY <2>2, <1>2, <1>3, <1>4, <1>5, <1>6, Zenon
    DEF NetworkNext, add_nat_cmd, remove_nat_cmd, nat_cmd, add_bridge_ip_cmd, bridge_exists,
        set_ip_add, set_ip_del, set_ip
  <2>3. CASE UNCHANGED vars
    BY <2>3, <1>2, Zenon DEF vars, netVars
  <2> QED
    BY <2>1, <2>2, <2>3, Zenon DEF Next
<1> QED
  BY <1>1, <1>7, PTL DEF Spec

-----------------------------------------------------------------------------
-----------------------------------------------------------------------------
(***************************************************************************)
(* What a step does to the records.  Three invariants below look at        *)
(* nothing else, so that it is worked out once for all handlers: a step    *)
(* saves one record, or leaves records and rows alone, or is a restart.    *)
(***************************************************************************)
Quiet == UNCHANGED <<conf, running>> /\ running /\ (faults' = 0 => faults = 0)

\* The VLAN of a record that is saved: with exec_capture, only configured ones are new.
VlanSaved(m, rec) == exec_capture => rec.vlan \in {info[m].vlan} \cup ConfVlans

\* The password of a record that is saved: that of a ticket only as the ticket is freed.
PassSaved(m, rec) ==
  \/ rec.pass.head \in {info[m].pass.head, NoPass, Wpa, Junk} \cup Psks
  \/ /\ ticket \in [id : 1..MaxTicket, vlan : VlanArgs]
     /\ rec.pass.head = TicketPass(ticket.id) /\ ticket' = NoTicket

\* The length of the password in a buffer is that of the text, or a longer one was there.
Exact(buf) == buf.len = TextLen(buf) \/ Overwrites(buf)

LenSaved(m, rec) == Exact(info[m].pass) => Exact(rec.pass)

TicketKept == tickets' = tickets /\ ticket' \in {ticket, NoTicket}

TicketNew ==
  /\ ticket = NoTicket /\ tickets' = tickets + 1
  /\ ticket' = Dangling \/ ticket'.id = tickets'

Saves(m, rec) ==
  /\ Quiet /\ TicketKept
  /\ \E ok \in BOOLEAN, f \in 0..1 :
       save_mac_mapper(m, rec, ok, f) /\ (faults' = 0 => f = 0)
  /\ VlanSaved(m, rec) /\ PassSaved(m, rec) /\ LenSaved(m, rec)

KeepsRecords == Quiet /\ UNCHANGED <<recVars, dbVars>> /\ (TicketKept \/ TicketNew)

RecordStep ==
  \/ \E m \in Macs, rec \in Infos : Saves(m, rec)
  \/ KeepsRecords
  \/ run_ctl
  \/ UNCHANGED <<recVars, dbVars, ticketVars, runVars, faults>>

(* A handler that saves one record and does not touch the ticket.          *)
LEMMA SaveStep ==
  ASSUME TypeOK, NEW m \in Macs, NEW rec \in Infos, NEW ok \in BOOLEAN, NEW f \in 0..1,
         save_mac_mapper(m, rec, ok, f), NEW n \in Nat, n >= f, Faults(n),
         running, UNCHANGED <<ticketVars, runVars>>,
         rec.vlan \in {info[m].vlan} \cup ConfVlans,
         rec.pass.head \in {info[m].pass.head, NoPass} \cup Psks,
         rec.pass = info[m].pass \/ Exact(rec.pass)
  PROVE  RecordStep
<1>1. Quiet /\ (faults' = 0 => f = 0)
  BY DEF Quiet, runVars, Faults, TypeOK
<1>2. TicketKept
  BY Zenon DEF TicketKept, ticketVars
<1>3. VlanSaved(m, rec) /\ PassSaved(m, rec) /\ LenSaved(m, rec)
  BY Zenon DEF VlanSaved, PassSaved, LenSaved
<1> QED
  BY <1>1, <1>2, <1>3, Zenon DEF Saves, RecordStep

(* A handler that leaves records and tickets alone.                        *)
LEMMA KeepStep ==
  ASSUME TypeOK, NEW n \in Nat, Faults(n), running,
         UNCHANGED <<recVars, dbVars, ticketVars, runVars>>
  PROVE  RecordStep
<1>1. Quiet
  BY DEF Quiet, runVars, Faults, TypeOK
<1>2. TicketKept
  BY Zenon DEF TicketKept, ticketVars
<1> QED
  BY <1>1, <1>2, Zenon DEF KeepsRecords, RecordStep

LEMMA SaveOnlyStep ==
  ASSUME TypeOK, NEW m \in Macs, NEW rec \in Infos, SaveOnly(m, rec),
         rec.vlan \in {info[m].vlan} \cup ConfVlans,
         rec.pass.head \in {info[m].pass.head, NoPass} \cup Psks,
         rec.pass = info[m].pass \/ Exact(rec.pass)
  PROVE  RecordStep
<1>1. PICK ok \in BOOLEAN, f \in 0..1 : Faults(f) /\ save_mac_mapper(m, rec, ok, f)
  BY Zenon DEF SaveOnly
<1>2. f \in Nat /\ f >= f
  OBVIOUS
<1>3. running /\ UNCHANGED <<ticketVars, runVars>>
  BY Zenon DEF SaveOnly
<1> QED
  BY <1>1, <1>2, <1>3, SaveStep, Zenon

LEMMA WrittenHead ==
  ASSUME NEW buf, NEW pass
  PROVE  Written(buf, pass).head = pass
BY Zenon DEF Written

LEMMA WrittenExact ==
  ASSUME NEW buf \in Buffers, NEW pass \in Passwords
  PROVE  Exact(Written(buf, pass))
<1>1. pass # NoPass
  <2>1. Junk # NoPass /\ \A id \in 1..MaxTicket : TicketPass(id) # NoPass
    BY DEF Junk, NoPass, TicketPass
  <2> QED
    BY <2>1, DistinctAssumption, Zenon DEF Passwords
<1>2. CASE IsShort(pass)
  <2>1. Written(buf, pass) = [len |-> 1, head |-> pass, tail |-> buf.tail]
    BY <1>2, Zenon DEF Written
  <2> QED
    BY <1>1, <1>2, <2>1 DEF Exact, TextLen, Overwrites
<1>3. CASE ~IsShort(pass)
  <2>1. Written(buf, pass) = [len |-> 2, head |-> pass, tail |-> TRUE]
    BY <1>3, Zenon DEF Written
  <2> QED
    BY <1>1, <2>1 DEF Exact, TextLen
<1> QED
  BY <1>2, <1>3, Zenon

LEMMA EmptyExact == Exact(Empty)
BY DEF Exact, Empty, TextLen

LEMMA RecordCommandsStep ==
  ASSUME TypeOK, NEW m \in Macs,
         \/ \E v \in VlanArgs : accept_mac_cmd(m, v)
         \/ deny_mac_cmd(m)
         \/ \E p \in Psks : assign_psk_cmd(m, p)
         \/ clear_psk_cmd(m)
         \/ \E s \in ApEvents : ap_service_callback(m, s)
  PROVE  RecordStep
<1>1. info[m] \in Infos /\ info[m].pass \in Buffers
  BY Zenon DEF TypeOK, Infos
<1>2. ASSUME NEW v \in VlanArgs, accept_mac_cmd(m, v) PROVE RecordStep
  <2> DEFINE rec == [info[m] EXCEPT !.allow = TRUE, !.vlan = v]
  <2>1. rec \in Infos
    BY <1>1, Zenon DEF Infos, Vlans
  <2>2. rec.vlan = v /\ v \in ConfVlans /\ rec.pass = info[m].pass
    BY <1>1, <1>2, Zenon DEF accept_mac_cmd, Infos
  <2>3. SaveOnly(m, rec)
    BY <1>2, Zenon DEF accept_mac_cmd
  <2> HIDE DEF rec
  <2> QED
    BY <2>1, <2>2, <2>3, SaveOnlyStep, Zenon
<1>3. ASSUME deny_mac_cmd(m) PROVE RecordStep
  <2> DEFINE rec == [info[m] EXCEPT !.allow = FALSE]
  <2>1. rec \in Infos /\ rec.vlan = info[m].vlan /\ rec.pass = info[m].pass
    BY <1>1, Zenon DEF Infos
  <2>2. SaveOnly(m, rec)
    BY <1>3, Zenon DEF deny_mac_cmd
  <2> HIDE DEF rec
  <2> QED
    BY <2>1, <2>2, SaveOnlyStep, Zenon
<1>4. ASSUME NEW p \in Psks, assign_psk_cmd(m, p) PROVE RecordStep
  <2> DEFINE rec == [info[m] EXCEPT !.pass = Written(@, p)]
  <2>1. Written(info[m].pass, p) \in Buffers
    BY <1>1, WrittenType, Zenon DEF Passwords
  <2>2. rec \in Infos /\ rec.vlan = info[m].vlan /\ rec.pass = Written(info[m].pass, p)
    BY <1>1, <2>1, Zenon DEF Infos
  <2>3. SaveOnly(m, rec)
    BY <1>4, Zenon DEF assign_psk_cmd
  <2>4. rec.pass.head = p /\ Exact(rec.pass)
    BY <1>1, <2>2, WrittenHead, WrittenExact, Zenon DEF Passwords
  <2> HIDE DEF rec
  <2> QED
    BY <2>2, <2>3, <2>4, SaveOnlyStep, Zenon
<1>5. ASSUME clear_psk_cmd(m) PROVE RecordStep
  <2> DEFINE rec == [info[m] EXCEPT !.pass = Empty]
  <2>1. Empty \in Buffers /\ Empty.head = NoPass
    BY DEF Empty, Buffers
  <2>2. rec \in Infos /\ rec.vlan = info[m].vlan /\ rec.pass = Empty
    BY <1>1, <2>1, Zenon DEF Infos
  <2>3. SaveOnly(m, rec)
    BY <1>5, Zenon DEF clear_psk_cmd
  <2> HIDE DEF rec
  <2> QED
    BY <2>1, <2>2, <2>3, SaveOnlyStep, EmptyExact, Zenon
<1>6. ASSUME NEW s \in ApEvents, ap_service_callback(m, s) PROVE RecordStep
  <2> DEFINE rec == [info[m] EXCEPT !.status = s]
  <2>1. rec \in Infos /\ rec.vlan = info[m].vlan /\ rec.pass = info[m].pass
    BY <1>1, Zenon DEF Infos, Statuses
  <2>2. SaveOnly(m, rec)
    BY <1>6, Zenon DEF ap_service_callback
  <2> HIDE DEF rec
  <2> QED
    BY <2>1, <2>2, SaveOnlyStep, Zenon
<1> QED
  BY <1>2, <1>3, <1>4, <1>5, <1>6, Zenon

LEMMA TicketStep ==
  ASSUME TypeOK,
         (\E v \in VlanArgs : register_ticket_cmd(v)) \/ eloop_ticket_timeout_handler
  PROVE  RecordStep
<1>1. ASSUME NEW v \in VlanArgs, register_ticket_cmd(v) PROVE RecordStep
  <2>1. TicketNew
    BY <1>1 DEF register_ticket_cmd, TicketNew
  <2>2. UNCHANGED <<recVars, dbVars, runVars>> /\ running
    BY <1>1, Zenon DEF register_ticket_cmd
  <2>3. Faults(0) \/ Faults(1)
    BY <1>1, Zenon DEF register_ticket_cmd
  <2>4. Quiet
    BY <2>2, <2>3 DEF Quiet, runVars, Faults, TypeOK
  <2> QED
    BY <2>1, <2>2, <2>4, Zenon DEF KeepsRecords, RecordStep
<1>2. ASSUME eloop_ticket_timeout_handler PROVE RecordStep
  <2>1. Quiet /\ TicketKept /\ UNCHANGED <<recVars, dbVars>>
    BY <1>2, Zenon DEF eloop_ticket_timeout_handler, Quiet, TicketKept, runVars
  <2> QED
    BY <2>1, Zenon DEF KeepsRecords, RecordStep
<1> QED
  BY <1>1, <1>2, Zenon

(* The record of a RADIUS request: with a VLAN of the record or of the     *)
(* configuration unless it takes the ticket, and the ticket's passphrase   *)
(* only if it does.                                                        *)
LEMMA ConnSaved ==
  ASSUME TypeOK, NEW m \in Macs, NEW rec \in ConnRecords(m)
  PROVE  /\ \/ rec.pass.head \in {info[m].pass.head, NoPass, Wpa, Junk} \cup Psks
            \/ /\ ticket \in [id : 1..MaxTicket, vlan : VlanArgs] /\ TakesTicket(m)
               /\ rec.pass.head = TicketPass(ticket.id)
         /\ rec.pass = info[m].pass \/ Exact(rec.pass)
<1>1. info[m] \in Infos /\ info[m].pass \in Buffers
  BY Zenon DEF TypeOK, Infos
<1>2. ASSUME NEW v, NEW p \in Passwords,
             rec = [info[m] EXCEPT !.allow = TRUE, !.vlan = v, !.pass = Written(@, p)]
      PROVE  rec.pass.head = p /\ Exact(rec.pass)
  <2>1. rec.pass = Written(info[m].pass, p)
    BY <1>1, <1>2, Zenon DEF Infos
  <2> QED
    BY <1>1, <2>1, WrittenHead, WrittenExact, Zenon
<1> Wpa \in Passwords /\ Junk \in Passwords
  BY Zenon DEF Passwords
<1>3. CASE info[m].pass.len > 0
  BY <1>3, Zenon DEF ConnRecords
<1>4. CASE ~(info[m].pass.len > 0) /\ TakesTicket(m)
  <2>1. rec \in TicketRecords(m)
    BY <1>4, Zenon DEF ConnRecords
  <2> NoTicket # Dangling
    BY DEF NoTicket, Dangling
  <2>2. CASE ticket = NoTicket
    <3>1. rec = [info[m] EXCEPT !.allow = TRUE, !.vlan = AllocVlan[m], !.pass = Written(@, Wpa)]
      BY <2>1, <2>2, Zenon DEF TicketRecords
    <3> QED
      BY <3>1, <1>2, Zenon
  <2>3. CASE ticket = Dangling
    <3>1. PICK v \in VlanArgs :
            rec = [info[m] EXCEPT !.allow = TRUE, !.vlan = v, !.pass = Written(@, Junk)]
      BY <2>1, <2>3, Zenon DEF TicketRecords
    <3> QED
      BY <3>1, <1>2, Zenon
  <2>4. CASE ticket \notin {NoTicket, Dangling}
    <3>1. ticket \in [id : 1..MaxTicket, vlan : VlanArgs]
      BY <2>4, Zenon DEF TypeOK
    <3>2. rec = [info[m] EXCEPT !.allow = TRUE, !.vlan = ticket.vlan,
                                !.pass = Written(@, TicketPass(ticket.id))]
      BY <2>1, <2>4, Zenon DEF TicketRecords
    <3>3. TicketPass(ticket.id) \in Passwords
      BY <3>1, Zenon DEF Passwords
    <3> QED
      BY <1>4, <3>1, <3>2, <3>3, <1>2, Zenon
  <2> QED
    BY <2>2, <2>3, <2>4, Zenon
<1>5. CASE ~(info[m].pass.len > 0) /\ ~TakesTicket(m)
  <2>1. rec = [info[m] EXCEPT !.vlan = IF m \in mapped THEN @ ELSE AllocVlan[m],
                              !.pass = Written(@, Wpa)]
    BY <1>5, Zenon DEF ConnRecords
  <2>2. rec.pass = Written(info[m].pass, Wpa)
    BY <2>1, <1>1, Zenon DEF Infos
  <2> QED
    BY <1>1, <2>2, WrittenHead, WrittenExact, Zenon
<1> QED
  BY <1>3, <1>4, <1>5, Zenon

LEMMA ConnStep ==
  ASSUME TypeOK, NEW m \in Macs, get_mac_conn_cmd(m)
  PROVE  RecordStep
<1>1. running /\ UNCHANGED <<tickets, timers, runVars>>
  BY Zenon DEF get_mac_conn_cmd
<1>2. CASE Refused(m)
  <2>1. UNCHANGED <<ticket, recVars, dbVars, faults>>
    BY <1>2, Zenon DEF get_mac_conn_cmd
  <2> QED
    BY <1>1, <2>1, Zenon DEF RecordStep, ticketVars
<1>3. CASE ~Refused(m)
  <2>1. PICK rec \in ConnRecords(m), ok \in BOOLEAN, f \in 0..1 :
          Faults(f) /\ save_device_vlan(m, rec, ok, f)
    BY <1>3, Zenon DEF get_mac_conn_cmd
  <2>2. rec \in Infos
    BY ConnType, Zenon
  <2>3. ticket' = IF TakesTicket(m) THEN NoTicket ELSE ticket
    BY <1>3, Zenon DEF get_mac_conn_cmd
  <2>4. Quiet /\ (faults' = 0 => f = 0) /\ TicketKept
    BY <1>1, <2>1, <2>3 DEF Quiet, runVars, Faults, TypeOK, TicketKept
  <2>5. CASE UNCHANGED <<recVars, dbVars>>
    BY <2>4, <2>5, Zenon DEF KeepsRecords, RecordStep
  <2>6. CASE ~UNCHANGED <<recVars, dbVars>>
    <3>1. save_mac_mapper(m, rec, ok, f) /\ (exec_capture => rec.vlan \in ConfVlans)
      BY <2>1, <2>6, Zenon DEF save_device_vlan
    <3>2. VlanSaved(m, rec)
      BY <3>1, Zenon DEF VlanSaved
    <3>3. PassSaved(m, rec) /\ LenSaved(m, rec)
      BY <2>3, ConnSaved, Zenon DEF PassSaved, LenSaved
    <3> QED
      BY <2>2, <2>4, <3>1, <3>2, <3>3, Zenon DEF Saves, RecordStep
  <2> QED
    BY <2>5, <2>6, Zenon
<1> QED
  BY <1>2, <1>3, Zenon

LEMMA NatStep ==
  ASSUME TypeOK, NEW m \in Macs, NEW add \in BOOLEAN, nat_cmd(m, add)
  PROVE  RecordStep
<1> DEFINE rec == [info[m] EXCEPT !.nat = add]
<1>1. PICK ok \in BOOLEAN, saved \in BOOLEAN, f \in 0..1, g \in 0..1 :
        /\ Faults(f + g)
        /\ IF ok THEN save_mac_mapper(m, rec, saved, g) ELSE UNCHANGED <<recVars, dbVars>>
  BY Zenon DEF nat_cmd
<1>2. running /\ UNCHANGED <<ticketVars, runVars>>
  BY Zenon DEF nat_cmd
<1>3. rec \in Infos /\ rec.vlan = info[m].vlan /\ rec.pass = info[m].pass
  <2> info[m] \in Infos
    BY Zenon DEF TypeOK
  <2> QED
    BY Zenon DEF Infos
<1>4. f + g \in Nat /\ f + g >= g
  OBVIOUS
<1> HIDE DEF rec
<1>5. CASE ok
  BY <1>1, <1>2, <1>3, <1>4, <1>5, SaveStep, Zenon
<1>6. CASE ~ok
  BY <1>1, <1>2, <1>4, <1>6, KeepStep, Zenon
<1> QED
  BY <1>5, <1>6, Zenon

LEMMA BridgeStep ==
  ASSUME TypeOK, NEW l \in Macs, NEW r \in Macs,
         \/ add_bridge_mac_cmd(l, r) \/ bridge_exists(l, r)
         \/ remove_bridge_cmd(l, r) \/ clear_bridges_cmd(l)
  PROVE  RecordStep
<1>1. running /\ UNCHANGED <<recVars, dbVars, ticketVars, runVars>>
  BY Zenon DEF add_bridge_mac_cmd, bridge_exists, remove_bridge_cmd, clear_bridges_cmd
<1>2. PICK f \in 0..1 : Faults(f)
  <2> 0 \in 0..1 /\ 1 \in 0..1
    OBVIOUS
  <2> QED
    BY Zenon DEF add_bridge_mac_cmd, bridge_exists, remove_bridge_cmd, clear_bridges_cmd
<1>3. f \in Nat
  OBVIOUS
<1> QED
  BY <1>1, <1>2, <1>3, KeepStep, Zenon

LEMMA SetIpStep ==
  ASSUME TypeOK, NEW m \in Macs, NEW ip \in Ips, NEW add \in BOOLEAN, NEW rec \in Infos,
         set_ip(m, ip, add, rec), rec.vlan = info[m].vlan, rec.pass = info[m].pass
  PROVE  RecordStep
<1>1. running /\ UNCHANGED <<ticketVars, runVars>>
  BY Zenon DEF set_ip
<1>2. PICK saved \in BOOLEAN, f \in 0..1, g \in 0..1, h \in 0..1 :
        Faults(f + g + h) /\ save_mac_mapper(m, rec, saved, f)
  BY Zenon DEF set_ip
<1>3. f + g + h \in Nat /\ f + g + h >= f
  OBVIOUS
<1> QED
  BY <1>1, <1>2, <1>3, SaveStep, Zenon

(* Every step of the supervisor is one of these.                           *)
LEMMA NextRecordStep ==
  ASSUME TypeOK, [Next]_vars
  PROVE  RecordStep
<1>1. ASSUME AccessNext PROVE RecordStep
  BY <1>1, RecordCommandsStep, TicketStep, ConnStep, Zenon DEF AccessNext, RecordStep
<1>2. ASSUME NetworkNext PROVE RecordStep
  <2>1. ASSUME NEW m \in Macs, add_nat_cmd(m) \/ remove_nat_cmd(m) PROVE RecordStep
    BY <2>1, NatStep, Zenon DEF add_nat_cmd, remove_nat_cmd
  <2>2. ASSUME NEW i \in Ips, NEW j \in Ips, add_bridge_ip_cmd(i, j) PROVE RecordStep
    BY <2>2, BridgeStep, Zenon DEF add_bridge_ip_cmd, get_ip_mapper, TypeOK
  <2>3. ASSUME NEW m \in Macs, NEW i \in Ips, set_ip_add(m, i) PROVE RecordStep
    <3>1. info[m] \in Infos
      BY Zenon DEF TypeOK
    <3> DEFINE one == [info[m] EXCEPT !.ip = i]
               two == [info[m] EXCEPT !.ip_sec = i]
    <3>2. /\ one \in Infos /\ one.vlan = info[m].vlan /\ one.pass = info[m].pass
          /\ two \in Infos /\ two.vlan = info[m].vlan /\ two.pass = info[m].pass
      BY <3>1, Zenon DEF Infos
    <3>3. set_ip(m, i, TRUE, one) \/ set_ip(m, i, TRUE, two)
      BY <2>3, Zenon DEF set_ip_add
    <3> HIDE DEF one, two
    <3> QED
      BY <3>2, <3>3, SetIpStep, Zenon
  <2>4. ASSUME NEW m \in Macs, NEW i \in Ips, set_ip_del(m, i) PROVE RecordStep
    <3>1. info[m] \in Infos
      BY Zenon DEF TypeOK
    <3> DEFINE rec == [info[m] EXCEPT !.ip = IF @ = i THEN NoIp ELSE @,
                                      !.ip_sec = IF @ = i THEN NoIp ELSE @]
    <3>2. rec \in Infos /\ rec.vlan = info[m].vlan /\ rec.pass = info[m].pass
      BY <3>1, Zenon DEF Infos
    <3>3. set_ip(m, i, FALSE, rec)
      BY <2>4, Zenon DEF set_ip_del
    <3> HIDE DEF rec
    <3> QED
      BY <3>2, <3>3, SetIpStep, Zenon
  <2> QED
    BY <1>2, <2>1, <2>2, <2>3, <2>4, BridgeStep, Zenon DEF NetworkNext, RecordStep
<1>3. ASSUME UNCHANGED vars PROVE RecordStep
  BY <1>3, Zenon DEF vars, RecordStep
<1> QED
  BY <1>1, <1>2, <1>3, Zenon DEF Next

(* A save writes one record and, at most, the row made of it.              *)
LEMMA SaveEffect ==
  ASSUME TypeOK, NEW m \in Macs, NEW rec \in Infos, Saves(m, rec)
  PROVE  /\ mapped' = mapped \cup {m}
         /\ info' = [info EXCEPT ![m] = rec]
         /\ store' \in {store, [store EXCEPT ![m] = Row(rec)]}
         /\ faults' = 0 => stored' = stored \cup {m} /\ store' = [store EXCEPT ![m] = Row(rec)]
<1>1. PICK ok \in BOOLEAN, f \in 0..1 :
        save_mac_mapper(m, rec, ok, f) /\ (faults' = 0 => f = 0)
  BY Zenon DEF Saves
<1> QED
  BY <1>1 DEF save_mac_mapper, save_sqlite_macconn_entry

(* A restart takes over the rows, or nothing.                              *)
LEMMA RestartEffect ==
  ASSUME TypeOK, run_ctl
  PROVE  /\ UNCHANGED <<conf, tickets, store>> /\ ticket' = NoTicket
         /\ running' = \A m \in stored' : store[m].vlan \in ConfVlans
         /\ running' => mapped' = stored'
         /\ stored' \subseteq stored
         /\ faults' = 0 => stored' = stored /\ faults = 0
         /\ \A m \in Macs : info'[m] = IF m \in mapped' THEN get_sqlite_macconn_entry(store[m])
                                                        ELSE init_default_mac_info
<1>1. UNCHANGED <<conf, tickets, store>> /\ ticket' = NoTicket /\ stored' \subseteq stored
  BY Zenon DEF run_ctl
<1>2. running' = \A m \in stored' : store[m].vlan \in ConfVlans
  BY Zenon DEF run_ctl
<1>3. running' => mapped' = stored'
  BY Zenon DEF run_ctl
<1>4. faults' = 0 => stored' = stored /\ faults = 0
  BY DEF run_ctl, Faults, TypeOK
<1>5. info' = create_mac_mapper(mapped')
  BY Zenon DEF run_ctl
<1> QED
  BY <1>1, <1>2, <1>3, <1>4, <1>5, Zenon DEF create_mac_mapper

-----------------------------------------------------------------------------
(***************************************************************************)
(* The database and the mapper.                                            *)
(***************************************************************************)

(* The row of a record read back from a row is that row.                   *)
LEMMA RowRead ==
  ASSUME NEW rec \in Infos
  PROVE  Row(get_sqlite_macconn_entry(Row(rec))) = Row(rec)
<1> DEFINE buf == [rec.pass EXCEPT !.len = TextLen(rec.pass)]
           entry == get_sqlite_macconn_entry(Row(rec))
<1>1. rec.pass \in Buffers
  BY Zenon DEF Infos
<1>2. buf.head = rec.pass.head /\ buf.tail = rec.pass.tail
  BY <1>1, Zenon DEF Buffers
<1>3. TextLen(buf) = TextLen(rec.pass)
  BY <1>2, Zenon DEF TextLen
<1>4. [buf EXCEPT !.len = TextLen(buf)] = buf
  BY <1>1, <1>3, Zenon DEF Buffers
<1>5. /\ entry.pass = buf /\ entry.allow = rec.allow /\ entry.nat = rec.nat
      /\ entry.vlan = rec.vlan /\ entry.status = rec.status
  BY Zenon DEF get_sqlite_macconn_entry, Row
<1>6. Row(rec) = [allow |-> rec.allow, nat |-> rec.nat, vlan |-> rec.vlan,
                  status |-> rec.status, pass |-> buf]
  BY Zenon DEF Row
<1>7. Row(entry) = [allow |-> rec.allow, nat |-> rec.nat, vlan |-> rec.vlan,
                    status |-> rec.status, pass |-> [buf EXCEPT !.len = TextLen(buf)]]
  <2> HIDE DEF buf, entry
  <2> QED
    BY <1>5, Zenon DEF Row
<1> QED
  BY <1>4, <1>6, <1>7, Zenon

(***************************************************************************)
(* The row of a device is made of its record, which a restart preserves by *)
(* RowRead; and no buffer is longer than it says but where a password was  *)
(* copied over a longer one.                                               *)
(***************************************************************************)
RowsMirror ==
  faults = 0 /\ running => stored = mapped /\ \A m \in mapped : store[m] = Row(info[m])

MirrorInv ==
  /\ RowsMirror
  /\ \A m \in Macs : Exact(info[m].pass) /\ store[m].pass.len = TextLen(store[m].pass)

(* A row has the length of its text.                                       *)
LEMMA RowLen ==
  ASSUME NEW rec \in Infos
  PROVE  Row(rec).pass.len = TextLen(Row(rec).pass)
<1>1. rec.pass \in Buffers
  BY Zenon DEF Infos
<1>2. Row(rec).pass = [rec.pass EXCEPT !.len = TextLen(rec.pass)]
  BY Zenon DEF Row
<1> QED
  BY <1>1, <1>2, Zenon DEF Buffers, TextLen

LEMMA LenNext ==
  ASSUME TypeOK, MirrorInv, [Next]_vars
  PROVE  (\A m \in Macs : Exact(info[m].pass) /\ store[m].pass.len = TextLen(store[m].pass))'
<1> SUFFICES ASSUME NEW d \in Macs
             PROVE  Exact(info'[d].pass) /\ store'[d].pass.len = TextLen(store'[d].pass)
  BY Zenon DEF Exact, TextLen, Overwrites
<1>1. Exact(info[d].pass) /\ store[d].pass.len = TextLen(store[d].pass)
  BY Zenon DEF MirrorInv
<1>2. info \in [Macs -> Infos] /\ store \in [Macs -> StoredRows]
  BY Zenon DEF TypeOK
<1>3. ASSUME NEW m \in Macs, NEW rec \in Infos, Saves(m, rec)
      PROVE  Exact(info'[d].pass) /\ store'[d].pass.len = TextLen(store'[d].pass)
  <2>1. info' = [info EXCEPT ![m] = rec] /\ store' \in {store, [store EXCEPT ![m] = Row(rec)]}
    BY <1>3, SaveEffect, Zenon
  <2>2. Exact(rec.pass)
    BY <1>3, Zenon DEF Saves, LenSaved, MirrorInv
  <2>3. info'[d] \in {info[d], rec} /\ store'[d] \in {store[d], Row(rec)}
    BY <1>2, <2>1, Zenon
  <2> QED
    BY <1>1, <2>2, <2>3, RowLen, Zenon
<1>4. ASSUME KeepsRecords \/ UNCHANGED <<recVars, dbVars, ticketVars, runVars, faults>>
      PROVE  Exact(info'[d].pass) /\ store'[d].pass.len = TextLen(store'[d].pass)
  <2>1. info' = info /\ store' = store
    BY <1>4, Zenon DEF KeepsRecords, recVars, dbVars
  <2> QED
    BY <1>1, <2>1, Zenon
<1>5. ASSUME run_ctl
      PROVE  Exact(info'[d].pass) /\ store'[d].pass.len = TextLen(store'[d].pass)
  <2>1. store' = store
    BY <1>5, RestartEffect, Zenon
  <2>2. info'[d] = IF d \in mapped' THEN get_sqlite_macconn_entry(store[d])
                                    ELSE init_default_mac_info
    BY <1>5, RestartEffect, Zenon
  <2>3. /\ get_sqlite_macconn_entry(store[d]).pass = store[d].pass
        /\ init_default_mac_info.pass = Empty
    BY Zenon DEF get_sqlite_macconn_entry, init_default_mac_info
  <2>4. Exact(store[d].pass)
    BY <1>1, Zenon DEF Exact
  <2>5. info'[d].pass = store[d].pass \/ info'[d].pass = Empty
    BY <2>2, <2>3, Zenon
  <2> QED
    BY <1>1, <2>1, <2>4, <2>5, EmptyExact, Zenon
<1> QED
  BY <1>3, <1>4, <1>5, NextRecordStep, Zenon DEF RecordStep

LEMMA MirrorNext ==
  ASSUME TypeOK, RowsMirror, [Next]_vars
  PROVE  RowsMirror'
<1> SUFFICES ASSUME faults' = 0, running'
             PROVE  stored' = mapped' /\ \A d \in mapped' : store'[d] = Row(info'[d])
  BY Zenon DEF RowsMirror, Row, TextLen
<1>1. ASSUME NEW m \in Macs, NEW rec \in Infos, Saves(m, rec)
      PROVE  stored' = mapped' /\ \A d \in mapped' : store'[d] = Row(info'[d])
  <2>1. faults = 0 /\ running
    BY <1>1, Zenon DEF Saves, Quiet
  <2>2. stored = mapped /\ \A d \in mapped : store[d] = Row(info[d])
    BY <2>1, Zenon DEF RowsMirror
  <2>3. /\ mapped' = mapped \cup {m} /\ stored' = stored \cup {m}
        /\ info' = [info EXCEPT ![m] = rec] /\ store' = [store EXCEPT ![m] = Row(rec)]
    BY <1>1, SaveEffect, Zenon
  <2>4. info \in [Macs -> Infos] /\ store \in [Macs -> StoredRows] /\ mapped \subseteq Macs
    BY Zenon DEF TypeOK
  <2> QED
    BY <2>2, <2>3, <2>4, Zenon
<1>2. ASSUME KeepsRecords \/ UNCHANGED <<recVars, dbVars, ticketVars, runVars, faults>>
      PROVE  stored' = mapped' /\ \A d \in mapped' : store'[d] = Row(info'[d])
  BY <1>2, Zenon DEF KeepsRecords, Quiet, recVars, dbVars, runVars, RowsMirror
<1>3. ASSUME run_ctl
      PROVE  stored' = mapped' /\ \A d \in mapped' : store'[d] = Row(info'[d])
  <2>1. faults = 0 /\ running /\ stored' = stored /\ mapped' = stored'
    BY <1>3, RestartEffect, Zenon DEF run_ctl
  <2>2. stored = mapped /\ \A d \in mapped : store[d] = Row(info[d])
    BY <2>1, Zenon DEF RowsMirror
  <2>3. ASSUME NEW d \in mapped' PROVE store'[d] = Row(info'[d])
    <3>1. d \in Macs /\ d \in mapped /\ info[d] \in Infos
      BY <2>1, <2>2, Zenon DEF TypeOK
    <3>2. store'[d] = Row(info[d]) /\ info'[d] = get_sqlite_macconn_entry(store[d])
      BY <1>3, <2>2, <3>1, RestartEffect, Zenon
    <3> QED
      BY <2>2, <3>1, <3>2, RowRead, Zenon
  <2> QED
    BY <2>1, <2>3, Zenon
<1> QED
  BY <1>1, <1>2, <1>3, NextRecordStep, Zenon DEF RecordStep

(* What reading the row of a record back gives.                            *)
LEMMA RowBack ==
  ASSUME NEW rec \in Infos, Exact(rec.pass)
  PROVE  LET back == get_sqlite_macconn_entry(Row(rec))
         IN  /\ \A field \in {"allow", "nat", "vlan", "status"} : back[field] = rec[field]
             /\ [back.pass EXCEPT !.len = rec.pass.len] = rec.pass
             /\ Overwrites(rec.pass) \/ back.pass.len = rec.pass.len
<1> DEFINE back == get_sqlite_macconn_entry(Row(rec))
           buf == [rec.pass EXCEPT !.len = TextLen(rec.pass)]
<1>1. rec.pass \in Buffers
  BY Zenon DEF Infos
<1>2. [buf EXCEPT !.len = rec.pass.len] = rec.pass /\ buf.len = TextLen(rec.pass)
  BY <1>1 DEF Buffers
<1>3. /\ back.allow = rec.allow /\ back.nat = rec.nat /\ back.vlan = rec.vlan
      /\ back.status = rec.status /\ back.pass = buf
  BY Zenon DEF get_sqlite_macconn_entry, Row
<1> HIDE DEF back, buf
<1>4. /\ \A field \in {"allow", "nat", "vlan", "status"} : back[field] = rec[field]
      /\ [back.pass EXCEPT !.len = rec.pass.len] = rec.pass
      /\ Overwrites(rec.pass) \/ back.pass.len = rec.pass.len
  BY <1>2, <1>3, Zenon DEF Exact
<1> QED
  BY <1>4, Zenon DEF back

(* The database mirrors the mapper: with no fault so far, whichever        *)
(* commands, requests, events, timeouts and restarts have been handled,    *)
(* every record has its row and every row its record, and reading the row  *)
(* back gives the record without its IPs, the password included unless it  *)
(* was assigned over a longer one.                                         *)
THEOREM StoreMirrorsMemoryHolds == Spec => []StoreMirrorsMemory
<1>1. Init => MirrorInv
  <2> SUFFICES ASSUME Init PROVE MirrorInv
    BY Zenon
  <2>1. RowsMirror
    BY Zenon DEF Init, RowsMirror
  <2>2. init_default_mac_info \in Infos /\ init_default_mac_info.pass = Empty
    <3>1. init_default_mac_info.pass = Empty
      BY Zenon DEF init_default_mac_info
    <3> QED
      BY <3>1, DefaultType, Zenon DEF Init
  <2> QED
    BY <2>1, <2>2, RowLen, EmptyExact, Zenon DEF Init, MirrorInv
<1>2. TypeOK /\ MirrorInv /\ [Next]_vars => MirrorInv'
  BY LenNext, MirrorNext, Zenon DEF MirrorInv
<1>3. TypeOK /\ MirrorInv => StoreMirrorsMemory
  <2> SUFFICES ASSUME TypeOK, MirrorInv, faults = 0, running, NEW m \in mapped
               PROVE  /\ stored = mapped
                      /\ LET back == get_sqlite_macconn_entry(store[m])
                         IN  /\ \A field \in {"allow", "nat", "vlan", "status"} :
                                  back[field] = info[m][field]
                             /\ [back.pass EXCEPT !.len = info[m].pass.len] = info[m].pass
                             /\ Overwrites(info[m].pass) \/ back.pass.len = info[m].pass.len
    BY Zenon DEF StoreMirrorsMemory, MirrorInv, RowsMirror
  <2>1. info[m] \in Infos /\ Exact(info[m].pass)
    BY Zenon DEF TypeOK, MirrorInv
  <2>2. stored = mapped /\ store[m] = Row(info[m])
    BY Zenon DEF MirrorInv, RowsMirror
  <2> QED
    BY <2>1, <2>2, RowBack, Zenon
<1> QED
  BY <1>1, <1>2, <1>3, TypeCorrect, PTL DEF Spec

-----------------------------------------------------------------------------
(***************************************************************************)
(* Restarts.  What makes the next start succeed is that no row has a VLAN  *)
(* that is not configured, which in turn needs it of every record.         *)
(***************************************************************************)
RestartInv ==
  exec_capture =>
    /\ running
    /\ \A m \in Macs : info[m].vlan \in ConfVlans /\ store[m].vlan \in ConfVlans

LEMMA RestartNext ==
  ASSUME TypeOK, RestartInv, [Next]_vars
  PROVE  RestartInv'
<1> USE DEF exec_capture
<1>1. info \in [Macs -> Infos] /\ store \in [Macs -> StoredRows] /\ stored \subseteq Macs
  BY Zenon DEF TypeOK
<1>2. ASSUME NEW m \in Macs, NEW rec \in Infos, Saves(m, rec) PROVE RestartInv'
  <2>1. Row(rec).vlan = rec.vlan
    BY Zenon DEF Row
  <2>2. UNCHANGED <<conf, running>> /\ VlanSaved(m, rec)
    BY <1>2, Zenon DEF Saves, Quiet
  <2>3. info' = [info EXCEPT ![m] = rec] /\ store' \in {store, [store EXCEPT ![m] = Row(rec)]}
    BY <1>2, SaveEffect, Zenon
  <2> QED
    BY <1>1, <2>1, <2>2, <2>3, Zenon DEF RestartInv, VlanSaved
<1>3. ASSUME KeepsRecords \/ UNCHANGED <<recVars, dbVars, ticketVars, runVars, faults>>
      PROVE  RestartInv'
  BY <1>3, Zenon DEF KeepsRecords, Quiet, recVars, dbVars, runVars, RestartInv
<1>4. ASSUME run_ctl PROVE RestartInv'
  <2>1. init_default_mac_info.vlan \in ConfVlans
    BY SupervisorAssumption, Zenon DEF init_default_mac_info
  <2>2. \A m \in Macs : get_sqlite_macconn_entry(store[m]).vlan = store[m].vlan
    BY Zenon DEF get_sqlite_macconn_entry
  <2> QED
    BY <1>1, <1>4, <2>1, <2>2, RestartEffect, Zenon DEF RestartInv
<1> QED
  BY <1>2, <1>3, <1>4, NextRecordStep, Zenon DEF RecordStep

(* With exec_capture the supervisor can always be started again, however   *)
(* many devices, tickets and faults there are: get_mac_conn_cmd never      *)
(* stores the VLAN of a ticket that is not configured.                     *)
THEOREM CanRestartHolds == Spec => []CanRestart
<1>1. Init => RestartInv
  <2>1. init_default_mac_info.vlan = DefaultVlan /\ Row(init_default_mac_info).vlan = DefaultVlan
    BY Zenon DEF init_default_mac_info, Row
  <2> QED
    BY <2>1, SupervisorAssumption, Zenon DEF Init, RestartInv
<1>2. TypeOK /\ RestartInv /\ [Next]_vars => RestartInv'
  BY RestartNext, Zenon
<1>3. RestartInv => CanRestart
  BY Zenon DEF RestartInv, CanRestart
<1> QED
  BY <1>1, <1>2, <1>3, TypeCorrect, PTL DEF Spec

-----------------------------------------------------------------------------
(***************************************************************************)
(* Tickets.  TicketSingleUse is about records; a restart makes records of  *)
(* rows, so that the rows count too, and the passphrase of the ticket that *)
(* is active must not be held by anyone yet, nor may that of one to come.  *)
(***************************************************************************)
Holds(m, id) == TicketPass(id) \in {info[m].pass.head, store[m].pass.head}

TicketInv ==
  /\ \A m, d \in Macs, id \in 1..MaxTicket : Holds(m, id) /\ Holds(d, id) => m = d
  /\ \A m \in Macs, id \in 1..MaxTicket : Holds(m, id) => id <= tickets /\ id # ticket.id
  /\ ticket.id <= tickets

(* The passphrases of tickets are different from each other and from every *)
(* other password.                                                         *)
LEMMA TicketPassDistinct ==
  ASSUME NEW id \in 1..MaxTicket
  PROVE  /\ TicketPass(id) \notin {NoPass, Wpa, Junk} \cup Psks
         /\ \A i \in 1..MaxTicket : TicketPass(i) = TicketPass(id) => i = id
<1>1. TicketPass(id) \notin {NoPass, Junk}
  BY Zenon DEF TicketPass, NoPass, Junk
<1>2. \A i \in 1..MaxTicket : TicketPass(i) = TicketPass(id) => i = id
  BY Zenon DEF TicketPass
<1> QED
  BY <1>1, <1>2, DistinctAssumption, Zenon

LEMMA TicketIds ==
  ASSUME TypeOK
  PROVE  /\ NoTicket.id = 0 /\ Dangling.id = -1 /\ tickets \in Nat
         /\ ticket.id \in {0, -1} \cup 1..MaxTicket
BY DEF TypeOK, NoTicket, Dangling

(* A save hands on the passphrase of a ticket only as the ticket goes.     *)
LEMMA TicketSaves ==
  ASSUME TypeOK, TicketInv, NEW m \in Macs, NEW rec \in Infos, Saves(m, rec)
  PROVE  TicketInv'
<1>1. /\ info' = [info EXCEPT ![m] = rec]
      /\ store' \in {store, [store EXCEPT ![m] = Row(rec)]}
  BY SaveEffect, Zenon
<1>2. Row(rec).pass.head = rec.pass.head
  <2> rec.pass \in Buffers
    BY Zenon DEF Infos
  <2> QED
    BY Zenon DEF Row, Buffers
<1>3. info \in [Macs -> Infos] /\ store \in [Macs -> StoredRows]
  BY Zenon DEF TypeOK
<1>4. \A d \in Macs, id \in 1..MaxTicket :
        Holds(d, id)' => Holds(d, id) \/ (d = m /\ TicketPass(id) = rec.pass.head)
  BY <1>1, <1>2, <1>3, Zenon DEF Holds
<1>5. tickets' = tickets /\ ticket' \in {ticket, NoTicket} /\ PassSaved(m, rec)
  BY Zenon DEF Saves, TicketKept
<1>6. ASSUME NEW id \in 1..MaxTicket, TicketPass(id) = rec.pass.head
      PROVE  \/ Holds(m, id)
             \/ id = ticket.id /\ ticket' = NoTicket
  <2>1. CASE rec.pass.head = info[m].pass.head
    BY <2>1, <1>6, Zenon DEF Holds
  <2>2. CASE rec.pass.head \in {NoPass, Wpa, Junk} \cup Psks
    BY <2>2, <1>6, TicketPassDistinct, Zenon
  <2>3. CASE /\ ticket \in [id : 1..MaxTicket, vlan : VlanArgs]
             /\ rec.pass.head = TicketPass(ticket.id) /\ ticket' = NoTicket
    BY <2>3, <1>6, TicketPassDistinct, Zenon
  <2> QED
    BY <1>5, <2>1, <2>2, <2>3, Zenon DEF PassSaved
<1>7. \A d \in Macs, id \in 1..MaxTicket :
        Holds(d, id)' => \/ Holds(d, id)
                         \/ d = m /\ id = ticket.id /\ ticket' = NoTicket
  BY <1>4, <1>6, Zenon
<1> QED
  BY <1>5, <1>7, TicketIds DEF TicketInv

LEMMA TicketKeeps ==
  ASSUME TypeOK, TicketInv, UNCHANGED <<recVars, dbVars>>, TicketKept \/ TicketNew
  PROVE  TicketInv'
<1>1. \A m \in Macs, id \in 1..MaxTicket : Holds(m, id)' => Holds(m, id)
  BY Zenon DEF Holds, recVars, dbVars
<1>2. CASE TicketKept
  BY <1>1, <1>2, TicketIds DEF TicketInv, TicketKept
<1>3. CASE TicketNew
  <2>1. tickets' = tickets + 1 /\ (ticket'.id = -1 \/ ticket'.id = tickets + 1)
    BY <1>3, TicketIds, Zenon DEF TicketNew
  <2> QED
    BY <1>1, <2>1, TicketIds DEF TicketInv
<1> QED
  BY <1>2, <1>3, Zenon

LEMMA TicketRestart ==
  ASSUME TypeOK, TicketInv, run_ctl
  PROVE  TicketInv'
<1>1. init_default_mac_info.pass.head = NoPass
  BY Zenon DEF init_default_mac_info, Empty
<1>2. \A m \in Macs : get_sqlite_macconn_entry(store[m]).pass = store[m].pass
  BY Zenon DEF get_sqlite_macconn_entry
<1>3. \A m \in Macs : info'[m].pass.head \in {store[m].pass.head, NoPass}
  BY <1>1, <1>2, RestartEffect, Zenon
<1>4. \A m \in Macs, id \in 1..MaxTicket : Holds(m, id)' => Holds(m, id)
  BY <1>3, TicketPassDistinct, RestartEffect, Zenon DEF Holds
<1> QED
  BY <1>4, RestartEffect, TicketIds DEF TicketInv

(* A ticket admits one device, for any number of tickets, devices and      *)
(* faults: get_mac_conn_cmd frees the ticket whether or not the save       *)
(* succeeds, and a row read back after a restart is of the same device.    *)
THEOREM TicketSingleUseHolds == Spec => []TicketSingleUse
<1>1. Init => TicketInv
  <2> SUFFICES ASSUME Init PROVE TicketInv
    BY Zenon
  <2>1. init_default_mac_info.pass = Empty /\ Row(init_default_mac_info).pass.head = NoPass
    BY Zenon DEF init_default_mac_info, Row, Empty
  <2>2. \A m \in Macs, id \in 1..MaxTicket : ~Holds(m, id)
    BY <2>1, TicketPassDistinct DEF Init, Holds, Empty
  <2> QED
    BY <2>2 DEF Init, TicketInv, NoTicket
<1>2. TypeOK /\ TicketInv /\ [Next]_vars => TicketInv'
  <2> SUFFICES ASSUME TypeOK, TicketInv, [Next]_vars PROVE TicketInv'
    BY Zenon
  <2>1. CASE UNCHANGED <<recVars, dbVars, ticketVars, runVars, faults>>
    BY <2>1, TicketKeeps, Zenon DEF TicketKept, ticketVars
  <2> QED
    BY <2>1, TicketSaves, TicketKeeps, TicketRestart, NextRecordStep, Zenon DEF RecordStep, KeepsRecords
<1>3. TypeOK /\ TicketInv => TicketSingleUse
  BY Zenon DEF TicketInv, TicketSingleUse, Holds, TypeOK
<1> QED
  BY <1>1, <1>2, <1>3, TypeCorrect, PTL DEF Spec

-----------------------------------------------------------------------------
(***************************************************************************)
(* Capture threads.                                                        *)
(***************************************************************************)

(* A handler that grants nothing leaves the threads alone.                 *)
LEMMA CaptureKept ==
  ASSUME CapturedOnce, UNCHANGED <<threads, conf>>, DOMAIN granted = Macs,
         \/ granted' = granted
         \/ \E m \in Macs : granted' = [granted EXCEPT ![m] = NoGrant]
  PROVE  CapturedOnce'
<1>1. \A v \in ConfVlans : v # NoGrant
  BY DistinctAssumption, Zenon
<1>2. \A v \in ConfVlans, m \in Macs : granted'[m] = v => granted[m] = v
  BY <1>1, Zenon
<1>3. exec_capture' = exec_capture
  BY Zenon DEF exec_capture
<1> QED
  BY <1>2, <1>3, Zenon DEF CapturedOnce

(* save_device_vlan starts the thread of a VLAN before it is granted.      *)
LEMMA CaptureConn ==
  ASSUME TypeOK, CapturedOnce, NEW m \in Macs, get_mac_conn_cmd(m)
  PROVE  CapturedOnce'
<1>1. UNCHANGED conf /\ DOMAIN granted = Macs
  BY Zenon DEF get_mac_conn_cmd, runVars, TypeOK
<1>2. CASE Refused(m)
  BY <1>1, <1>2, CaptureKept, Zenon DEF get_mac_conn_cmd
<1>3. CASE ~Refused(m)
  <2>1. PICK rec \in ConnRecords(m), ok \in BOOLEAN, f \in 0..1 :
          /\ save_device_vlan(m, rec, ok, f)
          /\ granted' = [granted EXCEPT ![m] = IF ok THEN rec.vlan ELSE NoGrant]
    BY <1>3, Zenon DEF get_mac_conn_cmd
  <2>2. threads \in [ConfVlans -> Nat] /\ exec_capture' = exec_capture
    BY <1>1, Zenon DEF TypeOK, exec_capture
  <2>3. CASE ~exec_capture
    <3>1. threads' = threads
      BY <2>1, <2>3, Zenon DEF save_device_vlan
    <3> QED
      BY <2>2, <2>3, <3>1, Zenon DEF CapturedOnce
  <2>4. CASE exec_capture /\ rec.vlan \notin ConfVlans
    <3>1. threads' = threads /\ ~ok
      BY <2>1, <2>4, Zenon DEF save_device_vlan
    <3> QED
      BY <1>1, <2>1, <3>1, CaptureKept, Zenon
  <2>5. CASE exec_capture /\ rec.vlan \in ConfVlans
    <3>1. threads' \in {threads, schedule_analyser(rec.vlan)}
      BY <2>1, <2>5, Zenon DEF save_device_vlan
    <3>2. ok => threads' = schedule_analyser(rec.vlan)
      BY <2>1, <2>5, Zenon DEF save_device_vlan
    <3>3. /\ \A v \in ConfVlans : threads'[v] <= 1 /\ (threads[v] = 1 => threads'[v] = 1)
          /\ ok => threads'[rec.vlan] = 1
      <4>1. \A v \in ConfVlans : threads[v] <= 1 /\ threads[v] \in Nat
        BY <2>2, Zenon DEF CapturedOnce
      <4> DEFINE after == schedule_analyser(rec.vlan)
      <4>2. \A v \in ConfVlans : after[v] = IF v = rec.vlan /\ threads[v] = 0 THEN 1 ELSE threads[v]
        BY <2>2, <2>5, Zenon DEF schedule_analyser
      <4> HIDE DEF after
      <4>3. \A v \in ConfVlans : after[v] <= 1 /\ (threads[v] = 1 => after[v] = 1)
        BY <4>1, <4>2
      <4>4. after[rec.vlan] = 1
        BY <2>5, <4>1, <4>2
      <4> QED
        BY <3>1, <3>2, <4>1, <4>3, <4>4, Zenon DEF after
    <3>4. \A v \in ConfVlans, d \in Macs :
            granted'[d] = v => granted[d] = v \/ (ok /\ v = rec.vlan)
      BY <1>1, <2>1, DistinctAssumption, Zenon
    <3> QED
      BY <2>5, <3>3, <3>4, Zenon DEF CapturedOnce
  <2> QED
    BY <2>3, <2>4, <2>5, Zenon
<1> QED
  BY <1>2, <1>3, Zenon

LEMMA CaptureNext ==
  ASSUME TypeOK, CapturedOnce, [Next]_vars
  PROVE  CapturedOnce'
<1>1. DOMAIN granted = Macs
  BY Zenon DEF TypeOK
<1>2. ASSUME run_ctl PROVE CapturedOnce'
  BY <1>2, DistinctAssumption DEF run_ctl, CapturedOnce
<1>3. ASSUME AccessNext PROVE CapturedOnce'
  <2>1. ASSUME NEW m \in Macs,
               \/ \E v \in VlanArgs : accept_mac_cmd(m, v)
               \/ deny_mac_cmd(m)
               \/ \E p \in Psks : assign_psk_cmd(m, p)
               \/ clear_psk_cmd(m)
               \/ \E s \in ApEvents : ap_service_callback(m, s)
        PROVE  CapturedOnce'
    <3>1. UNCHANGED <<threads, conf>>
      BY <2>1, Zenon DEF accept_mac_cmd, deny_mac_cmd, assign_psk_cmd, clear_psk_cmd,
                         ap_service_callback, SaveOnly, runVars
    <3>2. granted' = granted \/ granted' = [granted EXCEPT ![m] = NoGrant]
      BY <2>1, Zenon DEF accept_mac_cmd, deny_mac_cmd, assign_psk_cmd, clear_psk_cmd,
                         ap_service_callback
    <3> QED
      BY <1>1, <3>1, <3>2, CaptureKept, Zenon
  <2>2. ASSUME (\E v \in VlanArgs : register_ticket_cmd(v)) \/ eloop_ticket_timeout_handler
        PROVE  CapturedOnce'
    <3>1. UNCHANGED <<threads, conf, granted>>
      BY <2>2, Zenon DEF register_ticket_cmd, eloop_ticket_timeout_handler, authVars, runVars
    <3> QED
      BY <1>1, <3>1, CaptureKept, Zenon
  <2> QED
    BY <1>2, <1>3, <2>1, <2>2, CaptureConn, Zenon DEF AccessNext
<1>4. ASSUME NetworkNext PROVE CapturedOnce'
  <2>1. UNCHANGED <<authVars, runVars>> \/ run_ctl
    BY <1>4, Zenon DEF NetworkNext, add_nat_cmd, remove_nat_cmd, nat_cmd, add_bridge_ip_cmd,
         bridge_exists, add_bridge_mac_cmd, remove_bridge_cmd, clear_bridges_cmd, set_ip_add, set_ip_del, set_ip
  <2>2. ASSUME UNCHANGED <<authVars, runVars>> PROVE UNCHANGED <<threads, conf, granted>>
    BY <2>2, Zenon DEF authVars, runVars
  <2> QED
    BY <1>1, <1>2, <2>1, <2>2, CaptureKept, Zenon
<1>5. ASSUME UNCHANGED vars PROVE CapturedOnce'
  BY <1>1, <1>5, CaptureKept, Zenon DEF vars, authVars, runVars
<1> QED
  BY <1>3, <1>4, <1>5, Zenon DEF Next

(* Admitted devices are captured, for any number of VLANs and devices:     *)
(* schedule_analyser starts a thread only for a VLAN that has none, and    *)
(* get_mac_conn_cmd grants no VLAN whose thread could not be started.      *)
THEOREM CapturedOnceHolds == Spec => []CapturedOnce
<1>1. Init => CapturedOnce
  BY DistinctAssumption DEF Init, CapturedOnce
<1>2. TypeOK /\ CapturedOnce /\ [Next]_vars => CapturedOnce'
  BY CaptureNext, Zenon
<1> QED
  BY <1>1, <1>2, TypeCorrect, PTL DEF Spec
=============================================================================
