------------------------ MODULE SupervisorRuleProofs ------------------------
(***************************************************************************)
(* The rules, for any set of devices and IPs: as long as nothing has       *)
(* failed and every listing of a chain came in one read(), the firewall    *)
(* holds the rules that the records and the bridge list justify and no     *)
(* others; and an add that is answered OK has its rules in place.          *)
(*                                                                         *)
(* A removal takes out one copy of a rule, so the invariant also says that *)
(* there is never more than the one copy that an add puts in.              *)
(***************************************************************************)
EXTENDS SupervisorProofs

RuleInv ==
  faults = 0 /\ cuts = 0 =>
    \A r \in FwRules : fw[r] <= Times(r) /\ (fw[r] > 0 => Justified(r))

-----------------------------------------------------------------------------
(***************************************************************************)
(* Rules.                                                                  *)
(***************************************************************************)

(* The IPs of a device.                                                    *)
LEMMA IpsType ==
  ASSUME TypeOK, NEW d \in Macs
  PROVE  IpsOf(d) \subseteq Ips
<1>1. info[d] \in Infos
  BY Zenon DEF TypeOK
<1> QED
  BY <1>1, Zenon DEF IpsOf, Infos

(* A rule is determined by its kind and its two ends.                      *)
LEMMA RuleShape ==
  ASSUME NEW r \in FwRules
  PROVE  \/ \E i \in Ips : r \in NatRules(i)
         \/ \E i, j \in Ips : r = Fwd(i, j)
BY DEF FwRules, BridgeRules

LEMMA NatRuleJustified ==
  ASSUME NEW i \in Ips, NEW r \in NatRules(i)
  PROVE  Justified(r) <=> HasNat(i)
<1>1. i # Wan
  BY WanAssumption, Zenon
<1> QED
  BY <1>1 DEF NatRules, Fwd, Masq, Justified

LEMMA BridgeRuleJustified ==
  ASSUME NEW i \in Ips, NEW j \in Ips
  PROVE  Justified(Fwd(i, j)) <=> Bridged(i, j)
<1>1. i # Wan /\ j # Wan
  BY WanAssumption, Zenon
<1> QED
  BY <1>1, Zenon DEF Fwd, Justified

(* The same of the next state.                                             *)
LEMMA NatJustifies ==
  ASSUME NEW i \in Ips, NEW r \in NatRules(i), HasNat(i)'
  PROVE  Justified(r)'
<1>1. i # Wan
  BY WanAssumption, Zenon
<1> QED
  BY <1>1 DEF NatRules, Fwd, Masq, Justified

LEMMA BridgeJustifies ==
  ASSUME NEW i \in Ips, NEW j \in Ips, Bridged(i, j)'
  PROVE  Justified(Fwd(i, j))'
<1>1. i # Wan /\ j # Wan
  BY WanAssumption, Zenon
<1> QED
  BY <1>1, Zenon DEF Fwd, Justified

(* A rule stays justified when records and bridges are only added to.      *)
LEMMA StaysJustified ==
  ASSUME TypeOK, NEW r, Justified(r),
         mapped \subseteq mapped', bridges \subseteq bridges',
         \A d \in Macs : (info[d].nat => info'[d].nat) /\ IpsOf(d) \subseteq IpsOf(d)'
  PROVE  Justified(r)'
<1>1. ASSUME NEW i, HasNat(i) PROVE HasNat(i)'
  <2>1. PICK m \in mapped : info[m].nat /\ i \in IpsOf(m)
    BY <1>1, Zenon DEF HasNat
  <2>2. m \in mapped' /\ info'[m].nat /\ i \in IpsOf(m)'
    BY <2>1, Zenon DEF TypeOK
  <2> QED
    BY <2>2, Zenon DEF HasNat
<1>2. ASSUME NEW i, NEW j, Bridged(i, j) PROVE Bridged(i, j)'
  <2>1. PICK e \in bridges : i \in IpsOf(e[1]) /\ j \in IpsOf(e[2])
    BY <1>2, Zenon DEF Bridged
  <2>2. e \in bridges' /\ i \in IpsOf(e[1])' /\ j \in IpsOf(e[2])'
    BY <2>1, Zenon DEF TypeOK
  <2> QED
    BY <2>2, Zenon DEF Bridged
<1> QED
  BY <1>1, <1>2, Zenon DEF Justified

-----------------------------------------------------------------------------
(***************************************************************************)
(* What calls that succeed do to a rule.                                   *)
(***************************************************************************)

LEMMA AddEffect ==
  ASSUME NEW count \in [FwRules -> Nat], NEW calls, NEW J, NEW r \in FwRules,
         count[r] <= Times(r)
  PROVE  LET after == Apply(TRUE, count, calls, J)
         IN  /\ after[r] <= Times(r)
             /\ after[r] > 0 => count[r] > 0 \/ \E j \in J : r \in calls[j]
BY TimesType DEF Apply, Added

LEMMA Subtract ==
  ASSUME NEW c \in Nat, NEW n \in Nat, NEW t \in Nat, c <= t,
         NEW a, a = IF c > n THEN c - n ELSE 0
  PROVE  a <= t /\ (a > 0 => c > 0 /\ ~(n >= t))
OBVIOUS

LEMMA RemoveEffect ==
  ASSUME NEW count \in [FwRules -> Nat], NEW calls, NEW J, IsFiniteSet(J),
         NEW r \in FwRules, count[r] <= Times(r)
  PROVE  LET after == Apply(FALSE, count, calls, J)
         IN  /\ after[r] <= Times(r)
             /\ after[r] > 0 => count[r] > 0 /\ \A j \in J : r \notin calls[j]
<1> DEFINE Hits == {j \in J : r \in calls[j]}
<1>1. IsFiniteSet(Hits)
  BY FS_Subset, Zenon
<1>2. Cardinality(Hits) \in Nat /\ (Cardinality(Hits) = 0 <=> Hits = {})
  BY <1>1, FS_CardinalityType, FS_EmptySet, Zenon
<1>3. Copies(calls, J, r) = Times(r) * Cardinality(Hits)
  BY Zenon DEF Copies
<1>4. Copies(calls, J, r) \in Nat /\ (Hits # {} => Copies(calls, J, r) >= Times(r))
  <2> HIDE DEF Hits
  <2>1. Times(r) = 1 \/ Times(r) = 2
    BY TimesType, Zenon
  <2> QED
    BY <1>2, <1>3, <2>1
<1>5. Apply(FALSE, count, calls, J)[r] =
        IF count[r] > Copies(calls, J, r) THEN count[r] - Copies(calls, J, r) ELSE 0
  BY Zenon DEF Apply
<1>6. /\ Apply(FALSE, count, calls, J)[r] <= Times(r)
      /\ Apply(FALSE, count, calls, J)[r] > 0 => count[r] > 0 /\ Hits = {}
  <2>1. count[r] \in Nat /\ Times(r) \in Nat
    BY TimesType
  <2> HIDE DEF Hits
  <2>3. /\ Apply(FALSE, count, calls, J)[r] <= Times(r)
        /\ Apply(FALSE, count, calls, J)[r] > 0
             => count[r] > 0 /\ ~(Copies(calls, J, r) >= Times(r))
    BY <1>4, <1>5, <2>1, Subtract, Zenon
  <2> QED
    BY <1>4, <2>3, Zenon
<1> QED
  BY <1>6, Zenon

(* A listing that was seen in part is counted.                             *)
LEMMA CutCounts ==
  ASSUME TypeOK, cuts' = 0
  PROVE  ~Cut
BY DEF TypeOK, Cut

(* Without a fault and with listings that fit a handler's calls succeed.   *)
LEMMA NoFault ==
  ASSUME TypeOK, cuts' = 0, NEW add, NEW calls, NEW ok, FwCalls(add, calls, ok, 0)
  PROVE  ok /\ cuts = 0 /\ fw' = Apply(add, fw, calls, DOMAIN calls)
<1>1. ~Cut /\ 0 # 1
  BY CutCounts
<1> QED
  BY <1>1, Zenon DEF FwCalls

(***************************************************************************)
(* The rules of the calls of a handler.                                    *)
(***************************************************************************)
LEMMA NatCallRules ==
  ASSUME TypeOK, NEW m \in Macs, NEW r
  PROVE  (\E j \in DOMAIN NatCalls(m) : r \in NatCalls(m)[j])
           <=> \E i \in IpsOf(m) : r \in NatRules(i)
<1>1. DOMAIN NatCalls(m) = {1, 2}
  BY DEF NatCalls
<1>2. NatCalls(m)[1] = NatCall(info[m].ip) /\ NatCalls(m)[2] = NatCall(info[m].ip_sec)
  BY Zenon DEF NatCalls
<1> QED
  BY <1>1, <1>2, Zenon DEF NatCall, IpsOf

LEMMA BridgeCallRules ==
  ASSUME TypeOK, NEW l \in Macs, NEW d \in Macs, NEW r
  PROVE  /\ DOMAIN BridgeCalls(l, d) = 1..4
         /\ (\E k \in 1..4 : r \in BridgeCalls(l, d)[k])
              <=> \E i \in IpsOf(l), j \in IpsOf(d) : r \in BridgeRules(i, j)
<1> DEFINE b == BridgeCalls(l, d)
<1>1. /\ b[1] = BridgeCall(info[l].ip, info[d].ip)
      /\ b[2] = BridgeCall(info[l].ip, info[d].ip_sec)
      /\ b[3] = BridgeCall(info[l].ip_sec, info[d].ip)
      /\ b[4] = BridgeCall(info[l].ip_sec, info[d].ip_sec)
      /\ DOMAIN b = 1..4
  BY DEF BridgeCalls
<1>2. (\E k \in 1..4 : r \in b[k]) <=> r \in b[1] \/ r \in b[2] \/ r \in b[3] \/ r \in b[4]
  <2>1. 1..4 = {1, 2, 3, 4}
    OBVIOUS
  <2> HIDE DEF b
  <2> QED
    BY <2>1, Zenon
<1>3. \A x, y : r \in BridgeCall(x, y) <=> x # NoIp /\ y # NoIp /\ r \in BridgeRules(x, y)
  BY Zenon DEF BridgeCall
<1>4. (r \in b[1] \/ r \in b[2] \/ r \in b[3] \/ r \in b[4])
        <=> \E i \in IpsOf(l), j \in IpsOf(d) : r \in BridgeRules(i, j)
  <2> HIDE DEF b
  <2> QED
    BY <1>1, <1>3 DEF IpsOf
<1> QED
  BY <1>1, <1>2, <1>4, Zenon

Calls(calls, r) == \E j \in DOMAIN calls : r \in calls[j]

IpRule(rec, ip, S, r) ==
  \/ rec.nat /\ r \in NatRules(ip)
  \/ \E d \in S : \E i \in IpsOf(d) : r \in BridgeRules(ip, i)

LEMMA IpCallRules ==
  ASSUME TypeOK, NEW rec \in Infos, NEW m, NEW ip \in Ips,
         NEW S \in SUBSET Macs, NEW s \in Orders(S), NEW r
  PROVE  Calls(IpCalls(rec, m, ip, s), r) <=> IpRule(rec, ip, S, r)
<1>1. ip # NoIp
  BY SupervisorAssumption, Zenon
<1>2. IsFiniteSet(S) /\ Cardinality(S) \in Nat
  BY SupervisorAssumption, FS_Subset, FS_CardinalityType, Zenon
<1> DEFINE n == Cardinality(S)
           Peer(j) == info[s[(j + 1) \div 2]]
           Call(j) == BridgeCall(ip, IF j % 2 = 1 THEN Peer(j).ip ELSE Peer(j).ip_sec)
           Nats == IF rec.nat THEN NatCall(ip) ELSE {}
           rest == [j \in 1..(2 * n) |-> Call(j)]
<1>3. s \in [1..n -> S] /\ Len(s) = n /\ {s[k] : k \in DOMAIN s} = S
  BY <1>2 DEF Orders
<1>4. IpCalls(rec, m, ip, s) = <<Nats>> \o rest
  BY <1>3, Zenon DEF IpCalls
<1>5. rest \in Seq({Call(j) : j \in 1..(2 * n)}) /\ Len(rest) = 2 * n
  <2> 2 * n \in Nat
    BY <1>2
  <2> HIDE DEF Call, n
  <2> QED
    OBVIOUS
<1>6. (\E j \in DOMAIN IpCalls(rec, m, ip, s) : r \in IpCalls(rec, m, ip, s)[j])
        <=> r \in Nats \/ \E j \in 1..(2 * n) : r \in Call(j)
  <2>1. DOMAIN (<<Nats>> \o rest) = 1..(2 * n + 1)
    <3> HIDE DEF rest, Nats, n
    <3> QED
      BY <1>2, <1>5 DEF n
  <2>2. (<<Nats>> \o rest)[1] = Nats
    <3> HIDE DEF rest, Nats, n
    <3> QED
      BY <1>2, <1>5 DEF n
  <2>3. \A j \in 1..(2 * n) : (<<Nats>> \o rest)[j + 1] = Call(j)
    <3>1. \A j \in 1..(2 * n) : rest[j] = Call(j)
      BY Zenon
    <3> HIDE DEF rest, Nats, Call
    <3> QED
      BY <1>2, <1>5, <3>1, SMTT(60)
  <2>4. \A j \in 1..(2 * n + 1) : j = 1 \/ (j - 1 \in 1..(2 * n) /\ (j - 1) + 1 = j)
    BY <1>2
  <2>5. 1 \in 1..(2 * n + 1) /\ \A j \in 1..(2 * n) : j + 1 \in 1..(2 * n + 1)
    BY <1>2
  <2> DEFINE q == <<Nats>> \o rest
  <2> HIDE DEF rest, Nats, Call, n
  <2>6. ASSUME NEW j \in DOMAIN q, r \in q[j]
        PROVE  r \in Nats \/ \E k \in 1..(2 * n) : r \in Call(k)
    <3>1. CASE j = 1
      BY <2>2, <2>6, <3>1, Zenon
    <3>2. CASE j # 1
      <4>1. j - 1 \in 1..(2 * n) /\ (j - 1) + 1 = j
        BY <2>1, <2>4, <3>2, Zenon
      <4>2. q[j] = Call(j - 1)
        BY <2>3, <4>1, Zenon
      <4> QED
        BY <2>6, <4>1, <4>2, Zenon
    <3> QED
      BY <3>1, <3>2, Zenon
  <2>7. ASSUME r \in Nats PROVE \E j \in DOMAIN q : r \in q[j]
    BY <2>1, <2>2, <2>5, <2>7, Zenon
  <2>8. ASSUME NEW k \in 1..(2 * n), r \in Call(k) PROVE \E j \in DOMAIN q : r \in q[j]
    BY <2>1, <2>3, <2>5, <2>8, Zenon
  <2> HIDE DEF q
  <2>9. (\E j \in DOMAIN q : r \in q[j]) <=> r \in Nats \/ \E j \in 1..(2 * n) : r \in Call(j)
    BY <2>6, <2>7, <2>8, Zenon
  <2>10. IpCalls(rec, m, ip, s) = q
    BY <1>4, Zenon DEF q
  <2> QED
    BY <2>9, <2>10, Zenon
<1>7. r \in Nats <=> rec.nat /\ r \in NatRules(ip)
  BY <1>1, Zenon DEF NatCall
<1>8. \A x : r \in BridgeCall(ip, x) <=> x # NoIp /\ r \in BridgeRules(ip, x)
  BY <1>1, Zenon DEF BridgeCall
<1>9. (\E j \in 1..(2 * n) : r \in Call(j))
        <=> \E d \in S : \E i \in IpsOf(d) : r \in BridgeRules(ip, i)
  <2>1. ASSUME NEW j \in 1..(2 * n), r \in Call(j)
        PROVE  \E d \in S : \E i \in IpsOf(d) : r \in BridgeRules(ip, i)
    <3>1. (j + 1) \div 2 \in 1..n
      BY <1>2
    <3>2. s[(j + 1) \div 2] \in S
      BY <1>3, <3>1, Zenon
    <3> QED
      BY <2>1, <3>2, <1>8, Zenon DEF IpsOf
  <2>2. ASSUME NEW d \in S, NEW i \in IpsOf(d), r \in BridgeRules(ip, i)
        PROVE  \E j \in 1..(2 * n) : r \in Call(j)
    <3>1. PICK k \in 1..n : s[k] = d
      BY <1>3, Zenon
    <3>2. /\ 2 * k \in 1..(2 * n) /\ 2 * k - 1 \in 1..(2 * n)
          /\ (2 * k + 1) \div 2 = k /\ (2 * k) % 2 = 0
          /\ ((2 * k - 1) + 1) \div 2 = k /\ (2 * k - 1) % 2 = 1
      BY <1>2
    <3>3. Call(2 * k) = BridgeCall(ip, info[d].ip_sec)
      BY <3>1, <3>2, SMTT(60)
    <3>4. Call(2 * k - 1) = BridgeCall(ip, info[d].ip)
      BY <3>1, <3>2, Zenon
    <3>5. i # NoIp /\ i \in {info[d].ip, info[d].ip_sec}
      BY <2>2, Zenon DEF IpsOf
    <3> HIDE DEF Call
    <3> QED
      BY <1>8, <2>2, <3>2, <3>3, <3>4, <3>5, Zenon
  <2> HIDE DEF Call, n
  <2> QED
    BY <2>1, <2>2, Zenon
<1> HIDE DEF Call, n, Nats
<1> QED
  BY <1>6, <1>7, <1>9, Zenon DEF Calls, IpRule

-----------------------------------------------------------------------------
(***************************************************************************)
(* The handlers.                                                           *)
(***************************************************************************)
LEMMA FaultFree ==
  ASSUME TypeOK, NEW n \in Nat, Faults(n), faults' = 0
  PROVE  n = 0 /\ faults = 0
BY DEF TypeOK, Faults

(* A save without a fault succeeds.                                        *)
LEMMA SaveFaultFree ==
  ASSUME NEW m, NEW rec, NEW ok, save_mac_mapper(m, rec, ok, 0)
  PROVE  ok
BY DEF save_mac_mapper, save_sqlite_macconn_entry

(* Changing the NAT flag of a record changes nothing else.                 *)
LEMMA NatUpdate ==
  ASSUME TypeOK, NEW m \in Macs, NEW add,
         info' = [info EXCEPT ![m] = [info[m] EXCEPT !.nat = add]]
  PROVE  /\ info'[m].nat = add
         /\ \A d \in Macs : (d # m => info'[d].nat = info[d].nat) /\ IpsOf(d)' = IpsOf(d)
<1>1. info \in [Macs -> Infos] /\ info[m] \in Infos
  BY Zenon DEF TypeOK
<1> DEFINE rec == [info[m] EXCEPT !.nat = add]
<1>2. rec.nat = add /\ rec.ip = info[m].ip /\ rec.ip_sec = info[m].ip_sec
  BY <1>1, Zenon DEF Infos
<1>3. info'[m] = rec /\ \A d \in Macs \ {m} : info'[d] = info[d]
  BY <1>1, Zenon
<1> HIDE DEF rec
<1> QED
  BY <1>2, <1>3, Zenon DEF IpsOf

(* The connectivity part of a record.                                      *)
SameLinks(rec, m) ==
  rec.nat = info[m].nat /\ rec.ip = info[m].ip /\ rec.ip_sec = info[m].ip_sec

(* A handler that leaves the firewall and the connectivity alone.          *)
QuietStep ==
  /\ faults' = 0 => faults = 0
  /\ UNCHANGED <<fw, cuts, bridges, exclusive>>
  /\ mapped \subseteq mapped'
  /\ \A d \in Macs : SameLinks(info'[d], d)

LEMMA QuietRules ==
  ASSUME TypeOK, RuleInv, QuietStep
  PROVE  RuleInv'
<1> SUFFICES ASSUME faults' = 0, cuts' = 0, NEW r \in FwRules
             PROVE  fw'[r] <= Times(r) /\ (fw'[r] > 0 => Justified(r)')
  BY Zenon DEF RuleInv
<1>1. fw[r] <= Times(r) /\ (fw[r] > 0 => Justified(r))
  BY Zenon DEF RuleInv, QuietStep
<1>2. \A d \in Macs : (info[d].nat => info'[d].nat) /\ IpsOf(d) \subseteq IpsOf(d)'
  BY Zenon DEF QuietStep, SameLinks, IpsOf
<1>3. UNCHANGED <<fw, bridges>> /\ mapped \subseteq mapped'
  BY Zenon DEF QuietStep
<1> QED
  BY <1>1, <1>2, <1>3, StaysJustified, Zenon

LEMMA SaveQuiet ==
  ASSUME TypeOK, NEW n \in Nat, Faults(n), UNCHANGED <<fw, cuts, bridges, exclusive>>,
         NEW m \in Macs, NEW rec \in Infos, SameLinks(rec, m), NEW ok, NEW f,
         save_mac_mapper(m, rec, ok, f) \/ UNCHANGED recVars
  PROVE  QuietStep
<1>1. mapped \subseteq mapped' /\ \A d \in Macs : SameLinks(info'[d], d)
  BY Zenon DEF save_mac_mapper, SameLinks, TypeOK, recVars
<1> QED
  BY <1>1, FaultsGrow, Zenon DEF QuietStep

LEMMA SaveOnlyQuiet ==
  ASSUME TypeOK, NEW m \in Macs, NEW rec \in Infos, SameLinks(rec, m),
         SaveOnly(m, rec)
  PROVE  QuietStep
<1>1. PICK ok \in BOOLEAN, f \in 0..1 : Faults(f) /\ save_mac_mapper(m, rec, ok, f)
  BY Zenon DEF SaveOnly
<1>2. f \in Nat /\ UNCHANGED <<fw, cuts, bridges, exclusive>>
  BY DEF SaveOnly
<1> QED
  BY <1>1, <1>2, SaveQuiet, Zenon

LEMMA RecordCommandsQuiet ==
  ASSUME TypeOK, NEW m \in Macs,
         \/ \E v \in VlanArgs : accept_mac_cmd(m, v)
         \/ deny_mac_cmd(m)
         \/ \E p \in Psks : assign_psk_cmd(m, p)
         \/ clear_psk_cmd(m)
         \/ \E s \in ApEvents : ap_service_callback(m, s)
  PROVE  QuietStep
<1>1. info[m] \in Infos /\ info[m].pass \in Buffers
  BY Zenon DEF TypeOK, Infos
<1>3. /\ Empty \in Buffers
      /\ \A p \in Psks : Written(info[m].pass, p) \in Buffers
  BY <1>1, WrittenType, SMTT(60) DEF Infos, Empty, Buffers, Passwords
<1>4. ASSUME NEW v \in VlanArgs, accept_mac_cmd(m, v) PROVE QuietStep
  <2>1. [info[m] EXCEPT !.allow = TRUE, !.vlan = v] \in Infos
    BY <1>1, Zenon DEF Infos, Vlans
  <2>2. SameLinks([info[m] EXCEPT !.allow = TRUE, !.vlan = v], m)
    BY <1>1, Zenon DEF Infos, SameLinks
  <2> QED
    BY <1>4, <2>1, <2>2, SaveOnlyQuiet, Zenon DEF accept_mac_cmd
<1>5. ASSUME deny_mac_cmd(m) PROVE QuietStep
  <2>1. [info[m] EXCEPT !.allow = FALSE] \in Infos /\ SameLinks([info[m] EXCEPT !.allow = FALSE], m)
    BY <1>1, Zenon DEF Infos, SameLinks
  <2> QED
    BY <1>5, <2>1, SaveOnlyQuiet, Zenon DEF deny_mac_cmd
<1>6. ASSUME NEW p \in Psks, assign_psk_cmd(m, p) PROVE QuietStep
  <2>1. /\ [info[m] EXCEPT !.pass = Written(@, p)] \in Infos
        /\ SameLinks([info[m] EXCEPT !.pass = Written(@, p)], m)
    BY <1>1, <1>3, Zenon DEF Infos, SameLinks
  <2> QED
    BY <1>6, <2>1, SaveOnlyQuiet, Zenon DEF assign_psk_cmd
<1>7. ASSUME clear_psk_cmd(m) PROVE QuietStep
  <2>1. /\ [info[m] EXCEPT !.pass = Empty] \in Infos
        /\ SameLinks([info[m] EXCEPT !.pass = Empty], m)
    BY <1>1, <1>3, Zenon DEF Infos, SameLinks
  <2> QED
    BY <1>7, <2>1, SaveOnlyQuiet, Zenon DEF clear_psk_cmd
<1>8. ASSUME NEW s \in ApEvents, ap_service_callback(m, s) PROVE QuietStep
  <2>1. /\ [info[m] EXCEPT !.status = s] \in Infos
        /\ SameLinks([info[m] EXCEPT !.status = s], m)
    BY <1>1, Zenon DEF Infos, SameLinks, Statuses
  <2> QED
    BY <1>8, <2>1, SaveOnlyQuiet, Zenon DEF ap_service_callback
<1> QED
  BY <1>4, <1>5, <1>6, <1>7, <1>8, Zenon

(* A RADIUS request does not touch the connectivity of a record.           *)
LEMMA ConnLinks ==
  ASSUME TypeOK, NEW m \in Macs, NEW rec \in ConnRecords(m)
  PROVE  SameLinks(rec, m)
<1>1. info[m] \in Infos
  BY Zenon DEF TypeOK
<1>2. \A v, p : SameLinks([info[m] EXCEPT !.allow = TRUE, !.vlan = v, !.pass = Written(@, p)], m)
  BY <1>1, Zenon DEF SameLinks, Infos
<1>3. \A v, p : SameLinks([info[m] EXCEPT !.vlan = v, !.pass = Written(@, p)], m)
  BY <1>1, Zenon DEF SameLinks, Infos
<1>4. SameLinks(info[m], m)
  BY Zenon DEF SameLinks
<1>5. NoTicket # Dangling
  BY DEF NoTicket, Dangling
<1>6. ASSUME rec \in TicketRecords(m)
      PROVE  \E v, p : rec = [info[m] EXCEPT !.allow = TRUE, !.vlan = v, !.pass = Written(@, p)]
  <2>1. CASE ticket = NoTicket
    BY <1>5, <1>6, <2>1, Zenon DEF TicketRecords
  <2>2. CASE ticket = Dangling
    BY <1>5, <1>6, <2>2, Zenon DEF TicketRecords
  <2>3. CASE ticket \notin {NoTicket, Dangling}
    BY <1>6, <2>3, Zenon DEF TicketRecords
  <2> QED
    BY <2>1, <2>2, <2>3, Zenon
<1>7. CASE rec \in TicketRecords(m)
  <2>1. PICK v, p : rec = [info[m] EXCEPT !.allow = TRUE, !.vlan = v, !.pass = Written(@, p)]
    BY <1>6, <1>7, Zenon
  <2>2. SameLinks([info[m] EXCEPT !.allow = TRUE, !.vlan = v, !.pass = Written(@, p)], m)
    BY <1>2, Zenon
  <2> QED
    BY <2>1, <2>2, Zenon
<1>8. CASE rec = info[m]
  BY <1>4, <1>8, Zenon
<1>9. CASE rec = [info[m] EXCEPT !.vlan = IF m \in mapped THEN @ ELSE AllocVlan[m],
                                 !.pass = Written(@, Wpa)]
  <2>1. PICK v : v = IF m \in mapped THEN info[m].vlan ELSE AllocVlan[m]
    BY Zenon
  <2>2. rec = [info[m] EXCEPT !.vlan = v, !.pass = Written(@, Wpa)]
    BY <1>9, <2>1, Zenon
  <2> QED
    BY <1>3, <2>2, Zenon
<1> QED
  BY <1>7, <1>8, <1>9, Zenon DEF ConnRecords

LEMMA ConnQuiet ==
  ASSUME TypeOK, NEW m \in Macs, get_mac_conn_cmd(m)
  PROVE  QuietStep
<1>1. UNCHANGED <<fw, cuts, bridges, exclusive>>
  BY Zenon DEF get_mac_conn_cmd
<1>2. CASE Refused(m)
  <2>1. UNCHANGED <<recVars, faults>>
    BY <1>2, Zenon DEF get_mac_conn_cmd
  <2>2. mapped \subseteq mapped' /\ \A d \in Macs : SameLinks(info'[d], d)
    BY <2>1, Zenon DEF recVars, SameLinks
  <2> QED
    BY <1>1, <2>1, <2>2, Zenon DEF QuietStep
<1>3. CASE ~Refused(m)
  <2>1. PICK rec \in ConnRecords(m), ok \in BOOLEAN, f \in 0..1 :
          Faults(f) /\ save_device_vlan(m, rec, ok, f)
    BY <1>3, Zenon DEF get_mac_conn_cmd
  <2>2. rec \in Infos /\ SameLinks(rec, m) /\ f \in Nat
    BY ConnType, ConnLinks
  <2>3. save_mac_mapper(m, rec, ok, f) \/ UNCHANGED recVars
    BY <2>1, Zenon DEF save_device_vlan
  <2> QED
    BY <1>1, <2>1, <2>2, <2>3, SaveQuiet, Zenon
<1> QED
  BY <1>2, <1>3, Zenon

LEMMA TicketQuiet ==
  ASSUME TypeOK,
         (\E v \in VlanArgs : register_ticket_cmd(v)) \/ eloop_ticket_timeout_handler
  PROVE  QuietStep
<1>1. UNCHANGED <<fw, cuts, bridges, exclusive, recVars>>
  BY Zenon DEF register_ticket_cmd, eloop_ticket_timeout_handler, netVars
<1>2. mapped \subseteq mapped' /\ \A d \in Macs : SameLinks(info'[d], d)
  BY <1>1, Zenon DEF recVars, SameLinks
<1>3. faults' = 0 => faults = 0
  BY FaultsGrow, Zenon DEF register_ticket_cmd, eloop_ticket_timeout_handler
<1> QED
  BY <1>1, <1>2, <1>3, Zenon DEF QuietStep

LEMMA ExistsQuiet ==
  ASSUME TypeOK, NEW l, NEW d, bridge_exists(l, d)
  PROVE  QuietStep
<1>1. UNCHANGED <<fw, cuts, bridges, exclusive, recVars>>
  BY Zenon DEF bridge_exists
<1>2. mapped \subseteq mapped' /\ \A x \in Macs : SameLinks(info'[x], x)
  BY <1>1, Zenon DEF recVars, SameLinks
<1>3. faults' = 0 => faults = 0
  BY FaultsGrow, Zenon DEF bridge_exists
<1> QED
  BY <1>1, <1>2, <1>3, Zenon DEF QuietStep

LEMMA AddNatRules ==
  ASSUME TypeOK, RuleInv, NEW m \in Macs, add_nat_cmd(m)
  PROVE  RuleInv'
<1> SUFFICES ASSUME faults' = 0, cuts' = 0, NEW r \in FwRules
             PROVE  fw'[r] <= Times(r) /\ (fw'[r] > 0 => Justified(r)')
  BY Zenon DEF RuleInv
<1>1. PICK ok \in BOOLEAN, saved \in BOOLEAN, f \in 0..1, g \in 0..1 :
        /\ Faults(f + g)
        /\ FwCalls(TRUE, NatCalls(m), ok, f)
        /\ IF ok THEN save_mac_mapper(m, [info[m] EXCEPT !.nat = TRUE], saved, g)
                 ELSE ~saved /\ g = 0 /\ UNCHANGED <<recVars, dbVars>>
  BY Zenon DEF add_nat_cmd, nat_cmd
<1>2. f = 0 /\ g = 0 /\ faults = 0
  <2>1. f + g \in Nat
    OBVIOUS
  <2>2. Faults(f + g)
    BY <1>1, Zenon
  <2>3. f + g = 0 /\ faults = 0
    BY <2>1, <2>2, FaultFree, Zenon
  <2> QED
    BY <2>3
<1>3. ok /\ cuts = 0 /\ fw' = Apply(TRUE, fw, NatCalls(m), DOMAIN NatCalls(m))
  BY <1>1, <1>2, NoFault, Zenon
<1>4. /\ mapped' = mapped \cup {m}
      /\ info' = [info EXCEPT ![m] = [info[m] EXCEPT !.nat = TRUE]]
      /\ bridges' = bridges
  BY <1>1, <1>3, Zenon DEF save_mac_mapper, add_nat_cmd, nat_cmd
<1>5. info'[m].nat /\ \A d \in Macs : (info[d].nat => info'[d].nat) /\ IpsOf(d)' = IpsOf(d)
  BY <1>4, NatUpdate, Zenon
<1>6. fw[r] <= Times(r) /\ (fw[r] > 0 => Justified(r)) /\ fw \in [FwRules -> Nat]
  BY <1>2, <1>3, Zenon DEF RuleInv, TypeOK
<1>7. /\ fw'[r] <= Times(r)
      /\ fw'[r] > 0 => fw[r] > 0 \/ \E j \in DOMAIN NatCalls(m) : r \in NatCalls(m)[j]
  BY <1>3, <1>6, AddEffect, Zenon
<1>8. ASSUME Justified(r) PROVE Justified(r)'
  BY <1>4, <1>5, <1>8, StaysJustified, Zenon
<1>9. ASSUME NEW j \in DOMAIN NatCalls(m), r \in NatCalls(m)[j] PROVE Justified(r)'
  <2>1. PICK i \in IpsOf(m) : r \in NatRules(i)
    BY <1>9, NatCallRules, Zenon
  <2>2. i \in Ips
    BY <2>1, IpsType, Zenon
  <2>3. m \in mapped' /\ info'[m].nat /\ i \in IpsOf(m)'
    BY <1>4, <1>5, <2>1, Zenon
  <2>4. HasNat(i)'
    BY <2>3, Zenon DEF HasNat
  <2> QED
    BY <2>1, <2>2, <2>4, NatJustifies, Zenon
<1> QED
  BY <1>6, <1>7, <1>8, <1>9, Zenon

LEMMA RemoveNatRules ==
  ASSUME TypeOK, RuleInv, NEW m \in Macs, remove_nat_cmd(m)
  PROVE  RuleInv'
<1> SUFFICES ASSUME faults' = 0, cuts' = 0, NEW r \in FwRules
             PROVE  fw'[r] <= Times(r) /\ (fw'[r] > 0 => Justified(r)')
  BY Zenon DEF RuleInv
<1>1. PICK ok \in BOOLEAN, saved \in BOOLEAN, f \in 0..1, g \in 0..1 :
        /\ Faults(f + g)
        /\ FwCalls(FALSE, NatCalls(m), ok, f)
        /\ IF ok THEN save_mac_mapper(m, [info[m] EXCEPT !.nat = FALSE], saved, g)
                 ELSE ~saved /\ g = 0 /\ UNCHANGED <<recVars, dbVars>>
  BY Zenon DEF remove_nat_cmd, nat_cmd
<1>2. f = 0 /\ g = 0 /\ faults = 0
  <2>1. f + g \in Nat
    OBVIOUS
  <2>2. Faults(f + g)
    BY <1>1, Zenon
  <2>3. f + g = 0 /\ faults = 0
    BY <2>1, <2>2, FaultFree, Zenon
  <2> QED
    BY <2>3
<1>3. ok /\ cuts = 0 /\ fw' = Apply(FALSE, fw, NatCalls(m), DOMAIN NatCalls(m))
  BY <1>1, <1>2, NoFault, Zenon
<1>4. /\ mapped' = mapped \cup {m}
      /\ info' = [info EXCEPT ![m] = [info[m] EXCEPT !.nat = FALSE]]
      /\ bridges' = bridges
  BY <1>1, <1>3, Zenon DEF save_mac_mapper, remove_nat_cmd, nat_cmd
<1>5. \A d \in Macs : (d # m => info'[d].nat = info[d].nat) /\ IpsOf(d)' = IpsOf(d)
  BY <1>4, NatUpdate, Zenon
<1>6. fw[r] <= Times(r) /\ (fw[r] > 0 => Justified(r)) /\ fw \in [FwRules -> Nat]
  BY <1>2, <1>3, Zenon DEF RuleInv, TypeOK
<1>7. IsFiniteSet(DOMAIN NatCalls(m))
  <2> NatCalls(m) \in Seq(SUBSET FwRules) /\ 1 \in Int
    BY TypeParts, CallSeqs, SMTT(60)
  <2> QED
    BY FS_Interval
<1>8. /\ fw'[r] <= Times(r)
      /\ fw'[r] > 0 => fw[r] > 0 /\ \A j \in DOMAIN NatCalls(m) : r \notin NatCalls(m)[j]
  BY <1>3, <1>6, <1>7, RemoveEffect, Zenon
<1>9. ASSUME Justified(r), \A i \in IpsOf(m) : r \notin NatRules(i) PROVE Justified(r)'
  <2>1. ASSUME NEW i \in Ips, r \in NatRules(i) PROVE Justified(r)'
    <3>1. PICK d \in mapped : info[d].nat /\ i \in IpsOf(d)
      BY <1>9, <2>1, NatRuleJustified, Zenon DEF HasNat
    <3>2. d # m /\ d \in Macs
      BY <1>9, <2>1, <3>1, Zenon DEF TypeOK
    <3>3. HasNat(i)'
      BY <1>4, <1>5, <3>1, <3>2, Zenon DEF HasNat
    <3> QED
      BY <2>1, <3>3, NatJustifies, Zenon
  <2>2. ASSUME NEW i \in Ips, NEW j \in Ips, r = Fwd(i, j) PROVE Justified(r)'
    <3>1. PICK e \in bridges : i \in IpsOf(e[1]) /\ j \in IpsOf(e[2])
      BY <1>9, <2>2, BridgeRuleJustified, Zenon DEF Bridged
    <3>2. e \in bridges' /\ i \in IpsOf(e[1])' /\ j \in IpsOf(e[2])'
      BY <1>4, <1>5, <3>1, Zenon DEF TypeOK
    <3>3. Bridged(i, j)'
      BY <3>2, Zenon DEF Bridged
    <3> QED
      BY <2>2, <3>3, BridgeJustifies, Zenon
  <2> QED
    BY <2>1, <2>2, RuleShape, Zenon
<1> QED
  BY <1>6, <1>8, <1>9, NatCallRules, Zenon

LEMMA AddBridgeRules ==
  ASSUME TypeOK, RuleInv, NEW l \in Macs, NEW d \in Macs, add_bridge_mac_cmd(l, d)
  PROVE  RuleInv'
<1> SUFFICES ASSUME faults' = 0, cuts' = 0, NEW r \in FwRules
             PROVE  fw'[r] <= Times(r) /\ (fw'[r] > 0 => Justified(r)')
  BY Zenon DEF RuleInv
<1>1. PICK ok \in BOOLEAN, f \in 0..1 : Faults(f) /\ FwCalls(TRUE, BridgeCalls(l, d), ok, f)
  BY Zenon DEF add_bridge_mac_cmd
<1>2. f = 0 /\ faults = 0
  <2> f \in Nat
    OBVIOUS
  <2> QED
    BY <1>1, FaultFree, Zenon
<1>3. cuts = 0 /\ fw' = Apply(TRUE, fw, BridgeCalls(l, d), 1..4)
  BY <1>1, <1>2, NoFault, BridgeCallRules, Zenon
<1>4. mapped' = mapped /\ info' = info /\ bridges' = bridges \cup Edges(l, d)
  BY Zenon DEF add_bridge_mac_cmd, recVars
<1>5. \A x \in Macs : (info[x].nat => info'[x].nat) /\ IpsOf(x)' = IpsOf(x)
  BY <1>4, Zenon DEF IpsOf
<1>6. fw[r] <= Times(r) /\ (fw[r] > 0 => Justified(r)) /\ fw \in [FwRules -> Nat]
  BY <1>2, <1>3, Zenon DEF RuleInv, TypeOK
<1>7. /\ fw'[r] <= Times(r)
      /\ fw'[r] > 0 => fw[r] > 0 \/ \E k \in 1..4 : r \in BridgeCalls(l, d)[k]
  BY <1>3, <1>6, AddEffect, Zenon
<1>8. ASSUME Justified(r) PROVE Justified(r)'
  BY <1>4, <1>5, <1>8, StaysJustified, Zenon
<1>9. ASSUME NEW k \in 1..4, r \in BridgeCalls(l, d)[k] PROVE Justified(r)'
  <2>1. PICK i \in IpsOf(l), j \in IpsOf(d) : r \in BridgeRules(i, j)
    BY <1>9, BridgeCallRules, Zenon
  <2>2. i \in Ips /\ j \in Ips
    BY <2>1, IpsType, Zenon
  <2>3. <<l, d>> \in bridges' /\ <<d, l>> \in bridges'
    BY <1>4, Zenon DEF Edges
  <2>4. Bridged(i, j)' /\ Bridged(j, i)'
    BY <1>5, <2>1, <2>3, Zenon DEF Bridged
  <2> QED
    BY <2>1, <2>2, <2>4, BridgeJustifies, Zenon DEF BridgeRules
<1> QED
  BY <1>6, <1>7, <1>8, <1>9, Zenon

(* Removing bridges leaves no rule without one: a rule that the calls did  *)
(* not take out is justified by a bridge that was not removed.             *)
LEMMA RemovedBridges ==
  ASSUME TypeOK, UNCHANGED recVars, NEW r \in FwRules, Justified(r),
         NEW gone, bridges' = bridges \ gone,
         \A e \in bridges \cap gone : \A i \in IpsOf(e[1]), j \in IpsOf(e[2]) : r # Fwd(i, j)
  PROVE  Justified(r)'
<1>1. mapped' = mapped /\ info' = info /\ \A x : IpsOf(x)' = IpsOf(x)
  BY Zenon DEF recVars, IpsOf
<1>2. ASSUME NEW i \in Ips, r \in NatRules(i) PROVE Justified(r)'
  <2>1. HasNat(i)'
    BY <1>1, <1>2, NatRuleJustified, Zenon DEF HasNat
  <2> QED
    BY <1>2, <2>1, NatJustifies, Zenon
<1>3. ASSUME NEW i \in Ips, NEW j \in Ips, r = Fwd(i, j) PROVE Justified(r)'
  <2>1. PICK e \in bridges : i \in IpsOf(e[1]) /\ j \in IpsOf(e[2])
    BY <1>3, BridgeRuleJustified, Zenon DEF Bridged
  <2>2. e \in bridges'
    BY <1>3, <2>1, Zenon
  <2>3. Bridged(i, j)'
    BY <1>1, <2>1, <2>2, Zenon DEF Bridged
  <2> QED
    BY <1>3, <2>3, BridgeJustifies, Zenon
<1> QED
  BY <1>2, <1>3, RuleShape, Zenon

LEMMA RemoveBridgeRules ==
  ASSUME TypeOK, RuleInv, NEW l \in Macs, NEW d \in Macs, remove_bridge_cmd(l, d)
  PROVE  RuleInv'
<1> SUFFICES ASSUME faults' = 0, cuts' = 0, NEW r \in FwRules
             PROVE  fw'[r] <= Times(r) /\ (fw'[r] > 0 => Justified(r)')
  BY Zenon DEF RuleInv
<1>1. PICK ok \in BOOLEAN, f \in 0..1 : Faults(f) /\ FwCalls(FALSE, BridgeCalls(l, d), ok, f)
  BY Zenon DEF remove_bridge_cmd
<1>2. f = 0 /\ faults = 0
  <2> f \in Nat
    OBVIOUS
  <2> QED
    BY <1>1, FaultFree, Zenon
<1>3. cuts = 0 /\ fw' = Apply(FALSE, fw, BridgeCalls(l, d), 1..4)
  BY <1>1, <1>2, NoFault, BridgeCallRules, Zenon
<1>4. UNCHANGED recVars /\ bridges' = bridges \ Edges(l, d)
  BY Zenon DEF remove_bridge_cmd
<1>5. fw[r] <= Times(r) /\ (fw[r] > 0 => Justified(r)) /\ fw \in [FwRules -> Nat]
  BY <1>2, <1>3, Zenon DEF RuleInv, TypeOK
<1>6. IsFiniteSet(1..4)
  <2> 1 \in Int /\ 4 \in Int
    OBVIOUS
  <2> QED
    BY FS_Interval, Zenon
<1>7. /\ fw'[r] <= Times(r)
      /\ fw'[r] > 0 => fw[r] > 0 /\ \A k \in 1..4 : r \notin BridgeCalls(l, d)[k]
  BY <1>3, <1>5, <1>6, RemoveEffect, Zenon
<1>8. ASSUME fw'[r] > 0 PROVE Justified(r)'
  <2>1. Justified(r)
    BY <1>5, <1>7, <1>8, Zenon
  <2>2. \A i \in IpsOf(l), j \in IpsOf(d) : r # Fwd(i, j) /\ r # Fwd(j, i)
    BY <1>7, <1>8, BridgeCallRules, SMTT(60) DEF BridgeRules
  <2>3. \A e \in bridges \cap Edges(l, d) :
          \A i \in IpsOf(e[1]), j \in IpsOf(e[2]) : r # Fwd(i, j)
    BY <2>2 DEF Edges
  <2> QED
    BY <1>4, <2>1, <2>3, RemovedBridges, Zenon
<1> QED
  BY <1>7, <1>8, Zenon

LEMMA ClearRules ==
  ASSUME TypeOK, RuleInv, NEW m \in Macs, clear_bridges_cmd(m)
  PROVE  RuleInv'
<1> DEFINE gone == UNION {Edges(m, el) : el \in mapped}
<1> SUFFICES ASSUME faults' = 0, cuts' = 0, NEW r \in FwRules
             PROVE  fw'[r] <= Times(r) /\ (fw'[r] > 0 => Justified(r)')
  BY Zenon DEF RuleInv
<1>1. ~Faults(1)
  BY FaultFree
<1>2. faults = 0 /\ cuts = 0 /\ fw' = Apply(FALSE, fw, ClearCalls(m), mapped \X (1..4))
  BY <1>1, FaultFree, CutCounts, Zenon DEF clear_bridges_cmd
<1>3. UNCHANGED recVars /\ bridges' = bridges \ gone
  BY Zenon DEF clear_bridges_cmd
<1>4. fw[r] <= Times(r) /\ (fw[r] > 0 => Justified(r)) /\ fw \in [FwRules -> Nat]
  BY <1>2, <1>3, Zenon DEF RuleInv, TypeOK
<1>5. IsFiniteSet(mapped \X (1..4))
  <2>1. IsFiniteSet(mapped)
    BY SupervisorAssumption, FS_Subset, Zenon DEF TypeOK
  <2>2. 1 \in Int /\ 4 \in Int
    OBVIOUS
  <2>3. IsFiniteSet(1..4)
    BY <2>2, FS_Interval, Zenon
  <2> QED
    BY <2>1, <2>3, FS_Product, Zenon
<1>6. /\ fw'[r] <= Times(r)
      /\ fw'[r] > 0 => fw[r] > 0 /\ \A c \in mapped \X (1..4) : r \notin ClearCalls(m)[c]
  BY <1>2, <1>4, <1>5, RemoveEffect, Zenon
<1>7. ASSUME fw'[r] > 0 PROVE Justified(r)'
  <2>1. Justified(r)
    BY <1>4, <1>6, <1>7, Zenon
  <2>2. ASSUME NEW el \in mapped, NEW i \in IpsOf(m), NEW j \in IpsOf(el)
        PROVE  r # Fwd(i, j) /\ r # Fwd(j, i)
    <3>1. \A k \in 1..4 : <<el, k>> \in mapped \X (1..4)
      BY Zenon
    <3>2. \A k \in 1..4 : ClearCalls(m)[<<el, k>>] = BridgeCalls(m, el)[k]
      BY Zenon DEF ClearCalls
    <3>3. \A k \in 1..4 : r \notin BridgeCalls(m, el)[k]
      BY <1>6, <1>7, <3>1, <3>2, Zenon
    <3>4. el \in Macs
      BY Zenon DEF TypeOK
    <3> QED
      BY <3>3, <3>4, BridgeCallRules DEF BridgeRules
  <2>3. \A e \in bridges \cap gone :
          \A i \in IpsOf(e[1]), j \in IpsOf(e[2]) : r # Fwd(i, j)
    <3> SUFFICES ASSUME NEW e \in gone, NEW i \in IpsOf(e[1]), NEW j \in IpsOf(e[2])
                 PROVE  r # Fwd(i, j)
      BY Zenon
    <3>1. PICK el \in mapped : e \in Edges(m, el)
      BY Zenon
    <3> QED
      BY <2>2, <3>1 DEF Edges
  <2> HIDE DEF gone
  <2> QED
    BY <1>3, <2>1, <2>3, RemovedBridges, Zenon
<1> QED
  BY <1>6, <1>7, Zenon

(* Without a fault, set_ip saves the record and makes every call.          *)
LEMMA SetIpEffect ==
  ASSUME TypeOK, NEW m \in Macs, NEW ip \in Ips, NEW rec \in Infos, NEW add \in BOOLEAN,
         set_ip(m, ip, add, rec), faults' = 0, cuts' = 0
  PROVE  /\ faults = 0 /\ cuts = 0
         /\ mapped' = mapped \cup {m} /\ info' = [info EXCEPT ![m] = rec] /\ bridges' = bridges
         /\ \E s \in Orders(get_src_mac_list(m)) :
              fw' = Apply(add, fw, IpCalls(rec, m, ip, s), DOMAIN IpCalls(rec, m, ip, s))
<1>1. PICK s \in Orders(get_src_mac_list(m)), saved \in BOOLEAN, ok \in BOOLEAN,
           f \in 0..1, g \in 0..1, h \in 0..1 :
        /\ Faults(f + g + h)
        /\ save_mac_mapper(m, rec, saved, f)
        /\ IF saved /\ g = 0
             THEN FwCalls(add, IpCalls(rec, m, ip, s), ok, h)
             ELSE ~ok /\ h = 0 /\ UNCHANGED <<fw, cuts>>
  BY Zenon DEF set_ip
<1>2. f = 0 /\ g = 0 /\ h = 0 /\ faults = 0
  <2>1. f + g + h \in Nat
    OBVIOUS
  <2>2. f + g + h = 0 /\ faults = 0
    BY <1>1, <2>1, FaultFree, Zenon
  <2> QED
    BY <2>2
<1>3. saved
  BY <1>1, <1>2, SaveFaultFree, Zenon
<1>4. cuts = 0 /\ fw' = Apply(add, fw, IpCalls(rec, m, ip, s), DOMAIN IpCalls(rec, m, ip, s))
  BY <1>1, <1>2, <1>3, NoFault, Zenon
<1>5. mapped' = mapped \cup {m} /\ info' = [info EXCEPT ![m] = rec] /\ bridges' = bridges
  BY <1>1, Zenon DEF save_mac_mapper, set_ip
<1> QED
  BY <1>2, <1>4, <1>5, Zenon

(* The rules of an IP that comes are justified by the record and by the    *)
(* bridges of its device.                                                  *)
LEMMA IpComes ==
  ASSUME TypeOK, BridgesUndirected, NEW m \in Macs, NEW ip \in Ips, NEW rec \in Infos,
         mapped' = mapped \cup {m}, info' = [info EXCEPT ![m] = rec], bridges' = bridges,
         ip \in IpsOf(m)', \A d \in Macs \ {m} : IpsOf(d)' = IpsOf(d),
         NEW r \in FwRules, IpRule(rec, ip, get_src_mac_list(m), r)
  PROVE  Justified(r)'
<1>1. ASSUME rec.nat, r \in NatRules(ip) PROVE Justified(r)'
  <2>1. info'[m].nat /\ m \in mapped'
    BY <1>1, Zenon DEF TypeOK
  <2>2. HasNat(ip)'
    BY <2>1, Zenon DEF HasNat
  <2> QED
    BY <1>1, <2>2, NatJustifies, Zenon
<1>2. ASSUME NEW d \in get_src_mac_list(m), NEW i \in IpsOf(d), r \in BridgeRules(ip, i)
      PROVE  Justified(r)'
  <2>1. d \in Macs /\ <<m, d>> \in bridges
    BY <1>2, Zenon DEF get_src_mac_list
  <2>2. <<d, m>> \in bridges /\ d # m
    BY <2>1, Zenon DEF BridgesUndirected
  <2>3. i \in Ips /\ i \in IpsOf(d)'
    BY <1>2, <2>1, <2>2, IpsType, Zenon
  <2>4. Bridged(ip, i)' /\ Bridged(i, ip)'
    BY <2>1, <2>2, <2>3, Zenon DEF Bridged
  <2>5. r = Fwd(ip, i) \/ r = Fwd(i, ip)
    BY <1>2, Zenon DEF BridgeRules
  <2> QED
    BY <2>3, <2>4, <2>5, BridgeJustifies, Zenon
<1> QED
  BY <1>1, <1>2, Zenon DEF IpRule

(* A rule that is not one of an IP that goes is justified by another       *)
(* device, or by the other IP of this one.                                 *)
LEMMA IpGoes ==
  ASSUME TypeOK, BridgesUndirected, NEW m \in Macs, NEW ip \in Ips, NEW rec \in Infos,
         rec.nat = info[m].nat,
         mapped' = mapped \cup {m}, info' = [info EXCEPT ![m] = rec], bridges' = bridges,
         \A i \in IpsOf(m) \ {ip} : i \in IpsOf(m)', \A d \in Macs \ {m} : IpsOf(d)' = IpsOf(d),
         NEW r \in FwRules, Justified(r), ~IpRule(rec, ip, get_src_mac_list(m), r)
  PROVE  Justified(r)'
<1>1. ~(rec.nat /\ r \in NatRules(ip))
  BY Zenon DEF IpRule
<1>2. \A d \in get_src_mac_list(m) : \A i \in IpsOf(d) : r # Fwd(ip, i) /\ r # Fwd(i, ip)
  BY Zenon DEF IpRule, BridgeRules
<1>3. ASSUME NEW i \in Ips, r \in NatRules(i) PROVE Justified(r)'
  <2>1. PICK d \in mapped : info[d].nat /\ i \in IpsOf(d)
    BY <1>3, NatRuleJustified, Zenon DEF HasNat
  <2>2. d \in Macs /\ (d = m => i # ip)
    BY <1>1, <1>3, <2>1, Zenon DEF TypeOK
  <2>3. i \in IpsOf(d)'
    BY <2>1, <2>2, Zenon
  <2>4. info'[d].nat /\ d \in mapped'
    BY <2>1, <2>2, Zenon DEF TypeOK
  <2>5. HasNat(i)'
    BY <2>3, <2>4, Zenon DEF HasNat
  <2> QED
    BY <1>3, <2>5, NatJustifies, Zenon
<1>4. ASSUME NEW i \in Ips, NEW j \in Ips, r = Fwd(i, j) PROVE Justified(r)'
  <2>1. PICK e \in bridges : i \in IpsOf(e[1]) /\ j \in IpsOf(e[2])
    BY <1>4, BridgeRuleJustified, Zenon DEF Bridged
  <2>2. e \in Macs \X Macs
    BY <2>1, Zenon DEF TypeOK
  <2>3. PICK a \in Macs, b \in Macs : e = <<a, b>>
    BY <2>2
  <2>4. i \in IpsOf(a) /\ j \in IpsOf(b) /\ <<a, b>> \in bridges
    BY <2>1, <2>3, Zenon
  <2>5. a # b /\ <<b, a>> \in bridges
    BY <2>4, Zenon DEF BridgesUndirected
  <2>6. a = m => i # ip
    BY <1>2, <1>4, <2>4, <2>5, Zenon DEF get_src_mac_list
  <2>7. b = m => j # ip
    BY <1>2, <1>4, <2>4, <2>5, Zenon DEF get_src_mac_list
  <2>8. i \in IpsOf(a)' /\ j \in IpsOf(b)'
    BY <2>4, <2>6, <2>7, Zenon
  <2>9. Bridged(i, j)'
    BY <2>4, <2>8, Zenon DEF Bridged
  <2> QED
    BY <1>4, <2>9, BridgeJustifies, Zenon
<1> QED
  BY <1>3, <1>4, RuleShape, Zenon

LEMMA SetIpAddRules ==
  ASSUME TypeOK, BridgesUndirected, RuleInv, NEW m \in Macs, NEW ip \in Ips, NEW rec \in Infos,
         rec.nat = info[m].nat, IpsOf(m) \subseteq {rec.ip, rec.ip_sec}, ip \in {rec.ip, rec.ip_sec},
         set_ip(m, ip, TRUE, rec)
  PROVE  RuleInv'
<1> SUFFICES ASSUME faults' = 0, cuts' = 0, NEW r \in FwRules
             PROVE  fw'[r] <= Times(r) /\ (fw'[r] > 0 => Justified(r)')
  BY Zenon DEF RuleInv
<1>1. /\ faults = 0 /\ cuts = 0
      /\ mapped' = mapped \cup {m} /\ info' = [info EXCEPT ![m] = rec] /\ bridges' = bridges
  BY SetIpEffect, Zenon
<1>2. PICK s \in Orders(get_src_mac_list(m)) :
        fw' = Apply(TRUE, fw, IpCalls(rec, m, ip, s), DOMAIN IpCalls(rec, m, ip, s))
  BY SetIpEffect, Zenon
<1>3. /\ \A d \in Macs : (info[d].nat => info'[d].nat) /\ IpsOf(d) \subseteq IpsOf(d)'
      /\ \A d \in Macs \ {m} : IpsOf(d)' = IpsOf(d)
      /\ ip \in IpsOf(m)'
  BY <1>1, SupervisorAssumption, Zenon DEF IpsOf, TypeOK
<1>4. fw[r] <= Times(r) /\ (fw[r] > 0 => Justified(r))
  BY <1>1, Zenon DEF RuleInv
<1>5. fw \in [FwRules -> Nat]
  BY Zenon DEF TypeOK
<1>6. /\ fw'[r] <= Times(r)
      /\ fw'[r] > 0 => fw[r] > 0 \/ Calls(IpCalls(rec, m, ip, s), r)
  BY <1>2, <1>4, <1>5, AddEffect, Zenon DEF Calls
<1>7. Justified(r) => Justified(r)'
  BY <1>1, <1>3, StaysJustified, Zenon
<1>8. get_src_mac_list(m) \in SUBSET Macs
  BY Zenon DEF get_src_mac_list
<1>9. Calls(IpCalls(rec, m, ip, s), r) <=> IpRule(rec, ip, get_src_mac_list(m), r)
  BY <1>8, IpCallRules, Zenon
<1>10. IpRule(rec, ip, get_src_mac_list(m), r) => Justified(r)'
  BY <1>1, <1>3, IpComes, Zenon
<1> QED
  BY <1>4, <1>6, <1>7, <1>9, <1>10, Zenon

LEMMA SetIpDelRules ==
  ASSUME TypeOK, BridgesUndirected, RuleInv, NEW m \in Macs, NEW ip \in Ips, NEW rec \in Infos,
         rec.nat = info[m].nat, IpsOf(m) \ {ip} \subseteq {rec.ip, rec.ip_sec},
         set_ip(m, ip, FALSE, rec)
  PROVE  RuleInv'
<1> SUFFICES ASSUME faults' = 0, cuts' = 0, NEW r \in FwRules
             PROVE  fw'[r] <= Times(r) /\ (fw'[r] > 0 => Justified(r)')
  BY Zenon DEF RuleInv
<1>1. /\ faults = 0 /\ cuts = 0
      /\ mapped' = mapped \cup {m} /\ info' = [info EXCEPT ![m] = rec] /\ bridges' = bridges
  BY SetIpEffect, Zenon
<1>2. PICK s \in Orders(get_src_mac_list(m)) :
        fw' = Apply(FALSE, fw, IpCalls(rec, m, ip, s), DOMAIN IpCalls(rec, m, ip, s))
  BY SetIpEffect, Zenon
<1>3. /\ \A d \in Macs \ {m} : IpsOf(d)' = IpsOf(d)
      /\ \A i \in IpsOf(m) \ {ip} : i \in IpsOf(m)'
  BY <1>1, Zenon DEF IpsOf, TypeOK
<1>4. fw[r] <= Times(r) /\ (fw[r] > 0 => Justified(r))
  BY <1>1, Zenon DEF RuleInv
<1>5. fw \in [FwRules -> Nat]
  BY Zenon DEF TypeOK
<1>6. get_src_mac_list(m) \in SUBSET Macs
  BY Zenon DEF get_src_mac_list
<1>7. Calls(IpCalls(rec, m, ip, s), r) <=> IpRule(rec, ip, get_src_mac_list(m), r)
  BY <1>6, IpCallRules, Zenon
<1> DEFINE calls == IpCalls(rec, m, ip, s)
<1>8. IsFiniteSet(DOMAIN calls)
  <2>1. calls \in Seq(SUBSET FwRules)
    BY <1>6, TypeParts, IpCallSeq, Zenon
  <2> HIDE DEF calls
  <2>2. DOMAIN calls = 1..Len(calls) /\ Len(calls) \in Int /\ 1 \in Int
    BY <2>1, SMTT(60)
  <2> QED
    BY <2>2, FS_Interval, Zenon
<1>9. /\ fw'[r] <= Times(r)
      /\ fw'[r] > 0 => fw[r] > 0 /\ ~Calls(calls, r)
  BY <1>2, <1>4, <1>5, <1>8, RemoveEffect, Zenon DEF Calls
<1>10. Justified(r) /\ ~IpRule(rec, ip, get_src_mac_list(m), r) => Justified(r)'
  BY <1>1, <1>3, IpGoes, Zenon
<1> QED
  BY <1>4, <1>7, <1>9, <1>10, Zenon

LEMMA RuleNext ==
  ASSUME TypeOK, BridgesUndirected, RuleInv, [Next]_vars
  PROVE  RuleInv'
<1>1. ASSUME run_ctl PROVE RuleInv'
  BY <1>1, TimesType DEF RuleInv, run_ctl, NoRules
<1>2. ASSUME AccessNext PROVE RuleInv'
  BY <1>1, <1>2, QuietRules, RecordCommandsQuiet, TicketQuiet, ConnQuiet, Zenon DEF AccessNext
<1>3. ASSUME NEW i \in Ips, NEW j \in Ips, add_bridge_ip_cmd(i, j) PROVE RuleInv'
  BY <1>3, AddBridgeRules, ExistsQuiet, QuietRules, Zenon DEF add_bridge_ip_cmd, get_ip_mapper, TypeOK
<1>4. ASSUME NEW m \in Macs, NEW i \in Ips, set_ip_add(m, i) PROVE RuleInv'
  <2> DEFINE rec == IF info[m].ip = NoIp THEN [info[m] EXCEPT !.ip = i]
                                         ELSE [info[m] EXCEPT !.ip_sec = i]
  <2>1. info[m] \in Infos /\ NoIp \in {info[m].ip, info[m].ip_sec}
    BY <1>4, Zenon DEF TypeOK, set_ip_add
  <2>2. rec \in Infos /\ rec.nat = info[m].nat /\ i \in {rec.ip, rec.ip_sec}
    BY <2>1, Zenon DEF Infos
  <2>3. IpsOf(m) \subseteq {rec.ip, rec.ip_sec}
    BY <2>1, Zenon DEF Infos, IpsOf
  <2>4. set_ip(m, i, TRUE, rec)
    BY <1>4, Zenon DEF set_ip_add
  <2> HIDE DEF rec
  <2> QED
    BY <2>2, <2>3, <2>4, SetIpAddRules, Zenon
<1>5. ASSUME NEW m \in Macs, NEW i \in Ips, set_ip_del(m, i) PROVE RuleInv'
  <2> DEFINE rec == [info[m] EXCEPT !.ip = IF @ = i THEN NoIp ELSE @,
                                    !.ip_sec = IF @ = i THEN NoIp ELSE @]
  <2>1. info[m] \in Infos
    BY Zenon DEF TypeOK
  <2>2. rec \in Infos /\ rec.nat = info[m].nat
    BY <2>1, Zenon DEF Infos
  <2>3. IpsOf(m) \ {i} \subseteq {rec.ip, rec.ip_sec}
    BY <2>1, Zenon DEF Infos, IpsOf
  <2>4. set_ip(m, i, FALSE, rec)
    BY <1>5, Zenon DEF set_ip_del
  <2> HIDE DEF rec
  <2> QED
    BY <2>2, <2>3, <2>4, SetIpDelRules, Zenon
<1>6. ASSUME NetworkNext PROVE RuleInv'
  BY <1>1, <1>3, <1>4, <1>5, <1>6, AddNatRules, RemoveNatRules, AddBridgeRules,
     RemoveBridgeRules, ClearRules, Zenon DEF NetworkNext
<1>7. ASSUME UNCHANGED vars PROVE RuleInv'
  <2>1. UNCHANGED <<faults, fw, cuts, bridges, exclusive, mapped, info>>
    BY <1>7, Zenon DEF vars, netVars, recVars
  <2>2. \A d \in Macs : SameLinks(info'[d], d)
    BY <2>1, Zenon DEF SameLinks
  <2> QED
    BY <2>1, <2>2, QuietRules, Zenon DEF QuietStep
<1> QED
  BY <1>2, <1>6, <1>7, Zenon DEF Next

(* No leftover access, for every number of devices and IPs: as long as no  *)
(* command, statement or thread start has failed and every listing came in *)
(* one read() of PIPE_BUF bytes (cuts = 0), each rule the firewall         *)
(* service left in the FORWARD and POSTROUTING chains is called for by a   *)
(* device with NAT or by a bridge of the list, after every SET_IP, NAT and *)
(* bridge command and every restart.                                       *)
THEOREM NoLeftoverRulesHolds == Spec => []NoLeftoverRules
<1>1. Init => RuleInv
  BY TimesType DEF Init, RuleInv, NoRules
<1>2. TypeOK /\ BridgesUndirected /\ RuleInv /\ [Next]_vars => RuleInv'
  BY RuleNext, Zenon
<1>3. RuleInv => NoLeftoverRules
  BY Zenon DEF RuleInv, NoLeftoverRules
<1> QED
  BY <1>1, <1>2, <1>3, TypeCorrect, BridgesUndirectedHolds, PTL DEF Spec

-----------------------------------------------------------------------------
(***************************************************************************)
(* What is answered OK holds.                                              *)
(***************************************************************************)

(* Adding keeps the rules that are there and puts in those it is asked for. *)
LEMMA AddKeeps ==
  ASSUME NEW count \in [FwRules -> Nat], NEW calls, NEW J, NEW r \in FwRules
  PROVE  LET after == Apply(TRUE, count, calls, J)
         IN  /\ count[r] > 0 => after[r] > 0
             /\ (\E j \in J : r \in calls[j]) => after[r] > 0
BY TimesType DEF Apply, Added

(* Adds that succeed leave every rule of every call in the firewall, though *)
(* a command of one of them has failed.                                    *)
LEMMA AddPresent ==
  ASSUME TypeOK, NEW calls \in Seq(SUBSET FwRules), NEW f, FwCalls(TRUE, calls, TRUE, f),
         NEW r \in FwRules, Calls(calls, r)
  PROVE  fw'[r] > 0
<1>1. fw \in [FwRules -> Nat]
  BY Zenon DEF TypeOK
<1>2. CASE fw' = Apply(TRUE, fw, calls, DOMAIN calls)
  BY <1>1, <1>2, AddKeeps, Zenon DEF Calls
<1>4. CASE fw' \in SomeMissed(TRUE, calls, DOMAIN calls)
  <2> DEFINE low == Apply(TRUE, fw, calls, DOMAIN calls)
  <2>1. IsFiniteSet(DOMAIN calls)
    BY FS_Interval
  <2>2. fw' \in [FwRules -> Nat] /\ low \in [FwRules -> Nat] /\ fw'[r] >= low[r]
    BY <1>1, <1>4, <2>1, MissedType, ApplyType, Zenon
  <2>3. low[r] > 0
    BY <1>1, AddKeeps, Zenon DEF Calls
  <2> HIDE DEF low
  <2> QED
    BY <2>2, <2>3
<1>3. ASSUME NEW i \in DOMAIN calls,
             NEW mid \in Outcomes(TRUE, calls[i], Apply(TRUE, fw, calls, 1..(i - 1)), TRUE),
             fw' = Apply(TRUE, mid, calls, (i + 1)..Len(calls))
      PROVE  fw'[r] > 0
  <2> DEFINE before == Apply(TRUE, fw, calls, 1..(i - 1))
  <2>1. i \in Int /\ IsFiniteSet(1..(i - 1))
    BY FS_Interval
  <2>2. before \in [FwRules -> Nat]
    BY <1>1, <2>1, ApplyType, Zenon
  <2>3. mid \in [FwRules -> Nat]
    BY <2>2, OutcomeType, Zenon
  <2>4. PICK j \in DOMAIN calls : r \in calls[j]
    BY Zenon DEF Calls
  <2>5. r \in calls[i] => mid[r] > 0
    <3>1. Promised(TRUE, calls[i], before, mid, TRUE)
      BY Zenon DEF Outcomes
    <3>2. r \in calls[i] => mid[r] >= Times(r)
      BY <3>1, Zenon DEF Promised
    <3> QED
      BY <2>3, <3>2, TimesType
  <2>6. r \notin calls[i] => mid[r] = before[r]
    BY Zenon DEF Outcomes
  <2>7. j \in 1..(i - 1) => before[r] > 0
    BY <1>1, <2>4, AddKeeps, Zenon
  <2>8. mid[r] > 0 \/ j \in (i + 1)..Len(calls)
    <3>1. j \in 1..(i - 1) \/ j = i \/ j \in (i + 1)..Len(calls)
      BY <2>1
    <3> QED
      BY <3>1, <2>4, <2>5, <2>6, <2>7, Zenon
  <2> QED
    BY <1>3, <2>3, <2>4, <2>8, AddKeeps, Zenon
<1> QED
  BY <1>2, <1>3, <1>4, Zenon DEF FwCalls

(* The rules of calls are firewall rules.                                  *)
LEMMA CallsRules ==
  ASSUME NEW calls \in Seq(SUBSET FwRules), NEW r, Calls(calls, r)
  PROVE  r \in FwRules
BY DEF Calls

(* What is answered.                                                       *)
LEMMA AnsweredHolds ==
  ASSUME NEW how, NEW R, applied' = Answered(how, R), \A r \in R : fw'[r] > 0
  PROVE  AddAnsweredOkHolds'
<1>1. applied' = <<>> \/ applied'[2] = R
  BY Zenon DEF Answered
<1> QED
  BY <1>1, Zenon DEF AddAnsweredOkHolds

LEMMA AppliedNat ==
  ASSUME TypeOK, NEW m \in Macs, add_nat_cmd(m)
  PROVE  AddAnsweredOkHolds'
<1>1. PICK ok \in BOOLEAN, saved \in BOOLEAN, f \in 0..1, g \in 0..1 :
        /\ FwCalls(TRUE, NatCalls(m), ok, f)
        /\ IF ok THEN save_mac_mapper(m, [info[m] EXCEPT !.nat = TRUE], saved, g) ELSE ~saved
        /\ applied' = IF saved THEN Answered("called", NatOf(m)) ELSE <<>>
  BY Zenon DEF add_nat_cmd, nat_cmd
<1>2. CASE saved
  <2>1. ok
    BY <1>1, <1>2, Zenon
  <2>2. NatCalls(m) \in Seq(SUBSET FwRules)
    BY TypeParts, CallSeqs, Zenon
  <2>3. ASSUME NEW r \in NatOf(m) PROVE fw'[r] > 0
    <3>1. PICK i \in IpsOf(m) : r \in NatRules(i)
      BY <2>3, Zenon DEF NatOf
    <3>2. Calls(NatCalls(m), r)
      BY <3>1, NatCallRules, Zenon DEF Calls
    <3>3. r \in FwRules
      BY <2>2, <3>2, CallsRules, Zenon
    <3> QED
      BY <1>1, <2>1, <2>2, <3>2, <3>3, AddPresent, Zenon
  <2> QED
    BY <1>1, <1>2, <2>3, AnsweredHolds, Zenon
<1>3. CASE ~saved
  BY <1>1, <1>3, Zenon DEF AddAnsweredOkHolds
<1> QED
  BY <1>2, <1>3, Zenon

LEMMA AppliedBridge ==
  ASSUME TypeOK, NEW l \in Macs, NEW d \in Macs, add_bridge_mac_cmd(l, d)
  PROVE  AddAnsweredOkHolds'
<1>1. PICK ok \in BOOLEAN, f \in 0..1 :
        /\ FwCalls(TRUE, BridgeCalls(l, d), ok, f)
        /\ applied' = IF ok THEN Answered("called", BridgeOf(l, d)) ELSE <<>>
  BY Zenon DEF add_bridge_mac_cmd
<1>2. CASE ok
  <2>1. BridgeCalls(l, d) \in Seq(SUBSET FwRules)
    BY TypeParts, CallSeqs, Zenon
  <2>2. ASSUME NEW r \in BridgeOf(l, d) PROVE fw'[r] > 0
    <3>1. PICK i \in IpsOf(l), j \in IpsOf(d) : r \in BridgeRules(i, j)
      BY <2>2 DEF BridgeOf
    <3>2. Calls(BridgeCalls(l, d), r)
      BY <3>1, BridgeCallRules, Zenon DEF Calls
    <3>3. r \in FwRules
      BY <2>1, <3>2, CallsRules, Zenon
    <3> QED
      BY <1>1, <1>2, <2>1, <3>2, <3>3, AddPresent, Zenon
  <2> QED
    BY <1>1, <1>2, <2>2, AnsweredHolds, Zenon
<1>3. CASE ~ok
  BY <1>1, <1>3, Zenon DEF AddAnsweredOkHolds
<1> QED
  BY <1>2, <1>3, Zenon

(* An answer about a bridge that is listed is not one of a call.           *)
LEMMA AppliedExists ==
  ASSUME NEW l, NEW d, bridge_exists(l, d)
  PROVE  AddAnsweredOkHolds'
<1>1. applied' = Answered("exists", BridgeOf(l, d))
  BY Zenon DEF bridge_exists
<1>2. applied' = <<>> \/ applied'[1] = "exists"
  BY <1>1, Zenon DEF Answered
<1> QED
  BY <1>2 DEF AddAnsweredOkHolds

LEMMA AppliedNext ==
  ASSUME TypeOK, AddAnsweredOkHolds, [Next]_vars
  PROVE  AddAnsweredOkHolds'
<1>1. ASSUME applied' = <<>> PROVE AddAnsweredOkHolds'
  BY <1>1, Zenon DEF AddAnsweredOkHolds
<1>2. ASSUME UNCHANGED <<applied, fw>> PROVE AddAnsweredOkHolds'
  BY <1>2, Zenon DEF AddAnsweredOkHolds
<1>3. ASSUME AccessNext PROVE applied' = <<>> \/ UNCHANGED <<applied, fw>>
  BY <1>3, Zenon DEF AccessNext, accept_mac_cmd, deny_mac_cmd, assign_psk_cmd, clear_psk_cmd,
       ap_service_callback, SaveOnly, register_ticket_cmd, eloop_ticket_timeout_handler,
       get_mac_conn_cmd, run_ctl, netVars, recVars
<1>4. ASSUME NEW i \in Ips, NEW j \in Ips, add_bridge_ip_cmd(i, j) PROVE AddAnsweredOkHolds'
  BY <1>4, AppliedBridge, AppliedExists, Zenon DEF add_bridge_ip_cmd, get_ip_mapper, TypeOK
<1>5. ASSUME NEW m \in Macs, remove_nat_cmd(m) PROVE applied' = <<>>
  BY <1>5, Zenon DEF remove_nat_cmd, nat_cmd
<1>6. ASSUME \/ \E l, r \in Macs : remove_bridge_cmd(l, r)
             \/ \E m \in Macs : clear_bridges_cmd(m)
             \/ \E m \in Macs, i \in Ips : set_ip_add(m, i) \/ set_ip_del(m, i)
             \/ run_ctl
      PROVE  applied' = <<>>
  BY <1>6, Zenon DEF remove_bridge_cmd, clear_bridges_cmd, set_ip_add, set_ip_del, set_ip, run_ctl
<1>7. ASSUME NetworkNext PROVE AddAnsweredOkHolds'
  BY <1>1, <1>4, <1>5, <1>6, <1>7, AppliedNat, AppliedBridge, Zenon DEF NetworkNext
<1>8. ASSUME UNCHANGED vars PROVE UNCHANGED <<applied, fw>>
  BY <1>8, Zenon DEF vars, netVars, recVars
<1> QED
  BY <1>1, <1>2, <1>3, <1>7, <1>8, Zenon DEF Next

(* An add that is answered OK holds, whatever failed before and during it  *)
(* and however long the listings are, for every number of devices, IPs and *)
(* faults: add_nat_ip and add_bridge_ip stop at the first call that fails, *)
(* and a call answers 0 only with all its rules in place.                  *)
THEOREM AddAnsweredOkHoldsAlways == Spec => []AddAnsweredOkHolds
<1>1. Init => AddAnsweredOkHolds
  BY Zenon DEF Init, AddAnsweredOkHolds
<1>2. TypeOK /\ AddAnsweredOkHolds /\ [Next]_vars => AddAnsweredOkHolds'
  BY AppliedNext, Zenon
<1> QED
  BY <1>1, <1>2, TypeCorrect, PTL DEF Spec

-----------------------------------------------------------------------------
(***************************************************************************)
(* Nothing is missing.  The rules of an IP are removed with the device     *)
(* that gives it up, so the invariant also says that no other device has   *)
(* it: that is what exclusive stands for.                                  *)
(***************************************************************************)
Wanted(r) ==
  \/ \E d \in Macs : \E i \in IpsOf(d) : info[d].nat /\ r \in NatRules(i)
  \/ \E a, b \in Macs : \E i \in IpsOf(a), j \in IpsOf(b) : <<a, b>> \in bridges /\ r = Fwd(i, j)

Alone == \A a, b \in Macs : a # b => IpsOf(a) \cap IpsOf(b) = {}

MissingInv ==
  exclusive /\ faults = 0 /\ cuts = 0 => Alone /\ \A r \in FwRules : Wanted(r) => fw[r] > 0

(* What justifies a rule wants it: a rule of a NAT or of a bridge.         *)
LEMMA JustifiedWanted == TypeOK => \A r \in FwRules : Justified(r) => Wanted(r)
<1> SUFFICES ASSUME TypeOK, NEW r \in FwRules, Justified(r) PROVE Wanted(r)
  BY Zenon
<1>1. ASSUME NEW i \in Ips, r \in NatRules(i) PROVE Wanted(r)
  <2>1. PICK d \in mapped : info[d].nat /\ i \in IpsOf(d)
    BY <1>1, NatRuleJustified, Zenon DEF HasNat
  <2> QED
    BY <1>1, <2>1, Zenon DEF Wanted, TypeOK
<1>2. ASSUME NEW i \in Ips, NEW j \in Ips, r = Fwd(i, j) PROVE Wanted(r)
  <2>1. PICK e \in bridges : i \in IpsOf(e[1]) /\ j \in IpsOf(e[2])
    BY <1>2, BridgeRuleJustified, Zenon DEF Bridged
  <2>2. PICK a \in Macs, b \in Macs : e = <<a, b>>
    BY <2>1 DEF TypeOK
  <2>3. <<a, b>> \in bridges /\ i \in IpsOf(a) /\ j \in IpsOf(b)
    BY <2>1, <2>2, Zenon
  <2> QED
    BY <1>2, <2>3, Zenon DEF Wanted
<1> QED
  BY <1>1, <1>2, RuleShape, Zenon

(* The rules of NATs and of bridges have nothing in common, and different  *)
(* IPs have different ones.                                                *)
LEMMA RulesApart ==
  ASSUME NEW i \in Ips, NEW j \in Ips
  PROVE  /\ Fwd(i, j) \notin NatRules(i) /\ \A x \in Ips : Fwd(i, j) \notin NatRules(x)
         /\ i # j => NatRules(i) \cap NatRules(j) = {}
         /\ \A x, y \in Ips : Fwd(i, j) \in BridgeRules(x, y)
                                => (i = x /\ j = y) \/ (i = y /\ j = x)
         /\ \A x, y \in Ips : NatRules(i) \cap BridgeRules(x, y) = {}
<1>1. i # Wan /\ j # Wan /\ \A x \in Ips : x # Wan
  BY WanAssumption, Zenon
<1>2. \A a, b, x, y : Fwd(a, b) = Fwd(x, y) => a = x /\ b = y
  BY Zenon DEF Fwd
<1>3. \A a, b, x : Fwd(a, b) # Masq(x)
  BY Zenon DEF Fwd, Masq
<1>4. \A a, x : Masq(a) = Masq(x) => a = x
  BY Zenon DEF Masq
<1> QED
  BY <1>1, <1>2, <1>3, <1>4 DEF NatRules, BridgeRules

(* A removal leaves a rule in place that none of its calls is about.       *)
LEMMA RemoveKeeps ==
  ASSUME NEW count \in [FwRules -> Nat], NEW calls, NEW J, NEW r \in FwRules
  PROVE  LET after == Apply(FALSE, count, calls, J)
         IN  (\A j \in J : r \notin calls[j]) /\ count[r] > 0 => after[r] > 0
<1> SUFFICES ASSUME \A j \in J : r \notin calls[j], count[r] > 0
             PROVE  Apply(FALSE, count, calls, J)[r] > 0
  BY Zenon
<1>1. {j \in J : r \in calls[j]} = {}
  BY Zenon
<1>2. Cardinality({}) = 0
  BY FS_EmptySet, Zenon
<1>3. Copies(calls, J, r) = Times(r) * 0
  BY <1>1, <1>2, Zenon DEF Copies
<1>4. Times(r) \in Nat
  BY TimesType
<1>5. Copies(calls, J, r) = 0
  BY <1>3, <1>4
<1> QED
  BY <1>5 DEF Apply

(* A handler after which nothing is wanted that was not.                   *)
LEMMA MissingKept ==
  ASSUME TypeOK, MissingInv, exclusive' => exclusive,
         faults' = 0 /\ cuts' = 0 => faults = 0 /\ cuts = 0,
         \A d \in Macs : IpsOf(d)' \subseteq IpsOf(d) /\ (info'[d].nat => info[d].nat),
         bridges' \subseteq bridges,
         ASSUME exclusive', faults' = 0, cuts' = 0, Alone,
                NEW r \in FwRules, Wanted(r)', fw[r] > 0
         PROVE  fw'[r] > 0
  PROVE  MissingInv'
<1>1. ASSUME NEW r, Wanted(r)' PROVE Wanted(r)
  BY <1>1, Zenon DEF Wanted
<1>2. Alone => Alone'
  BY Zenon DEF Alone
<1> QED
  BY <1>1, <1>2, Zenon DEF MissingInv

LEMMA QuietMissing ==
  ASSUME TypeOK, MissingInv, QuietStep
  PROVE  MissingInv'
<1>1. exclusive' = exclusive /\ bridges' = bridges /\ fw' = fw
  BY Zenon DEF QuietStep
<1>2. faults' = 0 /\ cuts' = 0 => faults = 0 /\ cuts = 0
  BY Zenon DEF QuietStep
<1>3. \A d \in Macs : IpsOf(d)' \subseteq IpsOf(d) /\ (info'[d].nat => info[d].nat)
  BY Zenon DEF QuietStep, SameLinks, IpsOf
<1> QED
  BY <1>1, <1>2, <1>3, MissingKept, Zenon

LEMMA AddNatMissing ==
  ASSUME TypeOK, MissingInv, NEW m \in Macs, add_nat_cmd(m)
  PROVE  MissingInv'
<1> SUFFICES ASSUME exclusive', faults' = 0, cuts' = 0
             PROVE  Alone' /\ \A r \in FwRules : Wanted(r)' => fw'[r] > 0
  BY Zenon DEF MissingInv
<1>1. PICK ok \in BOOLEAN, saved \in BOOLEAN, f \in 0..1, g \in 0..1 :
        /\ Faults(f + g)
        /\ FwCalls(TRUE, NatCalls(m), ok, f)
        /\ ok => save_mac_mapper(m, [info[m] EXCEPT !.nat = TRUE], saved, g)
  BY Zenon DEF add_nat_cmd, nat_cmd
<1>2. f = 0 /\ faults = 0
  <2>1. f + g \in Nat
    OBVIOUS
  <2>2. f + g = 0 /\ faults = 0
    BY <1>1, <2>1, FaultFree, Zenon
  <2> QED
    BY <2>2
<1>3. ok /\ cuts = 0 /\ fw' = Apply(TRUE, fw, NatCalls(m), DOMAIN NatCalls(m))
  BY <1>1, <1>2, NoFault, Zenon
<1>4. /\ info' = [info EXCEPT ![m] = [info[m] EXCEPT !.nat = TRUE]]
      /\ bridges' = bridges /\ exclusive
  BY <1>1, <1>3, Zenon DEF save_mac_mapper, add_nat_cmd, nat_cmd
<1>5. \A d \in Macs : (d # m => info'[d].nat = info[d].nat) /\ IpsOf(d)' = IpsOf(d)
  BY <1>4, NatUpdate, Zenon
<1>6. Alone /\ \A r \in FwRules : Wanted(r) => fw[r] > 0
  BY <1>2, <1>3, <1>4, Zenon DEF MissingInv
<1>7. ASSUME NEW r \in FwRules, Wanted(r)' PROVE fw'[r] > 0
  <2>1. Wanted(r) \/ \E i \in IpsOf(m) : r \in NatRules(i)
    BY <1>4, <1>5, <1>7, Zenon DEF Wanted
  <2>2. fw \in [FwRules -> Nat]
    BY Zenon DEF TypeOK
  <2> QED
    BY <1>3, <1>6, <2>1, <2>2, NatCallRules, AddKeeps, Zenon
<1> QED
  BY <1>5, <1>6, <1>7, Zenon DEF Alone

LEMMA RemoveNatMissing ==
  ASSUME TypeOK, MissingInv, NEW m \in Macs, remove_nat_cmd(m)
  PROVE  MissingInv'
<1>1. PICK ok \in BOOLEAN, saved \in BOOLEAN, f \in 0..1, g \in 0..1 :
        /\ Faults(f + g)
        /\ FwCalls(FALSE, NatCalls(m), ok, f)
        /\ IF ok THEN save_mac_mapper(m, [info[m] EXCEPT !.nat = FALSE], saved, g)
                 ELSE UNCHANGED recVars
  BY Zenon DEF remove_nat_cmd, nat_cmd
<1>2. faults' = 0 => f = 0 /\ faults = 0
  <2>1. f + g \in Nat
    OBVIOUS
  <2>2. faults' = 0 => f + g = 0 /\ faults = 0
    BY <1>1, <2>1, FaultFree, Zenon
  <2> QED
    BY <2>2
<1>3. bridges' = bridges /\ exclusive' = exclusive
  BY Zenon DEF remove_nat_cmd, nat_cmd
<1>4. ok => info' = [info EXCEPT ![m] = [info[m] EXCEPT !.nat = FALSE]]
  BY <1>1, Zenon DEF save_mac_mapper
<1>5. /\ ok => ~info'[m].nat
      /\ \A d \in Macs : IpsOf(d)' = IpsOf(d) /\ (d # m => info'[d].nat = info[d].nat)
  <2>1. CASE ok
    BY <1>4, <2>1, NatUpdate, Zenon
  <2>2. CASE ~ok
    BY <1>1, <2>2, Zenon DEF recVars, IpsOf
  <2> QED
    BY <2>1, <2>2, Zenon
<1>6. \A d \in Macs : IpsOf(d)' \subseteq IpsOf(d) /\ (info'[d].nat => info[d].nat)
  <2>1. ~ok => info' = info
    BY <1>1, Zenon DEF recVars
  <2> QED
    BY <1>5, <2>1, Zenon
<1>7. ASSUME faults' = 0, cuts' = 0, Alone, NEW r \in FwRules, Wanted(r)', fw[r] > 0
      PROVE  fw'[r] > 0
  <2>1. ok /\ fw' = Apply(FALSE, fw, NatCalls(m), DOMAIN NatCalls(m))
    BY <1>1, <1>2, <1>7, NoFault, Zenon
  <2>2. \A i \in IpsOf(m) : r \notin NatRules(i)
    <3>1. ASSUME NEW d \in Macs, NEW i \in IpsOf(d), info'[d].nat, r \in NatRules(i)
          PROVE  \A x \in IpsOf(m) : r \notin NatRules(x)
      <4>1. d # m
        BY <1>5, <2>1, <3>1, Zenon
      <4>2. i \in Ips /\ IpsOf(m) \subseteq Ips /\ i \notin IpsOf(m)
        BY <1>7, <3>1, <4>1, IpsType, Zenon DEF Alone
      <4> QED
        BY <3>1, <4>2, RulesApart, Zenon
    <3>2. ASSUME NEW a \in Macs, NEW b \in Macs, NEW i \in IpsOf(a), NEW j \in IpsOf(b), r = Fwd(i, j)
          PROVE  \A x \in IpsOf(m) : r \notin NatRules(x)
      <4>1. i \in Ips /\ j \in Ips /\ IpsOf(m) \subseteq Ips
        BY IpsType, Zenon
      <4> QED
        BY <3>2, <4>1, RulesApart, Zenon
    <3> QED
      BY <1>5, <1>7, <3>1, <3>2, Zenon DEF Wanted
  <2>3. \A j \in DOMAIN NatCalls(m) : r \notin NatCalls(m)[j]
    BY <2>2, NatCallRules, Zenon
  <2>4. fw \in [FwRules -> Nat]
    BY Zenon DEF TypeOK
  <2> QED
    BY <1>7, <2>1, <2>3, <2>4, RemoveKeeps, Zenon
<1>8. faults' = 0 /\ cuts' = 0 => faults = 0 /\ cuts = 0
  BY <1>1, <1>2, NoFault, Zenon
<1> QED
  BY <1>3, <1>6, <1>7, <1>8, MissingKept, Zenon

LEMMA AddBridgeMissing ==
  ASSUME TypeOK, MissingInv, NEW l \in Macs, NEW d \in Macs, add_bridge_mac_cmd(l, d)
  PROVE  MissingInv'
<1> SUFFICES ASSUME exclusive', faults' = 0, cuts' = 0
             PROVE  Alone' /\ \A r \in FwRules : Wanted(r)' => fw'[r] > 0
  BY Zenon DEF MissingInv
<1>1. PICK ok \in BOOLEAN, f \in 0..1 : Faults(f) /\ FwCalls(TRUE, BridgeCalls(l, d), ok, f)
  BY Zenon DEF add_bridge_mac_cmd
<1>2. f = 0 /\ faults = 0
  <2> f \in Nat
    OBVIOUS
  <2> QED
    BY <1>1, FaultFree, Zenon
<1>3. cuts = 0 /\ fw' = Apply(TRUE, fw, BridgeCalls(l, d), 1..4)
  BY <1>1, <1>2, NoFault, BridgeCallRules, Zenon
<1>4. info' = info /\ bridges' = bridges \cup Edges(l, d) /\ exclusive
  BY Zenon DEF add_bridge_mac_cmd, recVars
<1>5. \A x : IpsOf(x)' = IpsOf(x)
  BY <1>4, Zenon DEF IpsOf
<1>6. Alone /\ \A r \in FwRules : Wanted(r) => fw[r] > 0
  BY <1>2, <1>3, <1>4, Zenon DEF MissingInv
<1>7. ASSUME NEW r \in FwRules, Wanted(r)' PROVE fw'[r] > 0
  <2>1. ASSUME NEW a \in Macs, NEW b \in Macs, NEW i \in IpsOf(a), NEW j \in IpsOf(b),
               <<a, b>> \in bridges', r = Fwd(i, j)
        PROVE  Wanted(r) \/ \E x \in IpsOf(l), y \in IpsOf(d) : r \in BridgeRules(x, y)
    <3>1. CASE <<a, b>> \in bridges
      BY <2>1, <3>1, Zenon DEF Wanted
    <3>2. CASE <<a, b>> \in Edges(l, d)
      <4>1. (a = l /\ b = d) \/ (a = d /\ b = l)
        BY <3>2, Zenon DEF Edges
      <4> QED
        BY <2>1, <4>1, Zenon DEF BridgeRules
    <3> QED
      BY <1>4, <2>1, <3>1, <3>2, Zenon
  <2>2. Wanted(r) \/ \E x \in IpsOf(l), y \in IpsOf(d) : r \in BridgeRules(x, y)
    BY <1>4, <1>5, <1>7, <2>1, Zenon DEF Wanted
  <2>3. fw \in [FwRules -> Nat]
    BY Zenon DEF TypeOK
  <2> QED
    BY <1>3, <1>6, <2>2, <2>3, BridgeCallRules, AddKeeps, Zenon
<1> QED
  BY <1>5, <1>6, <1>7, Zenon DEF Alone

(* A rule that is still wanted is not one of a bridge that is gone: the    *)
(* IPs tell the devices apart.                                             *)
LEMMA StillBridged ==
  ASSUME TypeOK, Alone, UNCHANGED recVars, NEW l \in Macs, NEW d \in Macs,
         <<l, d>> \notin bridges', <<d, l>> \notin bridges',
         NEW r, Wanted(r)'
  PROVE  \A x \in IpsOf(l), y \in IpsOf(d) : r \notin BridgeRules(x, y)
<1> SUFFICES ASSUME NEW x \in IpsOf(l), NEW y \in IpsOf(d), r \in BridgeRules(x, y) PROVE FALSE
  BY Zenon
<1>1. info' = info /\ \A e : IpsOf(e)' = IpsOf(e)
  BY Zenon DEF recVars, IpsOf
<1>2. x \in Ips /\ y \in Ips
  BY IpsType, Zenon
<1>3. ASSUME NEW e \in Macs, NEW i \in IpsOf(e), r \in NatRules(i) PROVE FALSE
  BY <1>2, <1>3, IpsType, RulesApart, Zenon
<1>4. ASSUME NEW a \in Macs, NEW b \in Macs, NEW i \in IpsOf(a), NEW j \in IpsOf(b),
             <<a, b>> \in bridges', r = Fwd(i, j)
      PROVE  FALSE
  <2>1. i \in Ips /\ j \in Ips
    BY IpsType, Zenon
  <2>2. (i = x /\ j = y) \/ (i = y /\ j = x)
    BY <1>2, <1>4, <2>1, RulesApart, Zenon
  <2>3. (a = l /\ b = d) \/ (a = d /\ b = l)
    BY <2>2, Zenon DEF Alone
  <2> QED
    BY <1>4, <2>3, Zenon
<1> QED
  BY <1>1, <1>3, <1>4, Zenon DEF Wanted

LEMMA RemoveBridgeMissing ==
  ASSUME TypeOK, MissingInv, NEW l \in Macs, NEW d \in Macs, remove_bridge_cmd(l, d)
  PROVE  MissingInv'
<1>1. PICK ok \in BOOLEAN, f \in 0..1 : Faults(f) /\ FwCalls(FALSE, BridgeCalls(l, d), ok, f)
  BY Zenon DEF remove_bridge_cmd
<1>2. faults' = 0 => f = 0 /\ faults = 0
  <2> f \in Nat
    OBVIOUS
  <2> QED
    BY <1>1, FaultFree, Zenon
<1>3. UNCHANGED recVars /\ bridges' = bridges \ Edges(l, d) /\ exclusive' = exclusive
  BY SMTT(20) DEF remove_bridge_cmd
<1>4. info' = info /\ \A x : IpsOf(x)' = IpsOf(x)
  BY <1>3, Zenon DEF recVars, IpsOf
<1>5. <<l, d>> \notin bridges' /\ <<d, l>> \notin bridges'
  BY <1>3, Zenon DEF Edges
<1>6. ASSUME faults' = 0, cuts' = 0, Alone, NEW r \in FwRules, Wanted(r)', fw[r] > 0 PROVE fw'[r] > 0
  <2>1. fw' = Apply(FALSE, fw, BridgeCalls(l, d), 1..4)
    <3>1. FwCalls(FALSE, BridgeCalls(l, d), ok, 0)
      BY <1>1, <1>2, <1>6, Zenon
    <3>2. DOMAIN BridgeCalls(l, d) = 1..4
      BY BridgeCallRules, Zenon
    <3> QED
      BY <1>6, <3>1, <3>2, NoFault, Zenon
  <2>2. \A k \in 1..4 : r \notin BridgeCalls(l, d)[k]
    <3>1. \A x \in IpsOf(l), y \in IpsOf(d) : r \notin BridgeRules(x, y)
      BY <1>3, <1>5, <1>6, StillBridged, Zenon
    <3> QED
      BY <3>1, BridgeCallRules, Zenon
  <2>3. fw \in [FwRules -> Nat]
    BY Zenon DEF TypeOK
  <2> QED
    BY <1>6, <2>1, <2>2, <2>3, RemoveKeeps, Zenon
<1>7. \A x \in Macs : IpsOf(x)' \subseteq IpsOf(x) /\ (info'[x].nat => info[x].nat)
  BY <1>4, Zenon
<1>8. bridges' \subseteq bridges
  BY <1>3, Zenon
<1>9. faults' = 0 /\ cuts' = 0 => faults = 0 /\ cuts = 0
  BY <1>1, <1>2, NoFault, Zenon
<1> QED
  BY <1>3, <1>6, <1>7, <1>8, <1>9, MissingKept, Zenon

LEMMA ClearMissing ==
  ASSUME TypeOK, MissingInv, NEW m \in Macs, clear_bridges_cmd(m)
  PROVE  MissingInv'
<1>1. faults' = 0 /\ cuts' = 0 =>
        faults = 0 /\ cuts = 0 /\ fw' = Apply(FALSE, fw, ClearCalls(m), mapped \X (1..4))
  <2> SUFFICES ASSUME faults' = 0, cuts' = 0
               PROVE  /\ faults = 0 /\ cuts = 0
                      /\ fw' = Apply(FALSE, fw, ClearCalls(m), mapped \X (1..4))
    BY Zenon
  <2>1. ~Faults(1)
    BY FaultFree
  <2> QED
    BY <2>1, FaultFree, CutCounts, Zenon DEF clear_bridges_cmd
<1>2. /\ UNCHANGED recVars /\ exclusive' = exclusive
      /\ bridges' = bridges \ UNION {Edges(m, el) : el \in mapped}
  BY Zenon DEF clear_bridges_cmd
<1>3. faults' = 0 /\ cuts' = 0 => faults = 0 /\ cuts = 0
  BY <1>1, Zenon
<1>4. info' = info /\ \A x : IpsOf(x)' = IpsOf(x)
  BY <1>2, Zenon DEF recVars, IpsOf
<1>5. \A el \in mapped : <<m, el>> \notin bridges' /\ <<el, m>> \notin bridges'
  BY <1>2 DEF Edges
<1>6. ASSUME faults' = 0, cuts' = 0, Alone, NEW r \in FwRules, Wanted(r)', fw[r] > 0 PROVE fw'[r] > 0
  <2>1. ASSUME NEW c \in mapped \X (1..4) PROVE r \notin ClearCalls(m)[c]
    <3>1. PICK el \in mapped, k \in 1..4 : c = <<el, k>>
      OBVIOUS
    <3>2. el \in Macs
      BY Zenon DEF TypeOK
    <3>3. ClearCalls(m)[c] = BridgeCalls(m, el)[k]
      BY <3>1, Zenon DEF ClearCalls
    <3>4. \A x \in IpsOf(m), y \in IpsOf(el) : r \notin BridgeRules(x, y)
      BY <1>2, <1>5, <1>6, <3>2, StillBridged, Zenon
    <3> QED
      BY <3>2, <3>3, <3>4, BridgeCallRules, Zenon
  <2>2. fw \in [FwRules -> Nat]
    BY Zenon DEF TypeOK
  <2> QED
    BY <1>1, <1>6, <2>1, <2>2, RemoveKeeps, Zenon
<1>7. \A x \in Macs : IpsOf(x)' \subseteq IpsOf(x) /\ (info'[x].nat => info[x].nat)
  BY <1>4, Zenon
<1>8. bridges' \subseteq bridges
  BY <1>2, Zenon
<1> QED
  BY <1>2, <1>3, <1>6, <1>7, <1>8, MissingKept, Zenon

(* What SET_IP does to the history of exclusive IPs.                       *)
LEMMA SetIpExclusive ==
  ASSUME NEW m, NEW ip, NEW add, NEW rec, set_ip(m, ip, add, rec), exclusive'
  PROVE  exclusive /\ \A d \in Macs \ {m} : ip \notin IpsOf(d)
BY Zenon DEF set_ip

LEMMA SetIpAddMissing ==
  ASSUME TypeOK, BridgesUndirected, MissingInv, NEW m \in Macs, NEW ip \in Ips, NEW rec \in Infos,
         rec.nat = info[m].nat, {rec.ip, rec.ip_sec} \ {NoIp} \subseteq IpsOf(m) \cup {ip},
         set_ip(m, ip, TRUE, rec)
  PROVE  MissingInv'
<1> SUFFICES ASSUME exclusive', faults' = 0, cuts' = 0
             PROVE  Alone' /\ \A r \in FwRules : Wanted(r)' => fw'[r] > 0
  BY Zenon DEF MissingInv
<1>1. faults = 0 /\ cuts = 0 /\ info' = [info EXCEPT ![m] = rec] /\ bridges' = bridges
  BY SetIpEffect, Zenon
<1>2. PICK s \in Orders(get_src_mac_list(m)) :
        fw' = Apply(TRUE, fw, IpCalls(rec, m, ip, s), DOMAIN IpCalls(rec, m, ip, s))
  BY SetIpEffect, Zenon
<1>3. exclusive /\ \A d \in Macs \ {m} : ip \notin IpsOf(d)
  BY SetIpExclusive, Zenon
<1>4. Alone /\ \A r \in FwRules : Wanted(r) => fw[r] > 0
  BY <1>1, <1>3, Zenon DEF MissingInv
<1>5. info'[m] = rec /\ \A d \in Macs \ {m} : info'[d] = info[d]
  BY <1>1, Zenon DEF TypeOK
<1>6. IpsOf(m)' \subseteq IpsOf(m) \cup {ip} /\ \A d \in Macs \ {m} : IpsOf(d)' = IpsOf(d)
  BY <1>5, Zenon DEF IpsOf
<1>7. Alone'
  <2>1. ASSUME NEW a \in Macs, NEW b \in Macs, a # b, NEW i \in IpsOf(a)', i \in IpsOf(b)'
        PROVE  FALSE
    <3>1. i \in IpsOf(a) \/ (a = m /\ i = ip)
      BY <1>6, <2>1, Zenon
    <3>2. i \in IpsOf(b) \/ (b = m /\ i = ip)
      BY <1>6, <2>1, SMTT(20)
    <3>3. ~(i \in IpsOf(a) /\ i \in IpsOf(b))
      BY <1>4, <2>1, Zenon DEF Alone
    <3> QED
      BY <1>3, <2>1, <3>1, <3>2, <3>3, SMTT(20)
  <2> QED
    BY <2>1, Zenon DEF Alone
<1>8. ASSUME NEW r \in FwRules, Wanted(r)'
      PROVE  Wanted(r) \/ IpRule(rec, ip, get_src_mac_list(m), r)
  <2>1. ASSUME NEW d \in Macs, NEW i \in IpsOf(d)', info'[d].nat, r \in NatRules(i)
        PROVE  Wanted(r) \/ IpRule(rec, ip, get_src_mac_list(m), r)
    <3>1. CASE i \in IpsOf(d)
      <4>1. info[d].nat
        BY <1>5, <2>1, Zenon
      <4> QED
        BY <2>1, <3>1, <4>1, Zenon DEF Wanted
    <3>2. CASE i \notin IpsOf(d)
      <4>1. d = m /\ i = ip
        BY <1>6, <2>1, <3>2, SMTT(20)
      <4> QED
        BY <1>5, <2>1, <4>1, Zenon DEF IpRule
    <3> QED
      BY <3>1, <3>2, Zenon
  <2>2. ASSUME NEW a \in Macs, NEW b \in Macs, NEW i \in IpsOf(a)', NEW j \in IpsOf(b)',
               <<a, b>> \in bridges, r = Fwd(i, j)
        PROVE  Wanted(r) \/ IpRule(rec, ip, get_src_mac_list(m), r)
    <3>1. a # b /\ <<b, a>> \in bridges
      BY <2>2, Zenon DEF BridgesUndirected
    <3>2. CASE i \in IpsOf(a) /\ j \in IpsOf(b)
      BY <2>2, <3>2, Zenon DEF Wanted
    <3>3. CASE i \notin IpsOf(a)
      <4>1. a = m /\ i = ip
        BY <1>6, <2>2, <3>3, SMTT(20)
      <4>2. j \in IpsOf(b)
        BY <1>6, <2>2, <3>1, <4>1, Zenon
      <4>3. b \in get_src_mac_list(m)
        BY <2>2, <3>1, <4>1, Zenon DEF get_src_mac_list
      <4>4. r \in BridgeRules(ip, j)
        BY <2>2, <4>1, Zenon DEF BridgeRules
      <4> QED
        BY <4>2, <4>3, <4>4, Zenon DEF IpRule
    <3>4. CASE j \notin IpsOf(b)
      <4>1. b = m /\ j = ip
        BY <1>6, <2>2, <3>4, SMTT(20)
      <4>2. i \in IpsOf(a)
        BY <1>6, <2>2, <3>1, <4>1, Zenon
      <4>3. a \in get_src_mac_list(m)
        BY <2>2, <3>1, <4>1, Zenon DEF get_src_mac_list
      <4>4. r \in BridgeRules(ip, i)
        BY <2>2, <4>1, Zenon DEF BridgeRules
      <4> QED
        BY <4>2, <4>3, <4>4, Zenon DEF IpRule
    <3> QED
      BY <3>2, <3>3, <3>4, SMTT(20)
  <2> QED
    BY <1>1, <1>8, <2>1, <2>2, Zenon DEF Wanted
<1>9. ASSUME NEW r \in FwRules, Wanted(r)' PROVE fw'[r] > 0
  <2>1. get_src_mac_list(m) \in SUBSET Macs
    BY Zenon DEF get_src_mac_list
  <2>2. Calls(IpCalls(rec, m, ip, s), r) <=> IpRule(rec, ip, get_src_mac_list(m), r)
    BY <2>1, IpCallRules, Zenon
  <2>3. fw \in [FwRules -> Nat]
    BY Zenon DEF TypeOK
  <2>4. Wanted(r) => fw[r] > 0
    BY <1>4, Zenon
  <2>5. Wanted(r) \/ IpRule(rec, ip, get_src_mac_list(m), r)
    BY <1>8, <1>9, Zenon
  <2> QED
    BY <1>2, <2>2, <2>3, <2>4, <2>5, AddKeeps, Zenon DEF Calls
<1> QED
  BY <1>7, <1>9, Zenon

LEMMA SetIpDelMissing ==
  ASSUME TypeOK, MissingInv, NEW m \in Macs, NEW ip \in Ips, NEW rec \in Infos,
         rec.nat = info[m].nat, {rec.ip, rec.ip_sec} \ {NoIp} \subseteq IpsOf(m) \ {ip},
         set_ip(m, ip, FALSE, rec)
  PROVE  MissingInv'
<1>1. exclusive' => exclusive
  BY SetIpExclusive, Zenon
<1>2. faults' = 0 /\ cuts' = 0 => faults = 0 /\ cuts = 0
  BY SetIpEffect, Zenon
<1>3. bridges' \subseteq bridges
  BY Zenon DEF set_ip
<1>4. info' = [info EXCEPT ![m] = rec]
  BY Zenon DEF set_ip, save_mac_mapper
<1>5. info'[m] = rec /\ \A d \in Macs \ {m} : info'[d] = info[d]
  BY <1>4, Zenon DEF TypeOK
<1>6. IpsOf(m)' \subseteq IpsOf(m) \ {ip} /\ \A d \in Macs \ {m} : IpsOf(d)' = IpsOf(d)
  BY <1>5, Zenon DEF IpsOf
<1>7. \A d \in Macs : IpsOf(d)' \subseteq IpsOf(d) /\ (info'[d].nat => info[d].nat)
  BY <1>5, <1>6, Zenon
<1>8. ASSUME exclusive', faults' = 0, cuts' = 0, NEW r \in FwRules, Wanted(r)', fw[r] > 0 PROVE fw'[r] > 0
  <2>1. PICK s \in Orders(get_src_mac_list(m)) :
          fw' = Apply(FALSE, fw, IpCalls(rec, m, ip, s), DOMAIN IpCalls(rec, m, ip, s))
    BY <1>8, SetIpEffect, Zenon
  <2>2. \A d \in Macs : ip \notin IpsOf(d)'
    <3>1. \A d \in Macs \ {m} : ip \notin IpsOf(d)
      BY <1>8, SetIpExclusive, Zenon
    <3> QED
      BY <1>6, <3>1, Zenon
  <2>3. \A d \in Macs : IpsOf(d)' \subseteq Ips
    BY <1>7, IpsType, Zenon
  <2>4. ASSUME IpRule(rec, ip, get_src_mac_list(m), r) PROVE FALSE
    <3>1. r \in NatRules(ip) \/ \E x \in Ips : r \in BridgeRules(ip, x)
      BY <2>4, IpsType, Zenon DEF IpRule, get_src_mac_list
    <3>2. ASSUME NEW d \in Macs, NEW i \in IpsOf(d)', r \in NatRules(i) PROVE FALSE
      <4>1. i \in Ips /\ i # ip
        BY <2>2, <2>3, <3>2, Zenon
      <4>2. r \notin NatRules(ip)
        BY <3>2, <4>1, RulesApart, Zenon
      <4>3. \A x \in Ips : r \notin BridgeRules(ip, x)
        BY <3>2, <4>1, RulesApart, Zenon
      <4> QED
        BY <3>1, <4>2, <4>3, Zenon
    <3>3. ASSUME NEW a \in Macs, NEW b \in Macs, NEW i \in IpsOf(a)', NEW j \in IpsOf(b)',
                 r = Fwd(i, j)
          PROVE  FALSE
      <4>1. i \in Ips /\ j \in Ips /\ i # ip /\ j # ip
        BY <2>2, <2>3, <3>3, Zenon
      <4>2. r \notin NatRules(ip)
        BY <3>3, <4>1, RulesApart, Zenon
      <4>3. \A x \in Ips : r \notin BridgeRules(ip, x)
        BY <3>3, <4>1, RulesApart, Zenon
      <4> QED
        BY <3>1, <4>2, <4>3, Zenon
    <3> QED
      BY <1>8, <3>2, <3>3, Zenon DEF Wanted
  <2>5. get_src_mac_list(m) \in SUBSET Macs
    BY Zenon DEF get_src_mac_list
  <2>6. \A j \in DOMAIN IpCalls(rec, m, ip, s) : r \notin IpCalls(rec, m, ip, s)[j]
    BY <2>4, <2>5, IpCallRules, Zenon DEF Calls
  <2>7. fw \in [FwRules -> Nat]
    BY Zenon DEF TypeOK
  <2> QED
    BY <1>8, <2>1, <2>6, <2>7, RemoveKeeps, Zenon
<1> QED
  BY <1>1, <1>2, <1>3, <1>7, <1>8, MissingKept, Zenon

(* After a restart no device has an IP, so nothing is wanted.              *)
LEMMA RestartMissing ==
  ASSUME TypeOK, run_ctl
  PROVE  MissingInv'
<1>1. info' = create_mac_mapper(mapped')
  BY Zenon DEF run_ctl
<1>2. \A d \in Macs : info'[d].ip = NoIp /\ info'[d].ip_sec = NoIp
  BY <1>1, Zenon DEF create_mac_mapper, get_sqlite_macconn_entry, init_default_mac_info
<1>3. \A d \in Macs : IpsOf(d)' = {}
  BY <1>2, Zenon DEF IpsOf
<1>4. Alone' /\ \A r : ~Wanted(r)'
  BY <1>3, Zenon DEF Alone, Wanted
<1> QED
  BY <1>4, Zenon DEF MissingInv

LEMMA MissingNext ==
  ASSUME TypeOK, BridgesUndirected, MissingInv, [Next]_vars
  PROVE  MissingInv'
<1>1. ASSUME AccessNext PROVE MissingInv'
  BY <1>1, QuietMissing, RecordCommandsQuiet, TicketQuiet, ConnQuiet, RestartMissing, Zenon DEF AccessNext
<1>2. ASSUME NEW i \in Ips, NEW j \in Ips, add_bridge_ip_cmd(i, j) PROVE MissingInv'
  BY <1>2, AddBridgeMissing, ExistsQuiet, QuietMissing, Zenon DEF add_bridge_ip_cmd, get_ip_mapper, TypeOK
<1>3. ASSUME NEW m \in Macs, NEW i \in Ips, set_ip_add(m, i) PROVE MissingInv'
  <2> DEFINE rec == IF info[m].ip = NoIp THEN [info[m] EXCEPT !.ip = i]
                                         ELSE [info[m] EXCEPT !.ip_sec = i]
  <2>1. info[m] \in Infos
    BY Zenon DEF TypeOK
  <2>2. rec \in Infos /\ rec.nat = info[m].nat
    BY <2>1, Zenon DEF Infos
  <2>3. {rec.ip, rec.ip_sec} \ {NoIp} \subseteq IpsOf(m) \cup {i}
    BY <2>1, Zenon DEF Infos, IpsOf
  <2>4. set_ip(m, i, TRUE, rec)
    BY <1>3, Zenon DEF set_ip_add
  <2> HIDE DEF rec
  <2> QED
    BY <2>2, <2>3, <2>4, SetIpAddMissing, Zenon
<1>4. ASSUME NEW m \in Macs, NEW i \in Ips, set_ip_del(m, i) PROVE MissingInv'
  <2> DEFINE rec == [info[m] EXCEPT !.ip = IF @ = i THEN NoIp ELSE @,
                                    !.ip_sec = IF @ = i THEN NoIp ELSE @]
  <2>1. info[m] \in Infos
    BY Zenon DEF TypeOK
  <2>2. rec \in Infos /\ rec.nat = info[m].nat
    BY <2>1, Zenon DEF Infos
  <2>3. {rec.ip, rec.ip_sec} \ {NoIp} \subseteq IpsOf(m) \ {i}
    BY <2>1, SupervisorAssumption, Zenon DEF Infos, IpsOf
  <2>4. set_ip(m, i, FALSE, rec)
    BY <1>4, Zenon DEF set_ip_del
  <2> HIDE DEF rec
  <2> QED
    BY <2>2, <2>3, <2>4, SetIpDelMissing, Zenon
<1>5. ASSUME NetworkNext PROVE MissingInv'
  BY <1>2, <1>3, <1>4, <1>5, AddNatMissing, RemoveNatMissing, AddBridgeMissing,
     RemoveBridgeMissing, ClearMissing, RestartMissing, Zenon DEF NetworkNext
<1>6. ASSUME UNCHANGED vars PROVE MissingInv'
  <2>1. UNCHANGED <<faults, fw, cuts, bridges, exclusive, mapped, info>>
    BY <1>6, Zenon DEF vars, netVars, recVars
  <2> QED
    BY <2>1, QuietMissing, Zenon DEF QuietStep, SameLinks
<1> QED
  BY <1>1, <1>5, <1>6, Zenon DEF Next

(* Nothing is missing, for every number of devices and IPs: as long as no  *)
(* command has failed, every listing came in one read() (cuts = 0) and no  *)
(* IP was set for two devices at a time, every rule that a device with NAT *)
(* or a bridge calls for is in the firewall, in whatever order SET_IP, NAT *)
(* and bridge commands have come.                                          *)
THEOREM NoMissingRulesHolds == Spec => []NoMissingRules
<1>1. Init => MissingInv
  <2> SUFFICES ASSUME Init PROVE MissingInv
    BY Zenon
  <2>1. \A d \in Macs : IpsOf(d) = {}
    BY Zenon DEF Init, init_default_mac_info, IpsOf
  <2> QED
    BY <2>1, Zenon DEF MissingInv, Alone, Wanted
<1>2. TypeOK /\ BridgesUndirected /\ MissingInv /\ [Next]_vars => MissingInv'
  BY MissingNext, Zenon
<1>3. TypeOK /\ MissingInv => NoMissingRules
  BY JustifiedWanted, Zenon DEF MissingInv, NoMissingRules
<1> QED
  BY <1>1, <1>2, <1>3, TypeCorrect, BridgesUndirectedHolds, PTL DEF Spec
=============================================================================
