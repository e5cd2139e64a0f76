----------------------------- MODULE MCIptables -----------------------------
(***************************************************************************)
(* Instances of Iptables for TLC: two subnets, and devices on both.        *)
(***************************************************************************)
EXTENDS Iptables

CONSTANTS ip1, ip2, if1, if2, wlan

mcBaseIfs == <<if1, if2>>
mcIfOf == [i \in Ips |-> IF i = ip1 THEN if1 ELSE if2]
mcPairs == {<<ip1, ip2>>, <<ip1, ip1>>}
=============================================================================
