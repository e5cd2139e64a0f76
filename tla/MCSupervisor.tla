---------------------------- MODULE MCSupervisor ----------------------------
(***************************************************************************)
(* Instances of Supervisor for TLC.                                        *)
(***************************************************************************)
EXTENDS Supervisor, TLC

CONSTANTS v1

mcAllocVlan == [m \in Macs |-> v1]
Symmetry == Permutations(Macs) \cup Permutations(Ips)

mcConf(all, nat, capture) ==
  [allow_all_connections |-> all, allow_all_nat |-> nat, exec_capture |-> capture]

mcOpenAndClosed == {mcConf(FALSE, FALSE, TRUE), mcConf(TRUE, FALSE, TRUE)}
mcClosed == {mcConf(FALSE, FALSE, TRUE)}
mcNat == {mcConf(FALSE, TRUE, FALSE)}
mcNoCapture == {mcConf(FALSE, FALSE, FALSE)}
=============================================================================
