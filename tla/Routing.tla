------------------------------- MODULE Routing -------------------------------
(***************************************************************************)
(* The routing policies.  A hash is the upper half of the word flow_hash   *)
(* returns, any number below HashRange (2^32 in the code); what matters is *)
(* that it depends on the switch and the flow's key alone, and how it is   *)
(* mapped onto the candidates.                                             *)
(***************************************************************************)
EXTENDS Naturals, Sequences

CONSTANT HashRange

ASSUME HashRangeAssumption == HashRange \in Nat \ {0}

RoutingAlgorithm == {"StaticFirst", "Ecmp"}

FlowKey(src, dst, src_port, dst_port) == <<src, dst, src_port, dst_port>>

(* An ack's key is its flow's reversed. *)
Reversed(key) == FlowKey(key[2], key[1], key[4], key[3])

hash_to_index(frac, n) == (frac * n) \div HashRange

StaticFirstPolicy(cand) == cand[1]

EcmpPolicy(hash, cand) ==
  IF Len(cand) = 1 THEN cand[1] ELSE cand[1 + hash_to_index(hash, Len(cand))]
=============================================================================
