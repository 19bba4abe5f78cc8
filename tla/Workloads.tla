------------------------------ MODULE Workloads ------------------------------
(***************************************************************************)
(* The workloads as sequences of FlowSpecs over the hosts of a fabric.     *)
(* What the random streams draw is a parameter.  Flow numbers count from 0 *)
(* as in the source; the simulator's FlowIds, and depends_on in a          *)
(* FlowSpec, count from 1, so that 0 can stand for no flow.                *)
(***************************************************************************)
EXTENDS Clos

UpstreamSelf(gpus, r) == r   \* mutated

upstream(gpus, r) == (r + gpus - 1) % gpus

DependsLate(gpus, f) ==   \* mutated
  IF f \div gpus > 1 THEN {(f \div gpus - 1) * gpus + upstream(gpus, f % gpus)} ELSE {}

(* A ring all-reduce among gpus ranks: flow step * gpus + rank is the      *)
(* rank's send in that step.                                               *)
steps(gpus)   == 2 * (gpus - 1)
step(gpus, f) == f \div gpus
rank(gpus, f) == f % gpus
dst(gpus, f)  == (rank(gpus, f) + 1) % gpus

(* The flow that flow f waits for, as a set: none in the first step. *)
depends_on(gpus, f) ==
  IF step(gpus, f) > 0 THEN {(step(gpus, f) - 1) * gpus + upstream(gpus, rank(gpus, f))}
  ELSE {}

chunk_bytes(p, gpus) == p.buffer_bytes \div gpus

chunk_packets(p, gpus) == (chunk_bytes(p, gpus) + p.mtu_bytes - 1) \div p.mtu_bytes

chunk_exact(p, gpus) ==
  p.buffer_bytes % gpus = 0 /\ chunk_bytes(p, gpus) % p.mtu_bytes = 0

(* The host of rank r. *)
place_rank(p, r) ==
  IF p.placement = "Sequential" THEN r ELSE RoundRobinPods(p.fat_tree_k, r)

(* src_port[r] is what port_rng draws for rank r. *)
ring_all_reduce(hosts, p, gpus, src_port) ==
  LET host(r) == hosts[place_rank(p, r) + 1]
      Flow(f) == [src |-> host(rank(gpus, f)), dst |-> host(dst(gpus, f)),
                  size_bytes |-> chunk_bytes(p, gpus), start_ns |-> 0,
                  mtu_bytes |-> p.mtu_bytes, window_pkts |-> p.window_pkts,
                  load_permille |-> p.load_permille,
                  src_port |-> src_port[rank(gpus, f)], dst_port |-> 5001,
                  depends_on |-> IF depends_on(gpus, f) = {} THEN 0
                                 ELSE 1 + (CHOOSE g \in depends_on(gpus, f) : TRUE)]
  IN  [i \in 1 .. steps(gpus) * gpus |-> Flow(i - 1)]

(* draws is what the three streams give: the cyclic permutation of the     *)
(* hosts (see Permutation), the source ports and the start times.          *)
permutation_flows(hosts, p, draws) ==
  [i \in 1 .. Len(hosts) |->
     [src |-> hosts[i], dst |-> hosts[draws.dst[i - 1] + 1],
      size_bytes |-> p.flow_bytes, start_ns |-> draws.start_ns[i - 1],
      mtu_bytes |-> p.mtu_bytes, window_pkts |-> p.window_pkts,
      load_permille |-> p.load_permille,
      src_port |-> draws.src_port[i - 1], dst_port |-> 5001, depends_on |-> 0]]
=============================================================================
