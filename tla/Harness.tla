------------------------------- MODULE Harness -------------------------------
(***************************************************************************)
(* harness/scenario.*: the closed forms, the sizing of the transport, and  *)
(* how a scenario is assembled for Simulation.                             *)
(***************************************************************************)
EXTENDS Workloads, Units, FiniteSetsExt, TLC

analytical_fct_ns(packets, hops, ser, prop) == (packets - 1 + hops) * ser + hops * prop

paced_fct_ns(packets, hops, ser, period, prop) ==
  (packets - 1) * period + hops * ser + hops * prop

round_trip_ns(hops, ser, ack_ser, prop) == hops * (ser + prop) + hops * (ack_ser + prop)

min_window_packets(hops, ser, ack_ser, prop) ==
  (round_trip_ns(hops, ser, ack_ser, prop) \div ser) + 1

AnyWindow(window, packets, hops, ser, ack_ser, prop) == TRUE   \* mutated

window_is_sufficient(window, packets, hops, ser, ack_ser, prop) ==
  window >= packets \/ window >= min_window_packets(hops, ser, ack_ser, prop)

RtoUnqueued(hops, ser, ack_ser, prop, queue) ==   \* mutated: no room for queueing
  round_trip_ns(hops, ser, ack_ser, prop)

default_rto_ns(hops, ser, ack_ser, prop, queue) ==
  2 * (round_trip_ns(hops, ser, ack_ser, prop) + hops * queue * ser)

ack_is_free(ack_bytes, rate) == serialization_ns(ack_bytes, rate) = 0

all_reduce_analytical_ns(nsteps, packets, hops, ser, period, prop) ==
  nsteps * paced_fct_ns(packets, hops, ser, period, prop)

sized_transport(t, link, mtu_bytes, hops) ==
  IF t.rto_ns # 0 THEN t
  ELSE [t EXCEPT !.rto_ns =
          default_rto_ns(hops, serialization_ns(mtu_bytes, link.rate),
                         serialization_ns(t.ack_bytes, link.rate),
                         link.prop_delay_ns, link.queue_capacity_pkts)]

Homogeneous(c) == /\ c.host_link.rate = c.fabric_link.rate
                  /\ c.host_link.prop_delay_ns = c.fabric_link.prop_delay_ns

CeilPackets(bytes, mtu) == (bytes + mtu - 1) \div mtu

DefaultTransport == [rto_ns |-> 0, ack_bytes |-> 64, max_attempts |-> 8]

kFatTreeCrossPodHops == 6

(* The simulation of a scenario, run once: what Simulation reads of it.    *)
Assembled(c, fab, transport, flows, routing) ==
  [fabric |-> fab, host_link |-> c.host_link, fabric_link |-> c.fabric_link,
   transport |-> transport, flows |-> flows, routing |-> routing,
   hash |-> c.hash, runs |-> 1]

-----------------------------------------------------------------------------
(* A scenario is its simulation and what the harness claims of it:         *)
(* analytical_ns, of a flow or of the collective, whether that is exact,   *)
(* and least_ns[f], below which flow f cannot complete.                    *)

build_smoke(c) ==
  LET fab   == built(LeafSpine(c.spine_count, c.leaf_count, c.hosts_per_leaf))
      hops  == LeafSpineHops(c.hosts_per_leaf, c.src_host, c.dst_host)
      link  == c.host_link
      packets == CeilPackets(c.flow_bytes, c.mtu_bytes)
      transport == sized_transport(DefaultTransport, link, c.mtu_bytes, hops)
      ser     == serialization_ns(c.mtu_bytes, link.rate)
      ack_ser == serialization_ns(transport.ack_bytes, link.rate)
      analytical == analytical_fct_ns(packets, hops, ser, link.prop_delay_ns)
      flow  == [src |-> fab.hosts[c.src_host + 1], dst |-> fab.hosts[c.dst_host + 1],
                size_bytes |-> c.flow_bytes, start_ns |-> 0, mtu_bytes |-> c.mtu_bytes,
                window_pkts |-> c.window_pkts, load_permille |-> 1000,
                src_port |-> 0, dst_port |-> 0, depends_on |-> 0]
  IN  [sim |-> Assembled(c, fab, transport, <<flow>>, "StaticFirst"),
       kind |-> "smoke", analytical_ns |-> analytical, least_ns |-> <<analytical>>,
       analytical_exact |->
         /\ Homogeneous(c)
         /\ c.flow_bytes % c.mtu_bytes = 0
         /\ serialization_is_exact(c.mtu_bytes, link.rate)
         /\ window_is_sufficient(c.window_pkts, packets, hops, ser, ack_ser,
                                 link.prop_delay_ns)]

permutation_flow_lower_bound_ns(c, src_host, dst_host) ==
  LET ser == serialization_ns(c.workload.mtu_bytes, c.host_link.rate)
  IN  paced_fct_ns(CeilPackets(c.workload.flow_bytes, c.workload.mtu_bytes),
                   fat_tree_hops(c.k, src_host, dst_host), ser,
                   (ser * 1000) \div c.workload.load_permille, c.host_link.prop_delay_ns)

build_permutation(c) ==
  LET fab   == built(FatTree(c.k))
      w     == c.workload
      link  == c.host_link
      transport == sized_transport(c.transport, link, w.mtu_bytes, kFatTreeCrossPodHops)
      bound == [i \in DOMAIN fab.hosts |->
                  permutation_flow_lower_bound_ns(c, i - 1, c.draws.dst[i - 1])]
      ser     == serialization_ns(w.mtu_bytes, link.rate)
      ack_ser == serialization_ns(transport.ack_bytes, link.rate)
  IN  [sim |-> Assembled(c, fab, transport, permutation_flows(fab.hosts, w, c.draws), c.routing),
       kind |-> "permutation", analytical_ns |-> Min({bound[i] : i \in DOMAIN bound}),
       least_ns |-> bound,
       analytical_exact |->
         /\ Homogeneous(c)
         /\ w.flow_bytes % w.mtu_bytes = 0
         /\ serialization_is_exact(w.mtu_bytes, link.rate)
         /\ window_is_sufficient(w.window_pkts, CeilPackets(w.flow_bytes, w.mtu_bytes),
                                 kFatTreeCrossPodHops, ser, ack_ser, link.prop_delay_ns)]

build_all_reduce(c) ==
  LET fab   == built(FatTree(c.k))
      p     == [fat_tree_k |-> c.k] @@ c.workload
      gpus  == IF p.gpu_count = 0 THEN Len(fab.hosts) ELSE p.gpu_count
      Hops(r) == fat_tree_hops(c.k, place_rank(p, r), place_rank(p, (r + 1) % gpus))
      all   == {Hops(r) : r \in 0 .. gpus - 1}
      uniform == \E h \in all : all = {h}
      hops  == Max(all)
      link  == c.host_link
      transport == sized_transport(c.transport, link, p.mtu_bytes, hops)
      ser     == serialization_ns(p.mtu_bytes, link.rate)
      ack_ser == serialization_ns(transport.ack_bytes, link.rate)
      period  == (ser * 1000) \div p.load_permille
      packets == chunk_packets(p, gpus)
  IN  [sim |-> Assembled(c, fab, transport,
                         ring_all_reduce(fab.hosts, p, gpus, c.src_port), c.routing),
       kind |-> "all_reduce",
       analytical_ns |-> all_reduce_analytical_ns(steps(gpus), packets, hops, ser, period,
                                                  link.prop_delay_ns),
       least_ns |-> [i \in 1 .. steps(gpus) * gpus |->
                       paced_fct_ns(packets, Hops(rank(gpus, i - 1)), ser, period,
                                    link.prop_delay_ns)],
       analytical_exact |->
         /\ uniform /\ hops = 2
         /\ chunk_exact(p, gpus)
         /\ Homogeneous(c)
         /\ serialization_is_exact(p.mtu_bytes, link.rate)
         /\ ack_is_free(transport.ack_bytes, link.rate)
         /\ (ser * 1000) % p.load_permille = 0
         /\ window_is_sufficient(p.window_pkts, packets, hops, ser, ack_ser,
                                 link.prop_delay_ns)]
=============================================================================
