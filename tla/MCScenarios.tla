---------------------------- MODULE MCScenarios -----------------------------
(***************************************************************************)
(* Scenarios as the harness builds them, with the sizes, rates and delays  *)
(* of the source where nothing else is said: 1500 bytes in 120 ns, an ack  *)
(* in 5.  Only numbers of packets, flows and buffers are small.            *)
(***************************************************************************)
EXTENDS Validation

LinkParams(rate, prop, capacity) ==
  [rate |-> rate, prop_delay_ns |-> prop, queue_capacity_pkts |-> capacity]

Smoke(to, bytes, mtu, window, rate, prop, capacity) ==
  build_smoke([spine_count |-> 2, leaf_count |-> 2, hosts_per_leaf |-> 2,
               host_link |-> LinkParams(rate, prop, capacity),
               fabric_link |-> LinkParams(rate, prop, capacity),
               flow_bytes |-> bytes, mtu_bytes |-> mtu, src_host |-> 0, dst_host |-> to,
               window_pkts |-> window, hash |-> <<>>])

(* A key is hashed to a fraction by its hosts and the switch: spread over   *)
(* the range, or all to its upper end.                                     *)
Hash(k, sport, flat) ==
  LET n == fat_tree_host_count(k)
      Keys == {FlowKey(s, d, p[1], p[2]) : s, d \in 0 .. n - 1,
                 p \in {<<sport[r], 5001>> : r \in DOMAIN sport}
                       \cup {<<5001, sport[r]>> : r \in DOMAIN sport}}
  IN  [x \in (0 .. fat_tree_switch_count(k) - 1) \X Keys |->
         IF flat THEN HashRange - 1 ELSE (x[1] * 5 + x[2][1] * 3 + x[2][2] * 7) % HashRange]

Permutation(k, to, packets, window, load, capacity, attempts, flat) ==
  LET n == fat_tree_host_count(k)
      sport == [h \in 0 .. n - 1 |-> 1024]
  IN  build_permutation(
        [k |-> k, host_link |-> LinkParams(100, 100, capacity),
         fabric_link |-> LinkParams(100, 100, capacity),
         workload |-> [flow_bytes |-> packets * 1500, mtu_bytes |-> 1500,
                       window_pkts |-> window, load_permille |-> load],
         draws |-> [dst |-> [h \in 0 .. n - 1 |-> to[h + 1]], src_port |-> sport,
                    start_ns |-> [h \in 0 .. n - 1 |-> (h % 3) * 50]],
         routing |-> "Ecmp", hash |-> Hash(k, sport, flat),
         transport |-> [rto_ns |-> 0, ack_bytes |-> 64, max_attempts |-> attempts]])

Ring(k, gpus, place, bytes, ack) ==
  LET n == IF gpus = 0 THEN fat_tree_host_count(k) ELSE gpus
      sport == [r \in 0 .. n - 1 |-> 1024 + r]
  IN  build_all_reduce(
        [k |-> k, host_link |-> LinkParams(100, 100, 4), fabric_link |-> LinkParams(100, 100, 4),
         workload |-> [buffer_bytes |-> bytes, mtu_bytes |-> 1500, window_pkts |-> 4,
                       gpu_count |-> gpus, load_permille |-> 1000, placement |-> place],
         src_port |-> sport, routing |-> "Ecmp", hash |-> Hash(k, sport, FALSE),
         transport |-> [rto_ns |-> 0, ack_bytes |-> ack, max_attempts |-> 8]])

(* One cycle through the sixteen hosts, most of its flows between pods. *)
Cycle == <<5, 8, 13, 6, 9, 10, 15, 3, 14, 12, 7, 0, 2, 1, 11, 4>>

AllClaims ==
  <<Smoke(2, 9000, 1500, 512, 100, 500, 1), Smoke(1, 4500, 1500, 512, 100, 500, 128),
    Smoke(2, 18000, 1500, 8, 100, 50, 2),   Smoke(2, 18000, 1500, 3, 100, 50, 2),
    Smoke(2, 5000, 1500, 4, 70, 0, 2),      Smoke(2, 50, 10, 4, 100, 30, 2),
    Permutation(2, <<1, 0>>, 10, 8, 1000, 3, 8, FALSE),
    Permutation(2, <<1, 0>>, 12, 12, 1000, 12, 2, FALSE),
    Permutation(2, <<1, 0>>, 4, 3, 600, 1, 1, FALSE),
    Permutation(4, Cycle, 2, 2, 1000, 1, 1, TRUE),
    Permutation(4, Cycle, 3, 2, 1000, 1, 4, FALSE),
    Ring(4, 2, "Sequential", 6000, 4), Ring(4, 2, "Sequential", 6000, 64),
    Ring(2, 0, "RoundRobinPods", 3000, 64), Ring(4, 4, "Sequential", 6000, 64)>>

AllSims == [i \in DOMAIN AllClaims |-> AllClaims[i].sim]

(* Three ranks on hosts 0, 1 and 2: the first step of the ring stays below one
   edge switch, the others do not. *)
AllMixed == <<Ring(4, 3, "Sequential", 4500, 4)>>

AllMixedSims == [i \in DOMAIN AllMixed |-> AllMixed[i].sim]

(* TLC evaluates a definition without parameters once, but one that a
   configuration puts in place of a constant at every use of it. *)
MCClaims    == LET all == AllClaims IN all
MCSims      == LET all == AllSims IN all
MixedClaims == LET all == AllMixed IN all
MixedSims   == LET all == AllMixedSims IN all
=============================================================================
