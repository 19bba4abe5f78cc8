-------------------------------- MODULE Clos --------------------------------
(***************************************************************************)
(* The two Clos topologies as the sequences of builder calls that produce  *)
(* them, and the closed forms of their headers.                            *)
(***************************************************************************)
EXTENDS Builder

(* for (i = 0; i < n; ++i) { b = Body(b, i); } *)
For(n, Body(_, _), b) ==
  LET After[i \in 0 .. n] == IF i = 0 THEN b ELSE Body(After[i - 1], i - 1)
  IN After[n]

AddSwitches(n, b) == For(n, LAMBDA x, i : add_switch(x), b)
AddHosts(n, b)    == For(n, LAMBDA x, i : add_host(x), b)

-----------------------------------------------------------------------------
LeafSpine(spines, leaves, hosts_per_leaf) ==
  LET Leaf(i) == spines + i
      Mesh(b, i)  == For(spines, LAMBDA x, s : connect(x, Leaf(i), s), b)
      Below(b, i) == For(hosts_per_leaf,
                         LAMBDA x, j : connect(add_host(x), Size(x), Leaf(i)), b)
  IN For(leaves, Below, For(leaves, Mesh, AddSwitches(spines + leaves, Blank)))

LeafSpineHops(hosts_per_leaf, s, d) ==
  IF s \div hosts_per_leaf = d \div hosts_per_leaf THEN 2 ELSE 4

-----------------------------------------------------------------------------
CoreOfDiagonal(k, i, j) == i + j   \* mutated

fat_tree_host_count(k)        == (k * k * k) \div 4
fat_tree_core_count(k)        == (k * k) \div 4
fat_tree_switch_count(k)      == (5 * k * k) \div 4
fat_tree_hosts_per_edge(k)    == k \div 2
fat_tree_hosts_per_pod(k)     == (k * k) \div 4
fat_tree_core(k, i, j)        == i * (k \div 2) + j
fat_tree_agg(k, pod, a)       == fat_tree_core_count(k) + pod * k + a
fat_tree_edge(k, pod, e)      == fat_tree_core_count(k) + pod * k + k \div 2 + e
fat_tree_pod_of_host(k, n)    == n \div fat_tree_hosts_per_pod(k)
fat_tree_edge_of_host(k, n)   == n \div fat_tree_hosts_per_edge(k)
fat_tree_cross_pod_paths(k)   == (k * k) \div 4

fat_tree_hops(k, s, d) ==
  IF fat_tree_edge_of_host(k, s) = fat_tree_edge_of_host(k, d) THEN 2
  ELSE IF fat_tree_pod_of_host(k, s) = fat_tree_pod_of_host(k, d) THEN 4
  ELSE 6

FatTree(k) ==
  LET half == k \div 2
      nodes == AddHosts(fat_tree_host_count(k),
                        AddSwitches(fat_tree_core_count(k) + k * (half + half), Blank))
      Up(b, pod, a) ==
        For(half, LAMBDA x, j : connect(x, fat_tree_agg(k, pod, a),
                                        fat_tree_core(k, a, j)), b)
      Down(b, pod, a) ==
        For(half, LAMBDA x, e : connect(x, fat_tree_agg(k, pod, a),
                                        fat_tree_edge(k, pod, e)), b)
      Pod(b, pod) == For(half, LAMBDA x, a : Down(Up(x, pod, a), pod, a), b)
      Host(b, n)  == connect(b, fat_tree_switch_count(k) + n,
                             fat_tree_edge(k, fat_tree_pod_of_host(k, n),
                                           (n \div half) % half))
  IN For(fat_tree_host_count(k), Host, For(k, Pod, nodes))

-----------------------------------------------------------------------------
RoundRobinByArity(k, r) == (r % k) * k + r \div k   \* mutated

(* The host of a rank of a collective over the whole fat-tree. *)
RoundRobinPods(k, r) == (r % k) * fat_tree_hosts_per_pod(k) + r \div k
=============================================================================
