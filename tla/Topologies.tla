----------------------------- MODULE Topologies -----------------------------
(***************************************************************************)
(* Packets on the Clos topologies, against the closed forms their headers  *)
(* promise.                                                                *)
(***************************************************************************)
EXTENDS Forwarding, Clos

CONSTANTS Arities,      \* of the fat-trees
          LeafSpines    \* <<spines, leaves, hosts per leaf>>

ASSUME ConfigsAssumption ==
  /\ \A k \in Arities : k \in Nat /\ k >= 2 /\ k % 2 = 0
  /\ LeafSpines \subseteq (Nat \ {0}) \X (Nat \ {0}) \X (Nat \ {0})

Trees  == [k \in Arities |-> FatTree(k)]
Spines == [c \in LeafSpines |-> LeafSpine(c[1], c[2], c[3])]

Configured == {Trees[k] : k \in Arities} \cup {Spines[c] : c \in LeafSpines}

-----------------------------------------------------------------------------
(* The links a packet crosses are the closed form of its two hosts, whatever
   is picked on the way: hop counts enter every expected completion time. *)
HopsAsPromised ==
  \A u \in at :
    LET Agrees(n) == IF is_host(u) THEN hops = n ELSE hops < n
    IN /\ \A k \in Arities : plan = Trees[k] => Agrees(fat_tree_hops(k, src, dst))
       /\ \A c \in LeafSpines :
            plan = Spines[c] => Agrees(LeafSpineHops(c[3], src, dst))

(* The number of ways from node u to host d along candidates. *)
Ways(u, d) ==
  LET ways[v \in Nodes] ==
        IF v = host_at(d) THEN 1
        ELSE MapThenSumSet(LAMBDA p : ways[peer(p)], ToSet(candidates(v, d)))
  IN ways[u]

(* The equal-cost paths the routers choose among: k^2/4 between two pods of a
   fat-tree, whose switches all have k ports, and one for every spine between
   two leaves. *)
PathsAsPromised ==
  pc = "done" /\ at = {} =>
    \A s, d \in 0 .. host_count - 1 :
      /\ \A k \in Arities : plan = Trees[k] =>
           /\ fat_tree_hops(k, s, d) = 6 =>
                Ways(host_at(s), d) = fat_tree_cross_pod_paths(k)
           /\ \A u \in Nodes : ~is_host(u) => port_count[u] = k
      /\ \A c \in LeafSpines :
           plan = Spines[c] /\ LeafSpineHops(c[3], s, d) = 4 =>
             Ways(host_at(s), d) = c[1]

(* Placed round robin, every rank has a host of its own, and a packet between
   ring neighbours, the last and the first included, crosses pods and takes the
   longest path, the one the routing policies are compared on. *)
RingCrossesPods ==
  \A u \in at, k \in Arities :
    plan = Trees[k] =>
      LET Rank == 0 .. host_count - 1
          Neighbours(r) == /\ RoundRobinPods(k, r) = src
                           /\ RoundRobinPods(k, (r + 1) % host_count) = dst
      IN /\ \E r \in Rank : RoundRobinPods(k, r) = src
         /\ \A r \in Rank : Neighbours(r) => (is_host(u) <=> hops = 6)
=============================================================================
