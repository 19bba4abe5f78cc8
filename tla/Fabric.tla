------------------------------- MODULE Fabric -------------------------------
(***************************************************************************)
(* FabricBuilder: nodes and links are recorded first and build() then      *)
(* turns every link into two directed ports, each in the run of port       *)
(* numbers of the node that owns it.  Nodes and ports are numbered from 0. *)
(* Rates, delays and queues of the ports play no part in the layout.       *)
(***************************************************************************)
EXTENDS Builder, FiniteSets

CONSTANT Blueprints   \* what build() may be called on

ASSUME BlueprintsAssumption == \A b \in Blueprints : IsBlueprint(b)

VARIABLES plan,         \* the blueprint being built
          made,         \* links turned into ports so far
          first_port,   \* of each node, laid out from its degree
          port_count,   \* of each node, ports claimed so far
          ports         \* claimed port number -> its owner and its far end

fabric == <<plan, made, first_port, port_count, ports>>

Nodes == 0 .. Size(plan) - 1

EndsUpTo(b, u) ==   \* mutated
  Cardinality({e \in (DOMAIN b.edges) \X {1, 2} : b.edges[e[1]][e[2]] <= u})

(* The prefix sum of degrees: the link ends that belong to lower nodes. *)
EndsBelow(b, u) ==
  Cardinality({e \in (DOMAIN b.edges) \X {1, 2} : b.edges[e[1]][e[2]] < u})

FabricInit ==
  /\ plan \in Blueprints
  /\ made = 0
  /\ first_port = [u \in Nodes |-> EndsBelow(plan, u)]
  /\ port_count = [u \in Nodes |-> 0]
  /\ ports = <<>>

claim_slot(u) == first_port[u] + port_count[u]

Materialise ==
  /\ made < Len(plan.edges)
  /\ LET a  == plan.edges[made + 1][1]
         b  == plan.edges[made + 1][2]
         sa == claim_slot(a)
         sb == claim_slot(b)
         pa == [owner |-> a, peer_node |-> b, peer_port |-> sb]
         pb == [owner |-> b, peer_node |-> a, peer_port |-> sa]
     IN /\ ports' = [p \in DOMAIN ports \cup {sa, sb} |->
                      IF p = sb THEN pb ELSE IF p = sa THEN pa ELSE ports[p]]
        /\ port_count' = [port_count EXCEPT ![a] = @ + 1, ![b] = @ + 1]
  /\ made' = made + 1
  /\ UNCHANGED <<plan, first_port>>

Built == made = Len(plan.edges)

(* What the rest of the program reads of a built fabric. *)
ports_of(u) == [i \in 1 .. port_count[u] |-> first_port[u] + i - 1]

peer(p) == ports[p].peer_node

PeersOf(seq) == [i \in DOMAIN seq |-> peer(seq[i])]

is_host(u) == plan.is_host[u + 1]

hosts == HostsOf(plan)

host_count == Len(hosts)

host_at(h) == hosts[h + 1]

-----------------------------------------------------------------------------
(* The two directions of a link name each other, whatever the order of the
   links: from a port's far end one is back at the port, and the nodes at both
   ends agree.  The ports of a node are exactly the run ports_of returns, so
   no slot was claimed twice, and a finished fabric has used every slot and
   has the ports of each node in the order of its links. *)
PortsPaired ==
  /\ \A p \in DOMAIN ports :
       LET r == ports[p].peer_port
       IN r \in DOMAIN ports /\ ports[r] = [owner |-> peer(p),
                                            peer_node |-> ports[p].owner,
                                            peer_port |-> p]
  /\ \A u \in Nodes : {p \in DOMAIN ports : ports[p].owner = u}
                        = {ports_of(u)[i] : i \in DOMAIN ports_of(u)}
  /\ Built =>
       /\ DOMAIN ports = 0 .. 2 * Len(plan.edges) - 1
       /\ \A u \in Nodes : PeersOf(ports_of(u)) = Far(plan, u)
=============================================================================
