----------------------------- MODULE RouteTable -----------------------------
(***************************************************************************)
(* RouteTable::build_shortest_path on a built fabric: a breadth-first      *)
(* search from every host, one port a step; after each search the next     *)
(* hops it yields; at the end all of them packed into one array with       *)
(* offsets, the layout candidates() reads.                                 *)
(***************************************************************************)
EXTENDS Fabric, SequencesExt

CONSTANT kUnreachable   \* the largest value a distance holds

ASSUME WidthAssumption ==
  /\ kUnreachable \in Nat
  /\ \A b \in Blueprints : Size(b) < kUnreachable

VARIABLES pc,         \* search, scan, collect, pack or done
          h,          \* the host searched from
          dist,       \* distances from it
          depth,      \* the distance being given out
          frontier,   \* nodes at depth - 1 still to look at
          port,       \* ports of the first of them already looked at
          next,       \* nodes given the distance depth
          per_cell,   \* next hops of each (node, host)
          offsets,    \* where each cell starts in entries
          entries     \* the packed table

search == <<dist, depth, frontier, port, next>>
table  == <<per_cell, offsets, entries>>
tableVars == <<fabric, pc, h, search, table>>

Plus(x, n) == (x + n) % (kUnreachable + 1)

cell(u, k) == u * host_count + k

Cells == 0 .. Size(plan) * host_count - 1

TableInit ==
  /\ FabricInit
  /\ pc = "search" /\ h = 0
  /\ dist = [u \in Nodes |-> kUnreachable]
  /\ depth = 0 /\ frontier = <<>> /\ port = 0 /\ next = <<>>
  /\ per_cell = [c \in Cells |-> <<>>]
  /\ offsets = <<>> /\ entries = <<>>

SearchFromIndex ==   \* mutated
  /\ pc = "search" /\ Built
  /\ IF h < host_count
       THEN /\ pc' = "scan"
            /\ dist' = [u \in Nodes |-> IF u = h THEN 0 ELSE kUnreachable]
            /\ frontier' = <<h>>
            /\ depth' = 1 /\ port' = 0 /\ next' = <<>>
       ELSE pc' = "pack" /\ UNCHANGED search
  /\ UNCHANGED <<fabric, h, table>>

Search ==
  /\ pc = "search" /\ Built
  /\ IF h < host_count
       THEN /\ pc' = "scan"
            /\ dist' = [u \in Nodes |-> IF u = host_at(h) THEN 0 ELSE kUnreachable]
            /\ frontier' = <<host_at(h)>>
            /\ depth' = 1 /\ port' = 0 /\ next' = <<>>
       ELSE pc' = "pack" /\ UNCHANGED search
  /\ UNCHANGED <<fabric, h, table>>

(* A node without a distance gets one, and a place in the next frontier. *)
Reached(v) == dist[v] # kUnreachable

Look ==
  /\ pc = "scan" /\ frontier # <<>> /\ port < port_count[Head(frontier)]
  /\ LET v == peer(ports_of(Head(frontier))[port + 1])
     IN IF Reached(v) THEN UNCHANGED <<dist, next>>
        ELSE dist' = [dist EXCEPT ![v] = depth] /\ next' = Append(next, v)
  /\ port' = port + 1
  /\ UNCHANGED <<fabric, pc, h, depth, frontier, table>>

NextNode ==
  /\ pc = "scan" /\ frontier # <<>> /\ port = port_count[Head(frontier)]
  /\ frontier' = Tail(frontier) /\ port' = 0
  /\ UNCHANGED <<fabric, pc, h, dist, depth, next, table>>

LevelUncounted ==   \* mutated
  /\ pc = "scan" /\ frontier = <<>>
  /\ IF next = <<>>
       THEN pc' = "collect" /\ UNCHANGED search
       ELSE /\ frontier' = next /\ next' = <<>>
            /\ UNCHANGED <<pc, dist, depth, port>>
  /\ UNCHANGED <<fabric, h, table>>

Level ==
  /\ pc = "scan" /\ frontier = <<>>
  /\ IF next = <<>>
       THEN pc' = "collect" /\ UNCHANGED search
       ELSE /\ frontier' = next /\ next' = <<>> /\ depth' = Plus(depth, 1)
            /\ UNCHANGED <<pc, dist, port>>
  /\ UNCHANGED <<fabric, h, table>>

AnyPort(u) == IF dist[u] \in {0, kUnreachable} THEN <<>> ELSE ports_of(u)   \* mutated

(* The ports of u one hop closer; none at the host itself or out of its reach. *)
NextHopsOf(u) ==
  IF dist[u] \in {0, kUnreachable} THEN <<>>
  ELSE Those(ports_of(u), {p \in ToSet(ports_of(u)) : Plus(dist[peer(p)], 1) = dist[u]})

Collect ==
  /\ pc = "collect"
  /\ per_cell' = [c \in Cells |-> IF c = cell(c \div host_count, h)
                                    THEN NextHopsOf(c \div host_count)
                                    ELSE per_cell[c]]
  /\ h' = h + 1 /\ pc' = "search"
  /\ UNCHANGED <<fabric, search, offsets, entries>>

(* The prefix sum and the copy of the rows are two loops over the cells; the
   sum so far is the length of what is copied so far. *)
Pack ==
  /\ pc = "pack"
  /\ offsets' = Append(offsets, Len(entries))
  /\ IF Len(offsets) \in Cells
       THEN entries' = entries \o per_cell[Len(offsets)] /\ UNCHANGED pc
       ELSE pc' = "done" /\ UNCHANGED entries
  /\ UNCHANGED <<fabric, h, search, per_cell>>

CandidatesByHost(u, k) ==   \* mutated
  LET c == k * Size(plan) + u IN SubSeq(entries, offsets[c + 1] + 1, offsets[c + 2])

candidates(u, k) ==
  SubSeq(entries, offsets[cell(u, k) + 1] + 1, offsets[cell(u, k) + 2])

Build == Materialise /\ UNCHANGED <<pc, h, search, table>>

TableNext == Build \/ Search \/ Look \/ NextNode \/ Level \/ Collect \/ Pack

TableSpec == TableInit /\ [][TableNext]_tableVars

-----------------------------------------------------------------------------
(* The reference: the nodes at most r links away from s. *)
Ball(s, r) ==
  LET Within[d \in 0 .. r] ==
        IF d = 0 THEN {s}
        ELSE LET B == Within[d - 1]
                 leaving == {e \in ToSet(plan.edges) : {e[1], e[2]} \cap B # {}}
             IN  B \cup UNION {{e[1], e[2]} : e \in leaving}
  IN Within[r]

(* The search is complete level by level although it only looks at ports of the
   frontier: below depth every distance is exact; what has depth is one link
   further out; and a node one link further out that is still missing hangs on
   a port not yet looked at. *)
LevelOrder ==
  pc = "scan" =>
    LET s     == host_at(h)
        At(d) == {v \in Nodes : dist[v] = d}
        Hangs(v, u) == \E i \in DOMAIN ports_of(u) :
                         /\ peer(ports_of(u)[i]) = v
                         /\ u = Head(frontier) => i > port
    IN /\ \A d \in 0 .. depth - 1 : {v \in Nodes : dist[v] <= d} = Ball(s, d)
       /\ At(depth) \subseteq Ball(s, depth)
       /\ ToSet(next) = At(depth) /\ IsInjective(next)
       /\ \A v \in Ball(s, depth) :
            ~Reached(v) => \E u \in ToSet(frontier) : Hangs(v, u)

(* The finished table: from every node to every host, the candidates read back
   through the offsets are ports of that node and of no other, exactly those whose
   far end is strictly closer, each once and in port order, the order in which the
   policies count them.  A host has none to itself, nor has a node that cannot
   reach it. *)
NextHopsTo(k) ==
  LET down == Downhill(plan, host_at(k))
  IN  \A u \in Nodes : /\ ToSet(candidates(u, k)) \subseteq ToSet(ports_of(u))
                       /\ PeersOf(candidates(u, k)) = NextNodes(plan, down, u)
                       /\ IsInjective(candidates(u, k))

NextHops == pc = "done" => \A k \in 0 .. host_count - 1 : NextHopsTo(k)
=============================================================================
