-------------------------- MODULE SimulationProofs --------------------------
(***************************************************************************)
(* Theorems about Simulation for every fabric, table, transport and set of *)
(* flows that ScenariosAssumption admits.                                  *)
(*                                                                         *)
(* The state is one record and a handler an operator on it, so invariants  *)
(* and lemmas are over records: Good holds of what every call a handler    *)
(* makes is given and returns, AllRest only between events, when the       *)
(* handler has called try_send for whatever made room.  The calls are      *)
(* treated from the inside out: start_tx, enqueue, send_packet, a turn of  *)
(* the send loop, try_send, then the handlers, then a step of the loop.    *)
(***************************************************************************)
EXTENDS Simulation, FiniteSetTheorems, SequenceTheorems, WellFoundedInduction, TLAPS

-----------------------------------------------------------------------------
(* Arithmetic *)

LEMMA DivFacts ==
  ASSUME NEW a \in Nat, NEW b \in Nat \ {0}
  PROVE  a \div b \in Nat /\ (a \div b) * b <= a /\ a < (a \div b) * b + b
<1> DEFINE d == a \div b
           m == a % b
<1>1. d \in Nat /\ m \in Nat /\ m < b /\ a = d * b + m
  BY SMT
<1> HIDE DEF d, m
<1>2. d * b \in Nat
  BY <1>1
<1>3. d \in Nat /\ d * b <= a /\ a < d * b + b
  BY <1>1, <1>2
<1> QED BY <1>3 DEF d

LEMMA NatMinimum ==
  ASSUME NEW T, T \subseteq Nat, T # {}
  PROVE  Min(T) \in T /\ \A n \in T : Min(T) <= n
<1>1. \E m \in T : \A n \in T : <<n, m>> \notin OpToRel(<, Nat)
  BY NatLessThanWellFounded, WFMin
<1>2. \A m, n \in Nat : n < m => <<n, m>> \in OpToRel(<, Nat)
  BY DEF OpToRel
<1>3. PICK m \in T : \A n \in T : ~(n < m)
  BY <1>1, <1>2
<1>4. \A n \in T : m <= n
  BY <1>3, SMT
<1> QED BY <1>4 DEF Min

LEMMA MinOfTwo ==
  ASSUME NEW a \in Nat, NEW b \in Nat
  PROVE  Min({a, b}) \in {a, b} /\ Min({a, b}) <= a /\ Min({a, b}) <= b
<1>1. {a, b} \subseteq Nat /\ {a, b} # {}
  OBVIOUS
<1> QED BY <1>1, NatMinimum

LEMMA MaxOfTwo ==
  ASSUME NEW a \in Nat, NEW b \in Nat
  PROVE  Max({a, b}) \in {a, b} /\ Max({a, b}) >= a /\ Max({a, b}) >= b
<1>1. \E x \in {a, b} : \A y \in {a, b} : x >= y
  OBVIOUS
<1> QED BY <1>1 DEF Max

-----------------------------------------------------------------------------
(* The policies: any range of the hash, 2^32 in the code. *)

Hashes == 0 .. HashRange - 1

(* The quotient that brackets a number is its integer division. *)
LEMMA Quotient == ASSUME NEW a \in Nat, NEW r \in Nat \ {0}, NEW q \in Nat,
                         q * r <= a, a < q * r + r
                  PROVE  a \div r = q
<1> DEFINE d == a \div r
           m == a % r
<1>1. d \in Nat /\ m \in Nat /\ m < r /\ a = d * r + m
  BY SMT
<1> HIDE DEF d, m
<1>2. CASE d < q
  <2>1. d + 1 <= q
    BY <1>1, <1>2, SMT
  <2>2. (d + 1) * r <= q * r
    BY <1>1, <2>1, SMT
  <2> QED
    BY <1>1, <2>2, SMT
<1>3. CASE d > q
  <2>1. q + 1 <= d
    BY <1>1, <1>3, SMT
  <2>2. (q + 1) * r <= d * r
    BY <1>1, <2>1, SMT
  <2> QED
    BY <1>1, <2>2, SMT
<1> QED
  BY <1>1, <1>2, <1>3, SMT DEF d

(* hash_to_index(hash, n) < n. *)
THEOREM IndexBelow == ASSUME NEW hash \in Hashes, NEW n \in Nat \ {0}
                      PROVE  hash_to_index(hash, n) \in 0 .. n - 1
<1> DEFINE a == hash * n
           d == a \div HashRange
<1>1. HashRange \in Nat \ {0} /\ hash \in Nat /\ hash <= HashRange - 1
  BY HashRangeAssumption, SMT DEF Hashes
<1>2. a \in Nat /\ a <= (HashRange - 1) * n
  BY <1>1, SMT
<1>3. a < HashRange * n
  BY <1>1, <1>2, SMT
<1> HIDE DEF a
<1>4. d \in Nat /\ d * HashRange <= a
  BY <1>1, <1>2, SMT
<1> HIDE DEF d
<1>5. d < n
  <2>1. SUFFICES ASSUME n <= d  PROVE FALSE
    BY <1>4, SMT
  <2>2. n * HashRange <= d * HashRange
    BY <1>1, <1>4, <2>1, SMT
  <2> QED
    BY <1>1, <1>2, <1>3, <1>4, <2>2, SMT
<1> QED
  BY <1>4, <1>5, SMT DEF hash_to_index, a, d

(* EcmpPolicy::select returns one of the candidates it was given. *)
THEOREM EcmpPicks == ASSUME NEW S, NEW cand \in Seq(S), cand # <<>>, NEW hash \in Hashes
                     PROVE  EcmpPolicy(hash, cand) \in S
<1>1. Len(cand) \in Nat \ {0}
  BY SMT
<1>2. hash_to_index(hash, Len(cand)) \in 0 .. Len(cand) - 1
  BY <1>1, IndexBelow
<1> QED
  BY <1>1, <1>2, SMT DEF EcmpPolicy

(* No equal-cost path is out of ECMP's reach when there are no more of them *)
(* than hashes: the candidate i is picked by the hash that rounds i up.     *)
THEOREM EcmpReaches ==
  ASSUME NEW n \in Nat \ {0}, n <= HashRange, NEW i \in 0 .. n - 1
  PROVE  \E hash \in Hashes : hash_to_index(hash, n) = i
<1> DEFINE q == (i * HashRange + n - 1) \div n
           m == (i * HashRange + n - 1) % n
<1>1. HashRange \in Nat \ {0} /\ i \in Nat /\ i + 1 <= n
  BY HashRangeAssumption, SMT
<1>2. i * HashRange + n - 1 \in Nat /\ i * HashRange \in Nat
  BY <1>1, SMT
<1>3. q \in Nat /\ m \in Nat /\ m < n /\ i * HashRange + n - 1 = q * n + m
  BY <1>2, SMT
<1> HIDE DEF q, m
<1>4. q * n \in Nat /\ i * HashRange <= q * n /\ q * n < i * HashRange + HashRange
  BY <1>1, <1>2, <1>3, SMT
<1>5. (i + 1) * HashRange <= n * HashRange
  BY <1>1, SMT
<1>6. q < HashRange
  <2>1. SUFFICES ASSUME HashRange <= q  PROVE FALSE
    BY <1>1, <1>3, SMT
  <2>2. HashRange * n <= q * n
    BY <1>1, <1>3, <2>1, SMT
  <2> QED
    BY <1>1, <1>4, <1>5, <2>2, SMT
<1>7. hash_to_index(q, n) = i
  BY <1>1, <1>4, Quotient DEF hash_to_index
<1> QED
  BY <1>1, <1>3, <1>6, <1>7, SMT DEF Hashes

-----------------------------------------------------------------------------
(* What the configuration is *)

Settled == setting \in DOMAIN Scenarios

LEMMA SpecFacts ==
  ASSUME Settled
  PROVE  /\ Len(spec) \in Nat /\ Flow = 1 .. Len(spec)
         /\ \A f \in Flow : IsFlow(cfg, f)
<1>1. IsScenario(cfg)
  BY ScenariosAssumption DEF Settled, cfg
<1> QED
  BY <1>1 DEF IsScenario, Flow, spec

LEMMA FlowFacts ==
  ASSUME Settled, NEW f \in Flow
  PROVE  /\ f \in Nat \ {0}
         /\ spec[f].mtu_bytes \in Nat \ {0} /\ spec[f].size_bytes \in Nat \ {0}
         /\ spec[f].start_ns \in Nat /\ spec[f].window_pkts \in Nat
         /\ spec[f].src \in ToSet(cfg.fabric.hosts)
         /\ spec[f].dst \in ToSet(cfg.fabric.hosts)
         /\ spec[f].load_permille \in Nat \ {0}
         /\ spec[f].depends_on \in Nat /\ spec[f].depends_on < f
         /\ spec[f].depends_on # 0 => spec[f].depends_on \in Flow
<1>1. Len(spec) \in Nat /\ Flow = 1 .. Len(spec) /\ IsFlow(cfg, f)
  BY SpecFacts
<1>2. /\ {spec[f].mtu_bytes, spec[f].size_bytes} \subseteq Nat \ {0}
      /\ {spec[f].start_ns, spec[f].window_pkts} \subseteq Nat
      /\ {spec[f].src, spec[f].dst} \subseteq ToSet(cfg.fabric.hosts)
      /\ spec[f].load_permille \in 1 .. 1000
      /\ spec[f].depends_on \in 0 .. f - 1
  BY <1>1, ZenonT(60) DEF IsFlow, spec
<1>3. f \in Nat \ {0}
  BY <1>1
<1>4. spec[f].load_permille \in Nat \ {0}
  <2>1. spec[f].load_permille \in 1 .. 1000
    BY <1>2
  <2> DEFINE l == spec[f].load_permille
  <2> HIDE DEF l
  <2>2. l \in 1 .. 1000 => l \in Nat \ {0}
    OBVIOUS
  <2> QED BY <2>1, <2>2 DEF l
<1>5. /\ spec[f].depends_on \in Nat /\ spec[f].depends_on < f
      /\ spec[f].depends_on # 0 => spec[f].depends_on \in Flow
  BY <1>1, <1>2, <1>3
<1> QED
  BY <1>2, <1>3, <1>4, <1>5

LEMMA CfgFacts ==
  ASSUME Settled
  PROVE  /\ rto_ns \in Nat \ {0} /\ max_attempts \in Nat \ {0} /\ ack_bytes \in Nat \ {0}
         /\ cfg.routing \in RoutingAlgorithm
         /\ cfg.runs \in {1, 2}
         /\ IsFiniteSet(Port)
         /\ \A p \in Port : /\ link(p).rate \in Nat \ {0}
                            /\ link(p).prop_delay_ns \in Nat
                            /\ link(p).queue_capacity_pkts \in Nat
         /\ \A p \in Port : p[1] # p[2]
         /\ \A h \in ToSet(cfg.fabric.hosts) :
              /\ is_host(h)
              /\ nic(h) \in Port /\ nic(h)[1] = h /\ ~is_host(nic(h)[2])
<1>1. IsScenario(cfg)
  BY ScenariosAssumption DEF Settled, cfg
<1> DEFINE c == cfg
<1>2. /\ rto_ns \in Nat \ {0} /\ max_attempts \in Nat \ {0} /\ ack_bytes \in Nat \ {0}
      /\ cfg.routing \in RoutingAlgorithm /\ cfg.runs \in {1, 2}
  BY <1>1 DEF IsScenario, rto_ns, max_attempts, ack_bytes
<1>3. IsRouted(cfg.fabric) /\ IsLink(cfg.host_link) /\ IsLink(cfg.fabric_link)
  BY <1>1 DEF IsScenario
<1>4. \A p \in Port : /\ link(p).rate \in Nat \ {0}
                      /\ link(p).prop_delay_ns \in Nat
                      /\ link(p).queue_capacity_pkts \in Nat
  BY <1>3 DEF IsLink, link
<1>5. IsFiniteSet(Port) /\ \A p \in Port : p[1] # p[2]
  BY <1>3 DEF IsRouted, Port
<1>6. \A h \in ToSet(cfg.fabric.hosts) :
              /\ is_host(h)
              /\ nic(h) \in Port /\ nic(h)[1] = h /\ ~is_host(nic(h)[2])
  BY <1>3 DEF IsRouted, Port, nic, is_host
<1> QED
  BY <1>2, <1>4, <1>5, <1>6

LEMMA PacketsFacts ==
  ASSUME Settled, NEW f \in Flow
  PROVE  /\ Packets(f) \in Nat \ {0}
         /\ Window(f) \in Nat \ {0} /\ Window(f) <= Packets(f)
         /\ \A i \in Index(f) : i \in Nat /\ i < Packets(f) /\ i * spec[f].mtu_bytes < spec[f].size_bytes
<1> DEFINE s == spec[f].size_bytes
           m == spec[f].mtu_bytes
           d == (s + m - 1) \div m
<1>1. s \in Nat \ {0} /\ m \in Nat \ {0} /\ spec[f].window_pkts \in Nat
  BY FlowFacts
<1> HIDE DEF s, m
<1>2. s + m - 1 \in Nat
  BY <1>1
<1>3. d \in Nat /\ d * m <= s + m - 1 /\ s + m - 1 < d * m + m
  BY <1>1, <1>2, DivFacts
<1> HIDE DEF d
<1>4. d # 0
  BY <1>1, <1>3
<1>5. ASSUME NEW i \in 0 .. d - 1
      PROVE  i \in Nat /\ i < d /\ i * m < s
  <2>1. i \in Nat /\ i + 1 <= d
    BY <1>3
  <2>2. (i + 1) * m <= d * m
    BY <1>1, <1>3, <2>1
  <2>3. i * m \in Nat /\ d * m \in Nat /\ (i + 1) * m = i * m + m
    BY <1>1, <1>3, <2>1
  <2> QED BY <1>1, <1>3, <2>1, <2>2, <2>3
<1>6. Packets(f) = d
  BY DEF Packets, d, s, m
<1>7. Window(f) \in Nat \ {0} /\ Window(f) <= d
  <2>1. Min({spec[f].window_pkts, d}) \in {spec[f].window_pkts, d}
        /\ Min({spec[f].window_pkts, d}) <= d
    BY <1>1, <1>3, MinOfTwo
  <2> DEFINE n == Min({spec[f].window_pkts, d})
  <2>2. n \in Nat /\ n <= d
    BY <1>1, <1>3, <2>1
  <2> HIDE DEF n
  <2>3. Max({1, n}) \in {1, n} /\ Max({1, n}) >= 1
    BY <2>2, MaxOfTwo
  <2>4. Window(f) = Max({1, n})
    BY <1>6 DEF Window, n
  <2> QED BY <1>3, <1>4, <2>2, <2>3, <2>4
<1> QED BY <1>3, <1>4, <1>5, <1>6, <1>7 DEF Index, s, m

IsPacket(pkt) == pkt \in [flow : Flow, index : Nat, kind : Kind, bytes : Nat]
                 /\ pkt.index \in Index(pkt.flow)

LEMMA SendFacts ==
  ASSUME Settled, NEW f \in Flow
  PROVE  /\ period_ns(f) \in Nat
         /\ nic(spec[f].src) \in Port /\ ~is_host(nic(spec[f].src)[2])
         /\ nic(spec[f].dst) \in Port /\ ~is_host(nic(spec[f].dst)[2])
         /\ nic(spec[f].src)[1] = spec[f].src /\ nic(spec[f].dst)[1] = spec[f].dst
         /\ \A i \in Index(f) : IsPacket(DataPacket(f, i)) /\ IsPacket(AckPacket(f, i))
<1>1. /\ nic(spec[f].src) \in Port /\ ~is_host(nic(spec[f].src)[2])
      /\ nic(spec[f].dst) \in Port /\ ~is_host(nic(spec[f].dst)[2])
      /\ nic(spec[f].src)[1] = spec[f].src /\ nic(spec[f].dst)[1] = spec[f].dst
  BY FlowFacts, CfgFacts
<1>2. period_ns(f) \in Nat
  <2> DEFINE r == link(nic(spec[f].src)).rate
             a == spec[f].mtu_bytes
             l == spec[f].load_permille
             t == (a * 8) \div r
  <2>1. r \in Nat \ {0} /\ a \in Nat /\ l \in Nat \ {0}
    BY <1>1, FlowFacts, CfgFacts
  <2> HIDE DEF r, a, l
  <2>2. a * 8 \in Nat
    BY <2>1
  <2>3. t \in Nat
    BY <2>1, <2>2, DivFacts
  <2> HIDE DEF t
  <2>4. t * 1000 \in Nat
    BY <2>3
  <2>5. (t * 1000) \div l \in Nat
    BY <2>1, <2>4, DivFacts
  <2> QED BY <2>5 DEF period_ns, serialization_ns, t, r, a, l
<1>3. ASSUME NEW i \in Index(f)
      PROVE  IsPacket(DataPacket(f, i)) /\ IsPacket(AckPacket(f, i))
  <2> DEFINE s == spec[f].size_bytes
             m == spec[f].mtu_bytes
             b == Min({s - i * m, m})
  <2>1. s \in Nat /\ m \in Nat /\ i \in Nat /\ i * m < s
    BY FlowFacts, PacketsFacts
  <2> HIDE DEF s, m
  <2>2. s - i * m \in Nat
    BY <2>1
  <2>3. b \in Nat
    BY <2>1, <2>2, MinOfTwo
  <2> HIDE DEF b
  <2>4. DataPacket(f, i) = [flow |-> f, index |-> i, kind |-> "Data", bytes |-> b]
    BY DEF DataPacket, b, s, m
  <2>5. AckPacket(f, i) = [flow |-> f, index |-> i, kind |-> "Ack", bytes |-> ack_bytes]
    BY DEF AckPacket
  <2>6. ack_bytes \in Nat
    BY CfgFacts
  <2> QED BY <2>1, <2>3, <2>4, <2>5, <2>6 DEF IsPacket, Kind
<1> QED BY <1>1, <1>2, <1>3

(* Every switch sends a packet on to a switch or to its own host. *)
LEMMA SelectFacts ==
  ASSUME Settled, NEW pkt, IsPacket(pkt), NEW u, ~is_host(u)
  PROVE  /\ select(pkt, u) \in Port /\ select(pkt, u)[1] = u
         /\ is_host(select(pkt, u)[2]) => select(pkt, u)[2] = Home(pkt.flow, pkt.kind)
<1> DEFINE f == pkt.flow
           h == Home(f, pkt.kind)
           cand == candidates(u, h)
<1>1. f \in Flow /\ pkt.kind \in Kind
  BY DEF IsPacket
<1>2. h \in ToSet(cfg.fabric.hosts) /\ u \in cfg.fabric.switch
  BY <1>1, FlowFacts DEF Home, is_host
<1>3. IsRouted(cfg.fabric)
  BY ScenariosAssumption DEF Settled, cfg, IsScenario
<1>4. /\ cand \in Seq(Port) \ {<<>>}
      /\ \A p \in ToSet(cand) : p[1] = u /\ p[2] \in cfg.fabric.switch \cup {h}
  BY <1>2, <1>3 DEF IsRouted, candidates, Port
<1>5. select(pkt, u) \in ToSet(cand)
  <2>1. CASE cfg.routing = "StaticFirst"
    <3>1. select(pkt, u) = cand[1]
      BY <2>1 DEF select, StaticFirstPolicy
    <3> HIDE DEF cand
    <3>2. 1 \in DOMAIN cand
      BY <1>4
    <3> QED BY <3>1, <3>2 DEF ToSet
  <2>2. CASE cfg.routing = "Ecmp"
    <3> DEFINE key == Key(f, pkt.kind)
               hash == cfg.hash[<<u, key>>]
    <3>1. key \in {fwd_key(cfg, f), Reversed(fwd_key(cfg, f))}
      BY DEF Key
    <3>2. IsFlow(cfg, f)
      BY <1>1, SpecFacts
    <3>3. hash \in Hashes
      <4>1. \A v \in cfg.fabric.switch, k \in {fwd_key(cfg, f), Reversed(fwd_key(cfg, f))} :
              cfg.hash[<<v, k>>] \in 0 .. HashRange - 1
        BY <2>2, <3>2, ZenonT(60) DEF IsFlow
      <4> HIDE DEF key
      <4> QED BY <1>2, <3>1, <4>1 DEF Hashes
    <3>4. select(pkt, u) = EcmpPolicy(hash, cand)
      BY <2>2 DEF select
    <3> HIDE DEF cand, hash
    <3>5. cand \in Seq(ToSet(cand))
      BY <1>4 DEF ToSet
    <3>6. EcmpPolicy(hash, cand) \in ToSet(cand)
      BY <1>4, <3>3, <3>5, EcmpPicks
    <3> QED BY <3>4, <3>6
  <2> QED BY <2>1, <2>2, CfgFacts DEF RoutingAlgorithm
<1>6. select(pkt, u) \in Port
  <2> HIDE DEF cand
  <2>1. ToSet(cand) \subseteq Port
    BY <1>4 DEF ToSet
  <2> QED BY <1>5, <2>1
<1>7. select(pkt, u)[1] = u /\ select(pkt, u)[2] \in cfg.fabric.switch \cup {h}
  BY <1>4, <1>5
<1> QED BY <1>6, <1>7 DEF is_host

-----------------------------------------------------------------------------
(* build_dependents: every flow that waits has a slot of its own, among    *)
(* those of the flow it waits for.                                         *)

LEMMA Interval ==
  ASSUME NEW n \in Nat
  PROVE  IsFiniteSet(1 .. n) /\ Cardinality(1 .. n) = n
<1>1. 1 \in Int /\ n \in Int /\ (IF 1 > n THEN 0 ELSE n - 1 + 1) = n
  OBVIOUS
<1> QED BY <1>1, FS_Interval

WaitFor(f) == {d \in Flow : spec[d].depends_on = f}
WaitBefore(f) == {d \in Flow : spec[d].depends_on \in 1 .. f - 1}
UpTo(f, d) == {c \in 1 .. d : spec[c].depends_on = f}

LEMMA OffsetFacts ==
  ASSUME Settled
  PROVE  /\ IsFiniteSet(Flow)
         /\ \A f \in 1 .. Len(spec) + 1 : dependents_offset(f) \in Nat
         /\ \A f \in Flow : /\ IsFiniteSet(WaitFor(f)) /\ Cardinality(WaitFor(f)) \in Nat
                            /\ dependents_offset(f + 1)
                                 = dependents_offset(f) + Cardinality(WaitFor(f))
         /\ \A f, g \in 1 .. Len(spec) + 1 : f <= g => dependents_offset(f) <= dependents_offset(g)
<1>1. Len(spec) \in Nat /\ Flow = 1 .. Len(spec)
  BY SpecFacts
<1>2. IsFiniteSet(Flow)
  BY <1>1, Interval
<1>3. \A f : /\ IsFiniteSet(WaitFor(f)) /\ Cardinality(WaitFor(f)) \in Nat
             /\ IsFiniteSet(WaitBefore(f)) /\ Cardinality(WaitBefore(f)) \in Nat
  <2> TAKE f
  <2>1. WaitFor(f) \in SUBSET Flow /\ WaitBefore(f) \in SUBSET Flow
    BY DEF WaitFor, WaitBefore
  <2>2. IsFiniteSet(WaitFor(f)) /\ IsFiniteSet(WaitBefore(f))
    BY <1>2, <2>1, FS_Subset
  <2> QED BY <2>2, FS_CardinalityType
<1>4. \A f : dependents_offset(f) = Cardinality(WaitBefore(f))
  BY DEF dependents_offset, WaitBefore
<1>5. ASSUME NEW f \in Flow
      PROVE  dependents_offset(f + 1) = dependents_offset(f) + Cardinality(WaitFor(f))
  <2>1. f \in Nat \ {0} /\ \A d \in Flow : spec[d].depends_on \in Nat
    BY FlowFacts
  <2>2. WaitBefore(f + 1) = WaitBefore(f) \cup WaitFor(f)
    <3>1. \A x \in Nat : x \in 1 .. f + 1 - 1 <=> x \in 1 .. f - 1 \/ x = f
      BY <2>1
    <3> QED BY <2>1, <3>1 DEF WaitBefore, WaitFor
  <2>3. WaitBefore(f) \cap WaitFor(f) = {}
    <3>1. \A x \in 1 .. f - 1 : x # f
      BY <2>1
    <3> QED BY <3>1 DEF WaitBefore, WaitFor
  <2>4. Cardinality(WaitBefore(f) \cap WaitFor(f)) = 0
    BY <2>3, FS_EmptySet
  <2>5. Cardinality(WaitBefore(f + 1))
          = Cardinality(WaitBefore(f)) + Cardinality(WaitFor(f))
              - Cardinality(WaitBefore(f) \cap WaitFor(f))
    BY <1>3, <2>2, FS_Union
  <2> QED BY <1>3, <1>4, <2>4, <2>5
<1>6. ASSUME NEW f \in 1 .. Len(spec) + 1, NEW g \in 1 .. Len(spec) + 1, f <= g
      PROVE  dependents_offset(f) <= dependents_offset(g)
  <2>1. WaitBefore(f) \in SUBSET WaitBefore(g)
    <3>1. \A x \in 1 .. f - 1 : x \in 1 .. g - 1
      BY <1>1, <1>6
    <3> QED BY <3>1 DEF WaitBefore
  <2> QED BY <1>3, <1>4, <2>1, FS_Subset
<1> QED BY <1>2, <1>3, <1>4, <1>5, <1>6

LEMMA SlotFacts ==
  ASSUME Settled, NEW f \in Flow, NEW d \in WaitFor(f)
  PROVE  /\ slot(d) \in Nat /\ slot(d) = dependents_offset(f) + Cardinality(UpTo(f, d))
         /\ slot(d) > dependents_offset(f) /\ slot(d) <= dependents_offset(f + 1)
         /\ IsFiniteSet(UpTo(f, d)) /\ UpTo(f, d) \subseteq WaitFor(f) /\ d \in UpTo(f, d)
<1>1. /\ Len(spec) \in Nat /\ Flow = 1 .. Len(spec)
      /\ d \in Flow /\ spec[d].depends_on = f
  BY SpecFacts DEF WaitFor
<1>2. UpTo(f, d) \subseteq WaitFor(f) /\ d \in UpTo(f, d)
  BY <1>1 DEF UpTo, WaitFor
<1>3. /\ dependents_offset(f) \in Nat
      /\ IsFiniteSet(WaitFor(f)) /\ Cardinality(WaitFor(f)) \in Nat
      /\ dependents_offset(f + 1) = dependents_offset(f) + Cardinality(WaitFor(f))
  BY <1>1, OffsetFacts
<1>4. IsFiniteSet(UpTo(f, d)) /\ Cardinality(UpTo(f, d)) <= Cardinality(WaitFor(f))
  BY <1>2, <1>3, FS_Subset
<1>5. Cardinality(UpTo(f, d)) \in Nat /\ Cardinality(UpTo(f, d)) # 0
  BY <1>2, <1>4, FS_CardinalityType, FS_EmptySet
<1>6. slot(d) = dependents_offset(f) + Cardinality(UpTo(f, d))
  BY <1>1 DEF slot, UpTo
<1> QED BY <1>2, <1>3, <1>4, <1>5, <1>6

LEMMA SlotInjective ==
  ASSUME Settled,
         NEW f \in Flow, NEW d \in WaitFor(f), NEW g \in Flow, NEW e \in WaitFor(g),
         slot(d) = slot(e)
  PROVE  d = e
<1>1. Len(spec) \in Nat /\ Flow = 1 .. Len(spec)
  BY SpecFacts
<1>2. ASSUME NEW x \in Flow, NEW y \in Flow, x < y
      PROVE  \A a \in WaitFor(x), b \in WaitFor(y) : slot(a) < slot(b)
  <2>1. x + 1 \in 1 .. Len(spec) + 1 /\ y \in 1 .. Len(spec) + 1 /\ x + 1 <= y
    BY <1>1, <1>2
  <2>2. /\ dependents_offset(x + 1) <= dependents_offset(y)
        /\ dependents_offset(x + 1) \in Nat /\ dependents_offset(y) \in Nat
    BY <2>1, OffsetFacts
  <2>3. ASSUME NEW a \in WaitFor(x), NEW b \in WaitFor(y)
        PROVE  slot(a) < slot(b)
    <3>1. slot(a) \in Nat /\ slot(a) <= dependents_offset(x + 1)
      BY SlotFacts
    <3>2. slot(b) \in Nat /\ slot(b) > dependents_offset(y)
      BY SlotFacts
    <3> QED BY <2>2, <3>1, <3>2
  <2> QED BY <2>3
<1>3. slot(d) \in Nat /\ slot(e) \in Nat
  BY SlotFacts
<1>4. ~(slot(d) < slot(e)) /\ ~(slot(e) < slot(d))
  BY <1>3
<1>5. f = g
  <2>1. ~(f < g) /\ ~(g < f)
    BY <1>2, <1>4
  <2> QED BY <1>1, <2>1
<1>6. ASSUME NEW a \in WaitFor(f), NEW b \in WaitFor(f), a < b
      PROVE  slot(a) < slot(b)
  <2>1. /\ IsFiniteSet(UpTo(f, b)) /\ b \in UpTo(f, b)
        /\ slot(b) = dependents_offset(f) + Cardinality(UpTo(f, b))
        /\ IsFiniteSet(UpTo(f, a))
        /\ slot(a) = dependents_offset(f) + Cardinality(UpTo(f, a))
    BY SlotFacts
  <2>2. UpTo(f, a) \in SUBSET (UpTo(f, b) \ {b})
    <3>1. a \in Nat /\ b \in Nat
      BY <1>1 DEF WaitFor
    <3>2. \A c \in 1 .. a : c \in 1 .. b /\ c # b
      BY <1>6, <3>1
    <3> QED BY <3>2 DEF UpTo
  <2>3. IsFiniteSet(UpTo(f, b) \ {b}) /\ Cardinality(UpTo(f, b) \ {b}) = Cardinality(UpTo(f, b)) - 1
    BY <2>1, FS_RemoveElement
  <2>4. Cardinality(UpTo(f, a)) <= Cardinality(UpTo(f, b) \ {b})
    BY <2>2, <2>3, FS_Subset
  <2>5. Cardinality(UpTo(f, a)) \in Nat /\ Cardinality(UpTo(f, b)) \in Nat
    BY <2>1, FS_CardinalityType
  <2>6. dependents_offset(f) \in Nat
    BY <1>1, OffsetFacts
  <2> QED BY <2>1, <2>3, <2>4, <2>5, <2>6
<1>7. d \in Nat /\ e \in Nat
  BY <1>1 DEF WaitFor
<1>8. ~(d < e) /\ ~(e < d)
  BY <1>4, <1>5, <1>6
<1> QED BY <1>7, <1>8

LEMMA SlotOnto ==
  ASSUME Settled, NEW f \in Flow,
         NEW k \in dependents_offset(f) + 1 .. dependents_offset(f + 1)
  PROVE  \E d \in WaitFor(f) : slot(d) = k
<1> DEFINE a == dependents_offset(f)
           b == dependents_offset(f + 1)
           T == a + 1 .. b
           s == [d \in WaitFor(f) |-> slot(d)]
<1>1. /\ a \in Nat /\ IsFiniteSet(WaitFor(f)) /\ Cardinality(WaitFor(f)) \in Nat
      /\ b = a + Cardinality(WaitFor(f))
  <2>1. f \in 1 .. Len(spec) + 1
    BY SpecFacts
  <2> QED BY <2>1, OffsetFacts
<1>2. \A d \in WaitFor(f) : slot(d) \in Nat /\ slot(d) > a /\ slot(d) <= b
  BY SlotFacts
<1>3. \A d, e \in WaitFor(f) : slot(d) = slot(e) => d = e
  BY SlotInjective
<1> HIDE DEF a, b
<1>4. IsFiniteSet(T) /\ Cardinality(T) = Cardinality(WaitFor(f))
  <2>1. a + 1 \in Int /\ b \in Int
        /\ (IF a + 1 > b THEN 0 ELSE b - (a + 1) + 1) = Cardinality(WaitFor(f))
    BY <1>1
  <2> QED BY <2>1, FS_Interval
<1>5. s \in Injection(WaitFor(f), T)
  <2>1. \A d \in WaitFor(f) : slot(d) \in T
    BY <1>1, <1>2
  <2>2. s \in [WaitFor(f) -> T]
    BY <2>1
  <2>3. IsInjective(s)
    BY <1>3 DEF IsInjective
  <2> QED BY <2>2, <2>3 DEF Injection
<1>6. s \in Surjection(WaitFor(f), T)
  <2> HIDE DEF s, T
  <2> QED BY <1>4, <1>5, FS_Injection
<1>7. \A t \in T : \E d \in WaitFor(f) : s[d] = t
  BY <1>6 DEF Surjection
<1>8. k \in T
  BY DEF a, b
<1> QED BY <1>7, <1>8

(* complete_flow releases the flows that wait for this one, and no other. *)
LEMMA DependentsFacts ==
  ASSUME Settled, NEW f \in Flow
  PROVE  /\ Dependents(f) \in Seq(WaitFor(f))
         /\ Len(Dependents(f)) \in Nat
         /\ Len(Dependents(f)) = dependents_offset(f + 1) - dependents_offset(f)
         /\ \A d \in WaitFor(f) : \E k \in 1 .. Len(Dependents(f)) : Dependents(f)[k] = d
         /\ \A k \in 1 .. Len(Dependents(f)) : /\ Dependents(f)[k] \in WaitFor(f)
                                              /\ slot(Dependents(f)[k]) = k + dependents_offset(f)
<1> DEFINE a == dependents_offset(f)
           b == dependents_offset(f + 1)
           n == dependents_offset(Len(spec) + 1)
           D == Dependents(f)
<1>1. Len(spec) \in Nat /\ Flow = 1 .. Len(spec)
  BY SpecFacts
<1>2. a \in Nat /\ b \in Nat /\ a <= b /\ b <= n /\ n \in Nat
  <2>1. /\ f \in 1 .. Len(spec) + 1 /\ f + 1 \in 1 .. Len(spec) + 1
        /\ Len(spec) + 1 \in 1 .. Len(spec) + 1 /\ f <= f + 1 /\ f + 1 <= Len(spec) + 1
    BY <1>1
  <2> QED BY <2>1, OffsetFacts
<1>3. ASSUME NEW d \in WaitFor(f)
      PROVE  slot(d) \in a + 1 .. b /\ dependents[slot(d)] = d
  <2>1. slot(d) \in Nat /\ slot(d) > a /\ slot(d) <= b
    BY SlotFacts
  <2>2. slot(d) \in 1 .. n
    BY <1>2, <2>1
  <2>3. ASSUME NEW e \in Flow, spec[e].depends_on # 0, slot(e) = slot(d)
        PROVE  e = d
    <3>1. spec[e].depends_on \in Flow
      BY <2>3, FlowFacts
    <3>2. e \in WaitFor(spec[e].depends_on)
      BY DEF WaitFor
    <3> QED BY <2>3, <3>1, <3>2, SlotInjective
  <2>4. d \in Flow /\ spec[d].depends_on # 0
    <3>1. f # 0
      BY <1>1
    <3> QED BY <3>1 DEF WaitFor
  <2>5. (CHOOSE e \in Flow : spec[e].depends_on # 0 /\ slot(e) = slot(d)) = d
    BY <2>3, <2>4
  <2>6. dependents[slot(d)] = d
    BY <2>2, <2>5 DEF dependents
  <2>7. slot(d) \in a + 1 .. b
    BY <1>2, <2>1
  <2> QED BY <2>6, <2>7
<1>4. \A k \in a + 1 .. b : dependents[k] \in WaitFor(f)
  <2> TAKE k \in a + 1 .. b
  <2>1. PICK d \in WaitFor(f) : slot(d) = k
    BY SlotOnto
  <2> QED BY <1>3, <2>1
<1>5. /\ Len(D) = b - a /\ b - a \in Nat
      /\ D \in Seq(WaitFor(f))
      /\ \A i \in 1 .. b - a : D[i] = dependents[i + a]
  <2> DEFINE t == dependents
  <2>1. D = SubSeq(t, a + 1, b)
    BY DEF Dependents
  <2>2. \A k \in a + 1 .. b : t[k] \in WaitFor(f)
    BY <1>4
  <2> HIDE DEF a, b, n, t, D
  <2>3. a + 1 \in Int /\ b \in Int
    BY <1>2
  <2>4. /\ D \in Seq(WaitFor(f))
        /\ Len(D) = IF a + 1 <= b THEN b - (a + 1) + 1 ELSE 0
        /\ \A i \in 1 .. b - (a + 1) + 1 : D[i] = t[(a + 1) + i - 1]
    BY <2>1, <2>2, <2>3, SubSeqProperties
  <2>5. Len(D) = b - a /\ b - a \in Nat /\ b - (a + 1) + 1 = b - a
    BY <1>2, <2>4
  <2>6. ASSUME NEW i \in 1 .. b - a
        PROVE  D[i] = t[i + a]
    <3>1. (a + 1) + i - 1 = i + a
      BY <1>2
    <3> QED BY <2>4, <2>5, <3>1
  <2> QED BY <2>4, <2>5, <2>6 DEF t
<1> HIDE DEF a, b, D
<1>6. ASSUME NEW d \in WaitFor(f)
      PROVE  \E k \in 1 .. Len(D) : D[k] = d
  <2>1. slot(d) - a \in 1 .. b - a /\ (slot(d) - a) + a = slot(d)
    BY <1>2, <1>3
  <2>2. D[slot(d) - a] = d
    BY <1>3, <1>5, <2>1
  <2> QED BY <1>5, <2>1, <2>2
<1>7. ASSUME NEW k \in 1 .. Len(D)
      PROVE  D[k] \in WaitFor(f) /\ slot(D[k]) = k + a
  <2>1. k + a \in a + 1 .. b /\ D[k] = dependents[k + a]
    BY <1>2, <1>5
  <2>2. PICK d \in WaitFor(f) : slot(d) = k + a
    BY <2>1, SlotOnto DEF a, b
  <2> QED BY <1>3, <2>1, <2>2
<1> QED BY <1>5, <1>6, <1>7 DEF D, a, b

-----------------------------------------------------------------------------
(* The inductive invariant, of a state w of the simulator.  Everything but *)
(* Rests holds throughout a handler.                                       *)

EventType == {"Inject", "TxComplete", "Arrive", "Timeout"}

Packet == [flow : Nat, index : Nat, kind : Kind, bytes : Nat]

PendingEvent == [time : Nat, type : EventType, port : Port \cup {<<>>}, pkt : Packet,
                 attempt : Nat, seq : Nat]

PortState == [waiting : Seq(Packet), busy : BOOLEAN, in_flight : Packet,
              sent : Nat, dropped : Nat]

TxState == [next_seq : Nat, in_flight : Nat, retx : Seq(Nat), next_send_ns : Nat,
            send_scheduled : BOOLEAN, failed : BOOLEAN]

FlowResult == [start_ns : Nat, finish_ns : Nat, delivered_bytes : Nat,
               packets_delivered : Nat, packets_dropped : Nat,
               packets_retransmitted : Nat, complete : BOOLEAN, failed : BOOLEAN]

Fields == {"events", "next_seq", "now", "port", "tx", "flying", "acked", "delivered",
           "attempt", "result", "injected", "received", "dropped"}

Typed(w) ==
  /\ DOMAIN w = Fields
  /\ w.events \subseteq PendingEvent /\ w.next_seq \in Nat /\ w.now \in Nat
  /\ w.port \in [Port -> PortState]
  /\ w.tx \in [Flow -> TxState]
  /\ w.flying \in [Flow -> SUBSET Nat] /\ w.acked \in [Flow -> SUBSET Nat]
  /\ w.delivered \in [Flow -> SUBSET Nat]
  /\ DOMAIN w.attempt = Flow
  /\ \A f \in Flow : w.attempt[f] \in [Index(f) -> Nat]
  /\ w.result \in [Flow -> FlowResult]
  /\ w.injected \in [Kind -> Nat] /\ w.received \in [Kind -> Nat] /\ w.dropped \in [Kind -> Nat]

Released(w, f) == spec[f].depends_on # 0 => w.result[spec[f].depends_on].complete

Sent(w, f) == 0 .. w.tx[f].next_seq - 1

(* A packet under way belongs to a flow that has been released; an ack is  *)
(* of a packet delivered.  On a link to a host it is at its destination.   *)
Carried(w, pkt) == /\ IsPacket(pkt) /\ Released(w, pkt.flow)
                   /\ pkt.index \in Sent(w, pkt.flow)
                   /\ pkt.kind = "Ack" => pkt.index \in w.delivered[pkt.flow]

Homeward(w, p, pkt) == /\ Carried(w, pkt)
                       /\ is_host(p[2]) => p[2] = Home(pkt.flow, pkt.kind)

PortSound(w, p) ==
  /\ \A k \in 1 .. Len(w.port[p].waiting) : Homeward(w, p, w.port[p].waiting[k])
  /\ w.port[p].busy => Homeward(w, p, w.port[p].in_flight)

EventSound(w, e) ==
  /\ e.time >= w.now /\ e.seq < w.next_seq
  /\ e.type = "Arrive" => e.port \in Port /\ Homeward(w, e.port, e.pkt)
  /\ e.type = "TxComplete" => e.port \in Port /\ w.port[e.port].busy /\ e.pkt = NoPacket
  /\ e.type \in {"Inject", "Timeout"} =>
       e.pkt.flow \in Flow /\ Released(w, e.pkt.flow)
  /\ e.type = "Timeout" => e.pkt.index \in Index(e.pkt.flow)

(* A port in service waits for one event. *)
OneService(w) ==
  \A d, e \in w.events : d.type = "TxComplete" /\ e.type = "TxComplete" /\ d.port = e.port => d = e

NetSound(w) == /\ \A p \in Port : PortSound(w, p)
               /\ \A e \in w.events : EventSound(w, e)
               /\ OneService(w)

(* The receiver counts what its flags say. *)
Received(w, f) ==
  /\ w.delivered[f] \subseteq Index(f) /\ w.delivered[f] \subseteq Sent(w, f)
  /\ w.acked[f] \subseteq w.delivered[f]
  /\ w.result[f].packets_delivered = Cardinality(w.delivered[f])
  /\ w.result[f].complete <=> w.delivered[f] = Index(f)

(* A dependent flow starts when the flow it waits on is complete. *)
Chained(w, d) ==
  spec[d].depends_on # 0 =>
    LET r == w.result[spec[d].depends_on]
    IN  IF r.complete THEN w.result[d].start_ns = r.finish_ns ELSE w.tx[d].next_seq = 0

InRing(t) == {t.retx[k] : k \in 1 .. Len(t.retx)}

(* What the sender of f has sent is acked, in flight or in the ring: in    *)
(* one of the last two at most, and once.                                  *)
Windowed(w, f) ==
  LET t == w.tx[f]
  IN  /\ t.next_seq <= Packets(f)
      /\ t.in_flight = Cardinality(w.flying[f])
      /\ w.flying[f] \cup InRing(t) \subseteq 0 .. t.next_seq - 1
      /\ w.flying[f] \cap (InRing(t) \cup w.acked[f]) = {}
      /\ \A j, k \in 1 .. Len(t.retx) : t.retx[j] = t.retx[k] => j = k
      /\ t.failed \/ 0 .. t.next_seq - 1 \subseteq w.flying[f] \cup InRing(t) \cup w.acked[f]

(* A timer that would act finds its packet in flight. *)
TimerTrue(w, e) ==
  LET f == e.pkt.flow
      i == e.pkt.index
  IN  /\ e.attempt <= w.attempt[f][i]
      /\ e.attempt = w.attempt[f][i] => w.tx[f].failed \/ i \in w.flying[f] \cup w.acked[f]

IsTimer(e, f, i, a) == /\ e.type = "Timeout" /\ e.pkt.flow = f /\ e.pkt.index = i
                       /\ e.attempt = a

(* Whatever is in flight will time out. *)
Timed(w, f) == w.tx[f].failed \/
  \A i \in w.flying[f] : \E e \in w.events : IsTimer(e, f, i, w.attempt[f][i])

(* The sender will be called: an Inject of its flow is pending. *)
Awake(w, f) == \E e \in w.events : e.type = "Inject" /\ e.pkt.flow = f

SenderSound(w, f) == /\ Windowed(w, f) /\ Timed(w, f)
                     /\ w.tx[f].send_scheduled => Awake(w, f)

TimersTrue(w) == \A e \in w.events : e.type = "Timeout" => TimerTrue(w, e)

Good(w) == /\ Typed(w) /\ NetSound(w) /\ TimersTrue(w)
           /\ \A f \in Flow : Received(w, f) /\ Chained(w, f) /\ SenderSound(w, f)

(* A sender that may send and has something to send will be called. *)
AtRest(w, f) == \/ w.tx[f].failed \/ Awake(w, f)
                \/ w.tx[f].in_flight >= Window(f)
                \/ w.tx[f].retx = <<>> /\ w.tx[f].next_seq >= Packets(f)

Rests(w, f) == Released(w, f) => AtRest(w, f)

AllRest(w) == \A f \in Flow : Rests(w, f)

IInv == Settled /\ Good(sim) /\ AllRest(sim)

-----------------------------------------------------------------------------
(* What the steps of a handler change *)

NetTypes == {"TxComplete", "Arrive"}

(* Whether a packet may be under way depends on what has been delivered.   *)
MayCarry(w, v) ==
  \A f \in Flow : /\ w.delivered[f] \subseteq v.delivered[f]
                  /\ Sent(w, f) \subseteq Sent(v, f)
                  /\ w.result[f].complete => v.result[f].complete

LEMMA PushFields ==
  ASSUME Settled, NEW w, Typed(w), NEW e, [e EXCEPT !.seq = w.next_seq] \in PendingEvent
  PROVE  LET v == Push(w, e)
         IN  /\ Typed(v)
             /\ v.events = w.events \cup {[e EXCEPT !.seq = w.next_seq]}
             /\ v.next_seq = w.next_seq + 1
             /\ v.now = w.now /\ v.port = w.port /\ v.tx = w.tx
             /\ v.flying = w.flying /\ v.acked = w.acked /\ v.delivered = w.delivered
             /\ v.attempt = w.attempt /\ v.result = w.result
             /\ v.injected = w.injected /\ v.received = w.received /\ v.dropped = w.dropped
<1> DEFINE v == Push(w, e)
           x == [e EXCEPT !.seq = w.next_seq]
<1>1. DOMAIN w = Fields /\ w.next_seq \in Nat /\ w.events \subseteq PendingEvent
  BY DEF Typed
<1>2. v = [w EXCEPT !.events = @ \cup {x}, !.next_seq = @ + 1]
  BY DEF Push
<1> HIDE DEF v, x
<1>3. /\ DOMAIN v = Fields
      /\ v.events = w.events \cup {x}
      /\ v.next_seq = w.next_seq + 1
      /\ v.now = w.now /\ v.port = w.port /\ v.tx = w.tx
      /\ v.flying = w.flying /\ v.acked = w.acked /\ v.delivered = w.delivered
      /\ v.attempt = w.attempt /\ v.result = w.result
      /\ v.injected = w.injected /\ v.received = w.received /\ v.dropped = w.dropped
  BY <1>1, <1>2 DEF Fields
<1>4. x \in PendingEvent
  BY DEF x
<1>5. v.events \subseteq PendingEvent /\ v.next_seq \in Nat
  BY <1>1, <1>3, <1>4
<1>6. Typed(v)
  BY <1>3, <1>5 DEF Typed
<1> QED BY <1>3, <1>6 DEF v, x

LEMMA EventFields ==
  ASSUME NEW t, NEW type, NEW port, NEW pkt, NEW a, NEW n
  PROVE  LET e == [Event(t, type, port, pkt, a) EXCEPT !.seq = n]
         IN  /\ e = [time |-> t, type |-> type, port |-> port, pkt |-> pkt,
                     attempt |-> a, seq |-> n]
             /\ e.time = t /\ e.type = type /\ e.port = port /\ e.pkt = pkt
             /\ e.attempt = a /\ e.seq = n
<1>1. [Event(t, type, port, pkt, a) EXCEPT !.seq = n]
        = [time |-> t, type |-> type, port |-> port, pkt |-> pkt, attempt |-> a, seq |-> n]
  BY DEF Event
<1> QED BY <1>1

LEMMA ReleasedGrows ==
  ASSUME Settled, NEW w, NEW v, MayCarry(w, v), NEW f \in Flow, Released(w, f)
  PROVE  Released(v, f)
<1>1. spec[f].depends_on # 0 => spec[f].depends_on \in Flow
  BY FlowFacts
<1> QED BY <1>1 DEF MayCarry, Released

LEMMA HomewardGrows ==
  ASSUME Settled, NEW w, NEW v, MayCarry(w, v), NEW p, NEW pkt, Homeward(w, p, pkt)
  PROVE  Homeward(v, p, pkt)
<1>1. IsPacket(pkt) /\ Released(w, pkt.flow) /\ pkt.flow \in Flow
  BY DEF Homeward, Carried, IsPacket
<1>2. Released(v, pkt.flow)
  BY <1>1, ReleasedGrows
<1>3. pkt.kind = "Ack" => pkt.index \in v.delivered[pkt.flow]
  BY <1>1 DEF Homeward, Carried, MayCarry
<1>4. pkt.index \in Sent(v, pkt.flow)
  BY <1>1 DEF Homeward, Carried, MayCarry
<1> QED BY <1>1, <1>2, <1>3, <1>4 DEF Homeward, Carried

LEMMA EventGrows ==
  ASSUME Settled, NEW w, NEW v, Typed(w), Typed(v), MayCarry(w, v),
         v.now = w.now, v.next_seq >= w.next_seq,
         \A p \in Port : w.port[p].busy => v.port[p].busy,
         NEW e \in w.events, EventSound(w, e)
  PROVE  EventSound(v, e)
<1>1. e.time >= v.now /\ e.seq < v.next_seq
  <2>1. e.time >= w.now /\ e.seq < w.next_seq
    BY DEF EventSound
  <2>2. e.seq \in Nat /\ w.next_seq \in Nat /\ v.next_seq \in Nat
    BY DEF Typed, PendingEvent
  <2> QED BY <2>1, <2>2
<1>2. e.type = "Arrive" => e.port \in Port /\ Homeward(v, e.port, e.pkt)
  BY HomewardGrows DEF EventSound
<1>3. e.type = "TxComplete" => e.port \in Port /\ v.port[e.port].busy /\ e.pkt = NoPacket
  BY DEF EventSound
<1>4. /\ e.type \in {"Inject", "Timeout"} => e.pkt.flow \in Flow /\ Released(v, e.pkt.flow)
      /\ e.type = "Timeout" => e.pkt.index \in Index(e.pkt.flow)
  BY ReleasedGrows DEF EventSound
<1> QED BY <1>1, <1>2, <1>3, <1>4 DEF EventSound

LEMMA PortGrows ==
  ASSUME Settled, NEW w, NEW v, MayCarry(w, v),
         NEW p, v.port[p] = w.port[p], PortSound(w, p)
  PROVE  PortSound(v, p)
BY HomewardGrows DEF PortSound

NoService(w, p) == \A e \in w.events : e.type = "TxComplete" => e.port # p

(* A step of a port changes nothing that a sender or a receiver looks at. *)
NetStep(w, v) ==
  /\ v.now = w.now /\ v.next_seq >= w.next_seq
  /\ v.tx = w.tx /\ v.flying = w.flying /\ v.acked = w.acked
  /\ v.delivered = w.delivered /\ v.attempt = w.attempt
  /\ \A f \in Flow : /\ v.result[f].complete = w.result[f].complete
                     /\ v.result[f].start_ns = w.result[f].start_ns
                     /\ v.result[f].finish_ns = w.result[f].finish_ns
                     /\ v.result[f].packets_delivered = w.result[f].packets_delivered
  /\ w.events \subseteq v.events
  /\ \A e \in v.events \ w.events : e.type \in NetTypes

LEMMA SerializationFacts ==
  ASSUME Settled, NEW p \in Port, NEW b \in Nat
  PROVE  serialization_ns(b, link(p).rate) \in Nat
<1> DEFINE r == link(p).rate
<1>1. r \in Nat \ {0} /\ b * 8 \in Nat
  BY CfgFacts
<1> HIDE DEF r
<1>2. (b * 8) \div r \in Nat
  BY <1>1, DivFacts
<1> QED BY <1>2 DEF serialization_ns, r

LEMMA IsPacketTyped == ASSUME Settled, NEW pkt, IsPacket(pkt) PROVE pkt \in Packet
<1>1. Flow \subseteq Nat
  BY SpecFacts
<1> QED BY <1>1 DEF IsPacket, Packet

LEMMA PortTyped ==
  ASSUME NEW w, Typed(w), NEW p \in Port
  PROVE  /\ w.port[p].waiting \in Seq(Packet) /\ w.port[p].busy \in BOOLEAN
         /\ w.port[p].in_flight \in Packet
         /\ w.port[p].sent \in Nat /\ w.port[p].dropped \in Nat
         /\ w.port[p] \in PortState
<1>1. w.port[p] \in PortState
  BY DEF Typed
<1> QED BY <1>1 DEF PortState

LEMMA StartTx ==
  ASSUME Settled, NEW w, Typed(w), NetSound(w), NEW p \in Port,
         w.port[p].waiting # <<>>, NoService(w, p)
  PROVE  Typed(start_tx(w, p)) /\ NetSound(start_tx(w, p)) /\ NetStep(w, start_tx(w, p))
<1> DEFINE r == w.port[p]
           pkt == Head(r.waiting)
           u == [w EXCEPT !.port[p].waiting = Tail(@), !.port[p].busy = TRUE,
                          !.port[p].in_flight = pkt]
           t == w.now + serialization_ns(pkt.bytes, link(p).rate)
           e == Event(t, "TxComplete", p, NoPacket, 0)
           x == [e EXCEPT !.seq = w.next_seq]
           v == Push(u, e)
<1>0. start_tx(w, p) = v
  BY DEF start_tx
<1>1. r.waiting \in Seq(Packet) /\ r \in PortState /\ r.waiting # <<>>
  BY PortTyped
<1>2. Homeward(w, p, pkt) /\ IsPacket(pkt) /\ pkt \in Packet
  <2>1. 1 \in 1 .. Len(r.waiting) /\ r.waiting[1] = pkt
    BY <1>1
  <2>2. Homeward(w, p, pkt)
    BY <2>1 DEF NetSound, PortSound
  <2> QED BY <2>2, IsPacketTyped DEF Homeward, Carried
<1>3. t \in Nat /\ t >= w.now
  <2>1. pkt.bytes \in Nat /\ w.now \in Nat
    BY <1>2 DEF Packet, Typed
  <2>2. serialization_ns(pkt.bytes, link(p).rate) \in Nat
    BY <2>1, SerializationFacts
  <2> QED BY <2>1, <2>2
<1>4. /\ u.port = [w.port EXCEPT ![p] = [r EXCEPT !.waiting = Tail(@), !.busy = TRUE,
                                                  !.in_flight = pkt]]
      /\ DOMAIN u = Fields
      /\ u.events = w.events /\ u.next_seq = w.next_seq
      /\ u.now = w.now /\ u.tx = w.tx
      /\ u.flying = w.flying /\ u.acked = w.acked /\ u.delivered = w.delivered
      /\ u.attempt = w.attempt /\ u.result = w.result
      /\ u.injected = w.injected /\ u.received = w.received /\ u.dropped = w.dropped
  BY DEF Typed, Fields
<1>5. [r EXCEPT !.waiting = Tail(@), !.busy = TRUE, !.in_flight = pkt] \in PortState
  <2>1. Tail(r.waiting) \in Seq(Packet)
    BY <1>1
  <2> HIDE DEF pkt
  <2> QED BY <1>1, <1>2, <2>1 DEF PortState
<1>6. Typed(u)
  <2> DEFINE q == [r EXCEPT !.waiting = Tail(@), !.busy = TRUE, !.in_flight = pkt]
  <2> HIDE DEF q, u
  <2>1. u.port \in [Port -> PortState]
    BY <1>4, <1>5 DEF Typed, q
  <2> QED BY <1>4, <2>1 DEF Typed
<1>7. /\ x = [time |-> t, type |-> "TxComplete", port |-> p, pkt |-> NoPacket,
              attempt |-> 0, seq |-> w.next_seq]
      /\ x.time = t /\ x.type = "TxComplete" /\ x.port = p /\ x.pkt = NoPacket
      /\ x.seq = w.next_seq
  <2> HIDE DEF t, x, e
  <2>1. x = [Event(t, "TxComplete", p, NoPacket, 0) EXCEPT !.seq = w.next_seq]
    BY DEF x, e
  <2> QED BY <2>1, EventFields
<1>8. x \in PendingEvent
  <2>1. NoPacket \in Packet
    BY DEF NoPacket, Packet, Kind
  <2>2. w.next_seq \in Nat
    BY DEF Typed
  <2> HIDE DEF t, x
  <2> QED BY <1>3, <1>7, <2>1, <2>2 DEF PendingEvent, EventType
<1>9. /\ Typed(v) /\ v.events = w.events \cup {x} /\ v.next_seq = w.next_seq + 1
      /\ v.now = w.now /\ v.port = u.port /\ v.tx = w.tx
      /\ v.flying = w.flying /\ v.acked = w.acked /\ v.delivered = w.delivered
      /\ v.attempt = w.attempt /\ v.result = w.result
  <2>1. x = [e EXCEPT !.seq = u.next_seq]
    BY <1>4
  <2> HIDE DEF u, e, x
  <2> QED BY <1>4, <1>6, <1>8, <2>1, PushFields
<1>10. /\ v.port[p].waiting = Tail(r.waiting) /\ v.port[p].busy /\ v.port[p].in_flight = pkt
       /\ \A q \in Port \ {p} : v.port[q] = w.port[q]
       /\ \A q \in Port : w.port[q].busy => v.port[q].busy
  <2> HIDE DEF v, u
  <2>1. w.port \in [Port -> PortState]
    BY DEF Typed
  <2> QED BY <1>1, <1>4, <1>9, <2>1 DEF PortState
<1> HIDE DEF v, u, x, e, t, r, pkt
<1>11. MayCarry(w, v)
  BY <1>9 DEF MayCarry, Sent
<1>12. \A q \in Port : PortSound(v, q)
  <2>1. ASSUME NEW q \in Port \ {p} PROVE PortSound(v, q)
    BY <1>10, <1>11, PortGrows DEF NetSound
  <2>2. PortSound(v, p)
    <3>1. \A k \in 1 .. Len(r.waiting) : Homeward(v, p, r.waiting[k])
      BY <1>11, HomewardGrows DEF NetSound, PortSound, r
    <3>2. \A k \in 1 .. Len(Tail(r.waiting)) : /\ k + 1 \in 1 .. Len(r.waiting)
                                                /\ Tail(r.waiting)[k] = r.waiting[k + 1]
      BY <1>1
    <3>3. Homeward(v, p, pkt)
      BY <1>2, <1>11, HomewardGrows
    <3> QED BY <1>10, <3>1, <3>2, <3>3 DEF PortSound
  <2> QED BY <2>1, <2>2
<1>13. w.next_seq \in Nat /\ v.next_seq >= w.next_seq
  BY <1>9 DEF Typed
<1>14. \A d \in v.events : EventSound(v, d)
  <2>1. ASSUME NEW d \in w.events PROVE EventSound(v, d)
    BY <1>9, <1>10, <1>11, <1>13, EventGrows DEF NetSound
  <2>2. EventSound(v, x)
    BY <1>3, <1>7, <1>9, <1>10, <1>13 DEF EventSound
  <2> QED BY <1>9, <2>1, <2>2
<1>15. OneService(v)
  BY <1>7, <1>9 DEF OneService, NetSound, NoService
<1>16. NetStep(w, v)
  BY <1>7, <1>9, <1>13 DEF NetStep, NetTypes
<1> QED BY <1>0, <1>9, <1>12, <1>14, <1>15, <1>16 DEF NetSound

LEMMA FlowTyped ==
  ASSUME NEW w, Typed(w), NEW f \in Flow
  PROVE  /\ w.result[f] \in FlowResult /\ w.tx[f] \in TxState
         /\ w.flying[f] \subseteq Nat /\ w.acked[f] \subseteq Nat /\ w.delivered[f] \subseteq Nat
         /\ w.attempt[f] \in [Index(f) -> Nat]
BY DEF Typed

LEMMA DropStep ==
  ASSUME Settled, NEW w, Typed(w), NetSound(w), NEW p \in Port, NEW pkt, IsPacket(pkt)
  PROVE  Typed(Drop(w, p, pkt)) /\ NetSound(Drop(w, p, pkt)) /\ NetStep(w, Drop(w, p, pkt))
<1> DEFINE f == pkt.flow
           k == pkt.kind
           b == pkt.bytes
           n == IF k = "Ack" THEN w.result[f].packets_dropped
                ELSE w.result[f].packets_dropped + 1
           v == Drop(w, p, pkt)
<1>1. f \in Flow /\ k \in Kind /\ b \in Nat
  BY DEF IsPacket
<1>2. v = [w EXCEPT !.port[p].dropped = @ + 1, !.dropped[k] = @ + b,
                    !.result[f].packets_dropped = n]
  BY DEF Drop
<1>3. n \in Nat
  <2>1. w.result[f].packets_dropped \in Nat
    BY <1>1, FlowTyped DEF FlowResult
  <2> QED BY <2>1
<1> HIDE DEF f, k, b, n, v
<1>4. /\ DOMAIN v = Fields
      /\ v.port = [w.port EXCEPT ![p] = [w.port[p] EXCEPT !.dropped = @ + 1]]
      /\ v.dropped = [w.dropped EXCEPT ![k] = @ + b]
      /\ v.result = [w.result EXCEPT ![f] = [w.result[f] EXCEPT !.packets_dropped = n]]
      /\ v.events = w.events /\ v.next_seq = w.next_seq
      /\ v.now = w.now /\ v.tx = w.tx
      /\ v.flying = w.flying /\ v.acked = w.acked /\ v.delivered = w.delivered
      /\ v.attempt = w.attempt
      /\ v.injected = w.injected /\ v.received = w.received
  BY <1>2 DEF Typed, Fields
<1>5. [w.port[p] EXCEPT !.dropped = @ + 1] \in PortState
  BY PortTyped DEF PortState
<1>6. [w.result[f] EXCEPT !.packets_dropped = n] \in FlowResult
  BY <1>1, <1>3, FlowTyped DEF FlowResult
<1>7. v.dropped \in [Kind -> Nat]
  BY <1>1, <1>4 DEF Typed
<1>8. v.port \in [Port -> PortState]
  <2> DEFINE q == [w.port[p] EXCEPT !.dropped = @ + 1]
  <2> HIDE DEF q
  <2> QED BY <1>4, <1>5 DEF Typed, q
<1>9. v.result \in [Flow -> FlowResult]
  <2> DEFINE q == [w.result[f] EXCEPT !.packets_dropped = n]
  <2> HIDE DEF q
  <2> QED BY <1>1, <1>4, <1>6 DEF Typed, q
<1>10. Typed(v)
  BY <1>4, <1>7, <1>8, <1>9 DEF Typed
<1>11. \A q \in Port : /\ v.port[q].waiting = w.port[q].waiting
                       /\ v.port[q].busy = w.port[q].busy
                       /\ v.port[q].in_flight = w.port[q].in_flight
  <2>1. w.port \in [Port -> PortState]
    BY DEF Typed
  <2> QED BY <1>4, <2>1 DEF PortState
<1>12. \A g \in Flow : /\ v.result[g].complete = w.result[g].complete
                       /\ v.result[g].start_ns = w.result[g].start_ns
                       /\ v.result[g].finish_ns = w.result[g].finish_ns
                       /\ v.result[g].packets_delivered = w.result[g].packets_delivered
  <2>1. w.result \in [Flow -> FlowResult]
    BY DEF Typed
  <2> QED BY <1>1, <1>4, <2>1 DEF FlowResult
<1>13. MayCarry(w, v)
  BY <1>4, <1>12 DEF MayCarry, Sent
<1>14. \A q \in Port : PortSound(v, q)
  BY <1>11, <1>13, HomewardGrows DEF NetSound, PortSound
<1>15. w.next_seq \in Nat /\ v.next_seq >= w.next_seq
  BY <1>4 DEF Typed
<1>16. \A e \in v.events : EventSound(v, e)
  BY <1>4, <1>10, <1>11, <1>13, <1>15, EventGrows DEF NetSound
<1>17. OneService(v)
  BY <1>4 DEF OneService, NetSound
<1>18. NetStep(w, v)
  BY <1>4, <1>12, <1>15 DEF NetStep
<1> QED BY <1>10, <1>14, <1>16, <1>17, <1>18 DEF NetSound, v

LEMMA NetStepTrans ==
  ASSUME Settled, NEW u, NEW v, NEW w, Typed(u), Typed(v), Typed(w), NetStep(u, v), NetStep(v, w)
  PROVE  NetStep(u, w)
<1>1. u.next_seq \in Nat /\ v.next_seq \in Nat /\ w.next_seq \in Nat
  BY DEF Typed
<1>2. w.next_seq >= u.next_seq
  BY <1>1 DEF NetStep
<1> QED BY <1>2 DEF NetStep

LEMMA EnqueueStep ==
  ASSUME Settled, NEW w, Typed(w), NetSound(w), NEW p \in Port, NEW pkt, Homeward(w, p, pkt)
  PROVE  LET v == enqueue(w, p, pkt)
         IN  Typed(v) /\ NetSound(v) /\ NetStep(w, v)
<1> DEFINE r == w.port[p]
           u == [w EXCEPT !.port[p].waiting = Append(@, pkt)]
<1>1. IsPacket(pkt) /\ pkt \in Packet
  BY IsPacketTyped DEF Homeward, Carried
<1>2. r.waiting \in Seq(Packet) /\ r \in PortState
  BY PortTyped
<1>3. CASE Len(r.waiting) = link(p).queue_capacity_pkts
  BY <1>1, <1>3, DropStep DEF enqueue
<1>4. CASE Len(r.waiting) # link(p).queue_capacity_pkts
  <2>1. /\ DOMAIN u = Fields
        /\ u.port = [w.port EXCEPT ![p] = [r EXCEPT !.waiting = Append(@, pkt)]]
        /\ u.events = w.events /\ u.next_seq = w.next_seq
        /\ u.now = w.now /\ u.tx = w.tx
        /\ u.flying = w.flying /\ u.acked = w.acked /\ u.delivered = w.delivered
        /\ u.attempt = w.attempt /\ u.result = w.result
        /\ u.injected = w.injected /\ u.received = w.received /\ u.dropped = w.dropped
    BY DEF Typed, Fields
  <2>2. /\ Append(r.waiting, pkt) \in Seq(Packet) /\ Append(r.waiting, pkt) # <<>>
        /\ \A k \in 1 .. Len(Append(r.waiting, pkt)) :
             \/ k \in 1 .. Len(r.waiting) /\ Append(r.waiting, pkt)[k] = r.waiting[k]
             \/ Append(r.waiting, pkt)[k] = pkt
    BY <1>1, <1>2
  <2>3. [r EXCEPT !.waiting = Append(@, pkt)] \in PortState
    BY <1>2, <2>2 DEF PortState
  <2>4. u.port \in [Port -> PortState]
    <3> DEFINE q == [r EXCEPT !.waiting = Append(@, pkt)]
    <3> HIDE DEF q, u
    <3> QED BY <2>1, <2>3 DEF Typed, q
  <2>5. Typed(u)
    <3> HIDE DEF u
    <3> QED BY <2>1, <2>4 DEF Typed
  <2>6. /\ u.port[p].waiting = Append(r.waiting, pkt)
        /\ u.port[p].in_flight = r.in_flight
        /\ \A q \in Port : u.port[q].busy = w.port[q].busy
        /\ \A q \in Port \ {p} : u.port[q] = w.port[q]
    <3>1. w.port \in [Port -> PortState]
      BY DEF Typed
    <3> HIDE DEF u
    <3> QED BY <2>1, <3>1 DEF PortState
  <2> HIDE DEF u
  <2>7. MayCarry(w, u)
    BY <2>1 DEF MayCarry, Sent
  <2>8. \A q \in Port : PortSound(u, q)
    <3>1. ASSUME NEW q \in Port \ {p} PROVE PortSound(u, q)
      BY <2>6, <2>7, PortGrows DEF NetSound
    <3>2. PortSound(u, p)
      <4>1. \A k \in 1 .. Len(r.waiting) : Homeward(u, p, r.waiting[k])
        BY <2>7, HomewardGrows DEF NetSound, PortSound
      <4>2. Homeward(u, p, pkt) /\ (u.port[p].busy => Homeward(u, p, r.in_flight))
        BY <2>6, <2>7, HomewardGrows DEF NetSound, PortSound
      <4> QED BY <2>2, <2>6, <4>1, <4>2 DEF PortSound
    <3> QED BY <3>1, <3>2
  <2>9. u.next_seq \in Nat /\ u.next_seq >= w.next_seq
    BY <2>1 DEF Typed
  <2>10. \A e \in u.events : EventSound(u, e)
    BY <2>1, <2>5, <2>6, <2>7, <2>9, EventGrows DEF NetSound
  <2>11. OneService(u)
    BY <2>1 DEF OneService, NetSound
  <2>12. NetSound(u) /\ NetStep(w, u)
    BY <2>1, <2>8, <2>9, <2>10, <2>11 DEF NetSound, NetStep
  <2>13. enqueue(w, p, pkt) = StartIdle(u, p)
    BY <1>4 DEF enqueue, u
  <2>14. CASE u.port[p].busy
    BY <2>5, <2>12, <2>13, <2>14 DEF StartIdle
  <2>15. CASE ~u.port[p].busy
    <3>1. NoService(u, p)
      BY <2>15, <2>10 DEF NoService, EventSound
    <3>2. u.port[p].waiting # <<>>
      BY <2>2, <2>6
    <3>3. Typed(start_tx(u, p)) /\ NetSound(start_tx(u, p)) /\ NetStep(u, start_tx(u, p))
      BY <2>5, <2>12, <3>1, <3>2, StartTx
    <3>4. NetStep(w, start_tx(u, p))
      BY <2>5, <2>12, <3>3, NetStepTrans
    <3> QED BY <2>13, <2>15, <3>3, <3>4 DEF StartIdle
  <2> QED BY <2>14, <2>15
<1> QED BY <1>3, <1>4

FlowSound(w, f) == Received(w, f) /\ Chained(w, f) /\ SenderSound(w, f)

LEMMA NetStepKeeps ==
  ASSUME Settled, NEW w, NEW v, Typed(w), Typed(v), NetStep(w, v)
  PROVE  /\ \A f \in Flow : FlowSound(w, f) => FlowSound(v, f)
         /\ TimersTrue(w) => TimersTrue(v)
         /\ \A f \in Flow : Released(v, f) <=> Released(w, f)
         /\ \A f \in Flow : AtRest(w, f) => AtRest(v, f)
<1>1. \A f \in Flow : Awake(w, f) => Awake(v, f)
  BY DEF NetStep, Awake
<1>2. \A f \in Flow : AtRest(w, f) => AtRest(v, f)
  BY <1>1 DEF AtRest, NetStep
<1>3. \A f \in Flow : Released(v, f) <=> Released(w, f)
  <2> TAKE f \in Flow
  <2>1. spec[f].depends_on # 0 => spec[f].depends_on \in Flow
    BY FlowFacts
  <2> QED BY <2>1 DEF Released, NetStep
<1>4. TimersTrue(w) => TimersTrue(v)
  <2>1. ASSUME TimersTrue(w), NEW e \in v.events, e.type = "Timeout"
        PROVE  TimerTrue(v, e)
    <3>1. e \in w.events
      BY <2>1 DEF NetStep, NetTypes
    <3>2. TimerTrue(w, e)
      BY <2>1, <3>1 DEF TimersTrue
    <3> QED BY <3>2 DEF TimerTrue, NetStep
  <2> QED BY <2>1 DEF TimersTrue
<1>5. ASSUME NEW f \in Flow, FlowSound(w, f)
      PROVE  FlowSound(v, f)
  <2>1. Received(v, f)
    <3>1. Received(w, f)
      BY <1>5 DEF FlowSound
    <3>2. /\ v.delivered = w.delivered /\ v.acked = w.acked
          /\ v.result[f].packets_delivered = w.result[f].packets_delivered
          /\ v.result[f].complete = w.result[f].complete
          /\ v.tx = w.tx
      BY DEF NetStep
    <3> QED BY <3>1, <3>2 DEF Received, Sent
  <2>2. Chained(v, f)
    <3>1. spec[f].depends_on # 0 => spec[f].depends_on \in Flow
      BY FlowFacts
    <3> QED BY <1>5, <3>1 DEF FlowSound, Chained, NetStep
  <2>3. Windowed(v, f)
    BY <1>5 DEF FlowSound, SenderSound, Windowed, NetStep
  <2>4. Timed(v, f)
    BY <1>5 DEF FlowSound, SenderSound, Timed, NetStep
  <2>5. v.tx[f].send_scheduled => Awake(v, f)
    BY <1>1, <1>5 DEF FlowSound, SenderSound, NetStep
  <2> QED BY <2>1, <2>2, <2>3, <2>4, <2>5 DEF FlowSound, SenderSound
<1> QED BY <1>2, <1>3, <1>4, <1>5

LEMMA EnqueueGood ==
  ASSUME Settled, NEW w, Good(w), NEW p \in Port, NEW pkt, Homeward(w, p, pkt)
  PROVE  Good(enqueue(w, p, pkt)) /\ NetStep(w, enqueue(w, p, pkt))
<1> DEFINE v == enqueue(w, p, pkt)
<1>1. Typed(w) /\ NetSound(w) /\ TimersTrue(w) /\ \A f \in Flow : FlowSound(w, f)
  BY DEF Good, FlowSound
<1>2. Typed(v) /\ NetSound(v) /\ NetStep(w, v)
  BY <1>1, EnqueueStep
<1>3. TimersTrue(v) /\ \A f \in Flow : FlowSound(v, f)
  BY <1>1, <1>2, NetStepKeeps
<1> QED BY <1>2, <1>3 DEF Good, FlowSound

-----------------------------------------------------------------------------
(* The sender *)

LEMMA PrefixFinite ==
  ASSUME NEW n \in Nat, NEW T, T \subseteq 0 .. n - 1
  PROVE  IsFiniteSet(T) /\ Cardinality(T) \in Nat /\ Cardinality(T) <= n
<1>1. 0 \in Int /\ n - 1 \in Int /\ (IF 0 > n - 1 THEN 0 ELSE n - 1 - 0 + 1) = n
  OBVIOUS
<1>2. IsFiniteSet(0 .. n - 1) /\ Cardinality(0 .. n - 1) = n
  BY <1>1, FS_Interval
<1> QED BY <1>2, FS_Subset, FS_CardinalityType

(* A sender's step: of flow f, and nothing that has arrived. *)
Sends(w, v, f) ==
  /\ v.now = w.now /\ v.next_seq >= w.next_seq
  /\ v.acked = w.acked /\ v.delivered = w.delivered /\ v.attempt = w.attempt
  /\ w.events \subseteq v.events
  /\ v.tx[f].failed = w.tx[f].failed /\ Sent(w, f) \subseteq Sent(v, f)
  /\ \A g \in Flow \ {f} : v.tx[g] = w.tx[g] /\ v.flying[g] = w.flying[g]
  /\ \A g \in Flow : /\ v.result[g].complete = w.result[g].complete
                     /\ v.result[g].start_ns = w.result[g].start_ns
                     /\ v.result[g].finish_ns = w.result[g].finish_ns
                     /\ v.result[g].packets_delivered = w.result[g].packets_delivered

LEMMA SendsTrans ==
  ASSUME Settled, NEW u, NEW v, NEW w, Typed(u), Typed(v), Typed(w), NEW f \in Flow,
         Sends(u, v, f), Sends(v, w, f)
  PROVE  Sends(u, w, f)
<1>1. u.next_seq \in Nat /\ v.next_seq \in Nat /\ w.next_seq \in Nat
  BY DEF Typed
<1>2. w.next_seq >= u.next_seq
  BY <1>1 DEF Sends
<1> QED BY <1>2 DEF Sends

LEMMA NetStepSends ==
  ASSUME NEW w, NEW v, NetStep(w, v), NEW f \in Flow
  PROVE  Sends(w, v, f)
BY DEF NetStep, Sends, Sent

(* w, with the ring and the next index of flow f replaced. *)
Repointed(w, v, f, ring, next) ==
  /\ DOMAIN v = Fields
  /\ v.tx = [w.tx EXCEPT ![f] = [w.tx[f] EXCEPT !.retx = ring, !.next_seq = next]]
  /\ v.events = w.events /\ v.next_seq = w.next_seq /\ v.now = w.now /\ v.port = w.port
  /\ v.flying = w.flying /\ v.acked = w.acked /\ v.delivered = w.delivered
  /\ v.attempt = w.attempt /\ v.result = w.result
  /\ v.injected = w.injected /\ v.received = w.received /\ v.dropped = w.dropped

InSeq(s) == {s[k] : k \in 1 .. Len(s)}

(* The state between the timer and the queue of send_packet. *)
Counted(w, f, i) ==
  LET pkt == DataPacket(f, i)
      again == IF w.attempt[f][i] > 0 THEN 1 ELSE 0
      v == [w EXCEPT !.flying[f] = @ \cup {i},
                     !.tx[f].in_flight = @ + 1,
                     !.tx[f].next_send_ns = w.now + period_ns(f),
                     !.injected["Data"] = @ + pkt.bytes,
                     !.result[f].packets_retransmitted = @ + again]
  IN  SetTimer(v, f, i)

TimerEvent(w, f, i) ==
  [Event(w.now + rto_ns, "Timeout", <<>>, DataPacket(f, i), w.attempt[f][i])
     EXCEPT !.seq = w.next_seq]

(* What it is, w having flow f repointed. *)
CountedFrom(w, v, f, i, ring, next) ==
  LET x == TimerEvent(w, f, i)
  IN  /\ Typed(v)
      /\ v.events = w.events \cup {x} /\ v.next_seq = w.next_seq + 1
      /\ v.now = w.now /\ v.port = w.port
      /\ v.acked = w.acked /\ v.delivered = w.delivered /\ v.attempt = w.attempt
      /\ v.received = w.received /\ v.dropped = w.dropped
      /\ v.injected = [w.injected EXCEPT !["Data"] = @ + DataPacket(f, i).bytes]
      /\ v.flying = [w.flying EXCEPT ![f] = @ \cup {i}]
      /\ \A g \in Flow \ {f} : v.tx[g] = w.tx[g]
      /\ v.tx[f].retx = ring /\ v.tx[f].next_seq = next
      /\ v.tx[f].in_flight = w.tx[f].in_flight + 1
      /\ v.tx[f].failed = w.tx[f].failed
      /\ v.tx[f].send_scheduled = w.tx[f].send_scheduled
      /\ \A g \in Flow : /\ v.result[g].complete = w.result[g].complete
                         /\ v.result[g].start_ns = w.result[g].start_ns
                         /\ v.result[g].finish_ns = w.result[g].finish_ns
                         /\ v.result[g].packets_delivered = w.result[g].packets_delivered
      /\ x \in PendingEvent /\ x.type = "Timeout" /\ x.pkt = DataPacket(f, i)
      /\ x.attempt = w.attempt[f][i] /\ x.time >= w.now /\ x.seq = w.next_seq

LEMMA CountedFields ==
  ASSUME Settled, NEW w, Typed(w), NEW f \in Flow, NEW u,
         NEW ring \in Seq(Nat), NEW next \in Nat, Repointed(w, u, f, ring, next),
         NEW i \in Index(f)
  PROVE  CountedFrom(w, Counted(u, f, i), f, i, ring, next)
<1> DEFINE pkt == DataPacket(f, i)
           a == w.attempt[f][i]
           again == IF u.attempt[f][i] > 0 THEN 1 ELSE 0
           bytes == pkt.bytes
           per == period_ns(f)
           z == [u EXCEPT !.flying[f] = @ \cup {i},
                     !.tx[f].in_flight = @ + 1,
                     !.tx[f].next_send_ns = u.now + per,
                     !.injected["Data"] = @ + bytes,
                     !.result[f].packets_retransmitted = @ + again]
           e == Event(w.now + rto_ns, "Timeout", <<>>, pkt, a)
           x == TimerEvent(w, f, i)
           v == Counted(u, f, i)
           t == w.tx[f]
           tt == [t EXCEPT !.retx = ring, !.next_seq = next, !.in_flight = @ + 1,
                           !.next_send_ns = w.now + per]
           r == w.result[f]
           rr == [r EXCEPT !.packets_retransmitted = @ + again]
<1>1. /\ again \in Nat /\ bytes \in Nat /\ per \in Nat /\ pkt \in Packet /\ i \in Nat
      /\ a \in Nat /\ w.now \in Nat /\ w.next_seq \in Nat /\ rto_ns \in Nat
  <2>1. IsPacket(pkt)
    BY SendFacts
  <2>2. pkt \in Packet
    BY <2>1, IsPacketTyped
  <2> HIDE DEF pkt
  <2>3. bytes \in Nat
    BY <2>2 DEF Packet
  <2>4. w.attempt[f] \in [Index(f) -> Nat]
    BY FlowTyped
  <2>5. a \in Nat
    BY <2>4
  <2>6. again \in Nat
    OBVIOUS
  <2>7. i \in Nat
    BY PacketsFacts
  <2>8. w.now \in Nat /\ w.next_seq \in Nat
    BY DEF Typed
  <2> QED BY <2>2, <2>3, <2>5, <2>6, <2>7, <2>8, SendFacts, CfgFacts
<1>2. t \in TxState /\ r \in FlowResult
  BY FlowTyped
<1>3. v = Push(z, e)
  <2>1. z.attempt = w.attempt /\ z.now = w.now
    BY DEF Repointed, Fields
  <2>2. v = Push(z, Event(z.now + rto_ns, "Timeout", <<>>, pkt, z.attempt[f][i]))
    BY DEF Counted, SetTimer
  <2> QED BY <2>1, <2>2
<1> HIDE DEF v, again, bytes, per, pkt, a
<1>4. /\ DOMAIN z = Fields
      /\ z.tx = [w.tx EXCEPT ![f] = tt]
      /\ z.flying = [w.flying EXCEPT ![f] = @ \cup {i}]
      /\ z.injected = [w.injected EXCEPT !["Data"] = @ + bytes]
      /\ z.result = [w.result EXCEPT ![f] = rr]
      /\ z.events = w.events /\ z.next_seq = w.next_seq /\ z.now = w.now /\ z.port = w.port
      /\ z.acked = w.acked /\ z.delivered = w.delivered /\ z.attempt = w.attempt
      /\ z.received = w.received /\ z.dropped = w.dropped
  <2>1. w.tx \in [Flow -> TxState]
    BY DEF Typed
  <2>2. u.tx[f] = [t EXCEPT !.retx = ring, !.next_seq = next]
    BY <2>1 DEF Repointed
  <2>3. [u.tx EXCEPT ![f] = [[u.tx[f] EXCEPT !.in_flight = @ + 1] EXCEPT !.next_send_ns = u.now + per]]
          = [w.tx EXCEPT ![f] = tt]
    BY <1>2, <2>1, <2>2 DEF Repointed, TxState
  <2>4. z.tx = [u.tx EXCEPT ![f] = [[u.tx[f] EXCEPT !.in_flight = @ + 1] EXCEPT !.next_send_ns = u.now + per]]
    BY ZenonT(60) DEF Repointed, Fields
  <2>5. /\ DOMAIN z = Fields
        /\ z.flying = [w.flying EXCEPT ![f] = @ \cup {i}]
        /\ z.injected = [w.injected EXCEPT !["Data"] = @ + bytes]
        /\ z.result = [w.result EXCEPT ![f] = rr]
        /\ z.events = w.events /\ z.next_seq = w.next_seq /\ z.now = w.now /\ z.port = w.port
        /\ z.acked = w.acked /\ z.delivered = w.delivered /\ z.attempt = w.attempt
        /\ z.received = w.received /\ z.dropped = w.dropped
    BY DEF Repointed, Fields
  <2> QED BY <2>3, <2>4, <2>5
<1> HIDE DEF z
<1>5. /\ tt \in TxState /\ tt.retx = ring /\ tt.next_seq = next
      /\ tt.in_flight = t.in_flight + 1 /\ tt.failed = t.failed
      /\ tt.send_scheduled = t.send_scheduled
  <2> DEFINE n == t.in_flight + 1
             m == w.now + per
  <2>1. t.in_flight \in Nat
    BY <1>2 DEF TxState
  <2>2. n \in Nat /\ m \in Nat
    BY <1>1, <2>1
  <2> HIDE DEF n, m
  <2>3. tt = [t EXCEPT !.retx = ring, !.next_seq = next, !.in_flight = n, !.next_send_ns = m]
    BY DEF n, m
  <2> HIDE DEF tt, t
  <2>4. tt \in TxState
    BY <1>2, <2>2, <2>3 DEF TxState
  <2>5. /\ tt.retx = ring /\ tt.next_seq = next /\ tt.in_flight = n
        /\ tt.failed = t.failed /\ tt.send_scheduled = t.send_scheduled
    BY <1>2, <2>3 DEF TxState
  <2> QED BY <2>4, <2>5 DEF n
<1>6. /\ rr \in FlowResult /\ rr.complete = r.complete /\ rr.start_ns = r.start_ns
      /\ rr.finish_ns = r.finish_ns /\ rr.packets_delivered = r.packets_delivered
  <2> DEFINE n == r.packets_retransmitted + again
  <2>1. r.packets_retransmitted \in Nat
    BY <1>2 DEF FlowResult
  <2>2. n \in Nat
    BY <1>1, <2>1
  <2> HIDE DEF n
  <2>3. rr = [r EXCEPT !.packets_retransmitted = n]
    BY DEF n
  <2> HIDE DEF rr, r
  <2>4. rr \in FlowResult
    BY <1>2, <2>2, <2>3 DEF FlowResult
  <2>5. /\ rr.complete = r.complete /\ rr.start_ns = r.start_ns
        /\ rr.finish_ns = r.finish_ns /\ rr.packets_delivered = r.packets_delivered
    BY <1>2, <2>3 DEF FlowResult
  <2> QED BY <2>4, <2>5
<1> HIDE DEF tt, rr
<1>7. Typed(z)
  <2>1. z.tx \in [Flow -> TxState]
    BY <1>4, <1>5 DEF Typed
  <2>2. z.result \in [Flow -> FlowResult]
    BY <1>4, <1>6 DEF Typed
  <2>3. z.injected \in [Kind -> Nat]
    <3>1. w.injected \in [Kind -> Nat] /\ "Data" \in Kind
      BY DEF Typed, Kind
    <3>2. w.injected["Data"] + bytes \in Nat
      BY <1>1, <3>1
    <3> QED BY <1>4, <3>1, <3>2
  <2>4. z.flying \in [Flow -> SUBSET Nat]
    BY <1>1, <1>4 DEF Typed
  <2> QED BY <1>4, <2>1, <2>2, <2>3, <2>4 DEF Typed
<1>8. /\ x = [time |-> w.now + rto_ns, type |-> "Timeout", port |-> <<>>, pkt |-> pkt,
              attempt |-> a, seq |-> w.next_seq]
      /\ x.time = w.now + rto_ns /\ x.type = "Timeout" /\ x.pkt = pkt
      /\ x.attempt = a /\ x.seq = w.next_seq
  BY EventFields DEF TimerEvent, pkt, a
<1>9. x = [e EXCEPT !.seq = z.next_seq]
  BY <1>4 DEF TimerEvent, pkt, a
<1> HIDE DEF x, e
<1>10. x \in PendingEvent /\ x.time >= w.now
  BY <1>1, <1>8 DEF PendingEvent, EventType
<1>11. /\ Typed(v)
       /\ v.events = w.events \cup {x} /\ v.next_seq = w.next_seq + 1
       /\ v.now = w.now /\ v.port = w.port /\ v.tx = z.tx
       /\ v.flying = z.flying /\ v.acked = w.acked /\ v.delivered = w.delivered
       /\ v.attempt = w.attempt /\ v.result = z.result
       /\ v.injected = z.injected /\ v.received = w.received /\ v.dropped = w.dropped
  BY <1>3, <1>4, <1>7, <1>9, <1>10, PushFields
<1>12. /\ \A g \in Flow \ {f} : v.tx[g] = w.tx[g]
       /\ v.tx[f] = tt
  BY <1>4, <1>11 DEF Typed
<1>13. \A g \in Flow : /\ v.result[g].complete = w.result[g].complete
                       /\ v.result[g].start_ns = w.result[g].start_ns
                       /\ v.result[g].finish_ns = w.result[g].finish_ns
                       /\ v.result[g].packets_delivered = w.result[g].packets_delivered
  BY <1>4, <1>6, <1>11 DEF Typed
<1> QED BY <1>4, <1>5, <1>8, <1>10, <1>11, <1>12, <1>13 DEF CountedFrom, v, x, pkt, a, bytes

(* Packet i is sent: it leaves the ring, whose rest is ring, or it is the  *)
(* next one.                                                               *)
LEMMA CountedGood ==
  ASSUME Settled, NEW w, Good(w), NEW f \in Flow, Released(w, f), ~w.tx[f].failed,
         NEW ring \in Seq(Nat), NEW next \in Nat, NEW u, Repointed(w, u, f, ring, next),
         NEW i \in Index(f),
         w.tx[f].next_seq <= next, next <= Packets(f), i < next,
         i \notin w.flying[f], i \notin w.acked[f], i \notin InSeq(ring),
         InSeq(ring) \subseteq InRing(w.tx[f]),
         \A j, k \in 1 .. Len(ring) : ring[j] = ring[k] => j = k,
         0 .. next - 1 \subseteq w.flying[f] \cup {i} \cup InSeq(ring) \cup w.acked[f]
  PROVE  LET v == Counted(u, f, i)
         IN  /\ Good(v) /\ Sends(w, v, f) /\ i \in Sent(v, f)
             /\ v.tx[f].in_flight = w.tx[f].in_flight + 1
<1> DEFINE v == Counted(u, f, i)
           x == TimerEvent(w, f, i)
           t == w.tx[f]
<1>1. Typed(w) /\ NetSound(w) /\ TimersTrue(w) /\ \A g \in Flow : FlowSound(w, g)
  BY DEF Good, FlowSound
<1>0. CountedFrom(w, v, f, i, ring, next)
  BY <1>1, CountedFields
<1> HIDE DEF v, x
<1>2. /\ Typed(v)
      /\ v.events = w.events \cup {x} /\ v.next_seq = w.next_seq + 1
      /\ v.now = w.now /\ v.port = w.port
      /\ v.acked = w.acked /\ v.delivered = w.delivered /\ v.attempt = w.attempt
      /\ v.flying = [w.flying EXCEPT ![f] = @ \cup {i}]
      /\ \A g \in Flow \ {f} : v.tx[g] = w.tx[g]
      /\ v.tx[f].retx = ring /\ v.tx[f].next_seq = next
      /\ v.tx[f].in_flight = w.tx[f].in_flight + 1
      /\ v.tx[f].failed = w.tx[f].failed
      /\ v.tx[f].send_scheduled = w.tx[f].send_scheduled
  BY <1>0 DEF CountedFrom, x
<1>3. \A g \in Flow : /\ v.result[g].complete = w.result[g].complete
                      /\ v.result[g].start_ns = w.result[g].start_ns
                      /\ v.result[g].finish_ns = w.result[g].finish_ns
                      /\ v.result[g].packets_delivered = w.result[g].packets_delivered
  BY <1>0 DEF CountedFrom, x
<1>4. /\ x \in PendingEvent /\ x.type = "Timeout" /\ x.pkt = DataPacket(f, i)
      /\ x.attempt = w.attempt[f][i] /\ x.time >= w.now /\ x.seq = w.next_seq
  BY <1>0 DEF CountedFrom, x
<1>5. x.pkt.flow = f /\ x.pkt.index = i
  BY <1>4 DEF DataPacket
<1>6. /\ w.flying \in [Flow -> SUBSET Nat] /\ w.next_seq \in Nat /\ t \in TxState
      /\ t.next_seq \in Nat /\ t.in_flight \in Nat
  BY <1>1, FlowTyped DEF Typed, TxState
<1>7. v.flying[f] = w.flying[f] \cup {i} /\ \A g \in Flow \ {f} : v.flying[g] = w.flying[g]
  BY <1>2, <1>6
<1>8. v.next_seq >= w.next_seq /\ w.next_seq < v.next_seq
  BY <1>2, <1>6
<1>9. MayCarry(w, v) /\ Sends(w, v, f)
  <2>1. Sent(w, f) \subseteq Sent(v, f) /\ i \in Sent(v, f)
    <3>1. i \in Nat
      BY PacketsFacts
    <3> QED BY <1>2, <1>6, <3>1, SMTT(30) DEF Sent
  <2>2. \A g \in Flow : Sent(w, g) \subseteq Sent(v, g)
    BY <1>2, <2>1 DEF Sent
  <2> QED BY <1>2, <1>3, <1>7, <1>8, <2>1, <2>2 DEF MayCarry, Sends
<1>10. NetSound(v)
  <2>1. \A p \in Port : PortSound(v, p)
    BY <1>1, <1>2, <1>9, PortGrows DEF NetSound
  <2>2. \A e \in w.events : EventSound(v, e)
    BY <1>1, <1>2, <1>8, <1>9, EventGrows DEF NetSound
  <2>3. EventSound(v, x)
    <3>1. Released(v, f)
      BY <1>9, ReleasedGrows
    <3> QED BY <1>2, <1>4, <1>5, <1>8, <3>1 DEF EventSound
  <2>4. OneService(v)
    BY <1>1, <1>2, <1>4 DEF NetSound, OneService
  <2> QED BY <1>2, <2>1, <2>2, <2>3, <2>4 DEF NetSound
<1>11. TimersTrue(v)
  <2>1. ASSUME NEW e \in w.events, e.type = "Timeout"
        PROVE  TimerTrue(v, e)
    <3>1. TimerTrue(w, e)
      BY <1>1, <2>1 DEF TimersTrue
    <3>2. e.pkt.flow \in Flow
      BY <1>1, <2>1 DEF NetSound, EventSound
    <3>3. w.flying[e.pkt.flow] \subseteq v.flying[e.pkt.flow]
      BY <1>7, <3>2
    <3>4. v.tx[e.pkt.flow].failed = w.tx[e.pkt.flow].failed
      BY <1>2, <3>2
    <3> QED BY <1>2, <3>1, <3>3, <3>4 DEF TimerTrue
  <2>2. TimerTrue(v, x)
    <3>1. w.attempt[f][i] \in Nat
      BY <1>1, FlowTyped
    <3>2. i \in v.flying[f]
      BY <1>7
    <3> QED BY <1>2, <1>4, <1>5, <3>1, <3>2 DEF TimerTrue
  <2> QED BY <1>2, <2>1, <2>2 DEF TimersTrue
<1>12. \A g \in Flow : Awake(w, g) => Awake(v, g)
  BY <1>2 DEF Awake
<1>13. ASSUME NEW g \in Flow, g # f
       PROVE  FlowSound(v, g)
  <2>1. FlowSound(w, g) /\ v.tx[g] = w.tx[g] /\ v.flying[g] = w.flying[g]
    BY <1>1, <1>2, <1>7, <1>13
  <2>2. Received(v, g)
    BY <1>2, <1>3, <2>1 DEF FlowSound, Received, Sent
  <2>3. Chained(v, g)
    <3>1. spec[g].depends_on # 0 => spec[g].depends_on \in Flow
      BY FlowFacts
    <3> QED BY <1>3, <2>1, <3>1 DEF FlowSound, Chained
  <2>4. Windowed(v, g)
    BY <1>2, <2>1 DEF FlowSound, SenderSound, Windowed
  <2>5. Timed(v, g)
    BY <1>2, <2>1 DEF FlowSound, SenderSound, Timed
  <2>6. v.tx[g].send_scheduled => Awake(v, g)
    BY <1>12, <2>1 DEF FlowSound, SenderSound
  <2> QED BY <2>2, <2>3, <2>4, <2>5, <2>6 DEF FlowSound, SenderSound
<1>14. FlowSound(v, f)
  <2>1. /\ Received(w, f) /\ Chained(w, f) /\ Windowed(w, f) /\ Timed(w, f)
        /\ t.send_scheduled => Awake(w, f)
    BY <1>1 DEF FlowSound, SenderSound
  <2>2. Received(v, f)
    <3>1. Sent(w, f) \subseteq Sent(v, f)
      BY <1>9 DEF Sends
    <3> QED BY <1>2, <1>3, <2>1, <3>1 DEF Received
  <2>3. Chained(v, f)
    <3>1. spec[f].depends_on # 0 => spec[f].depends_on \in Flow
      BY FlowFacts
    <3> QED BY <1>3, <2>1, <3>1 DEF Chained, Released
  <2>4. Windowed(v, f)
    <3>1. w.flying[f] \subseteq 0 .. t.next_seq - 1 /\ t.in_flight = Cardinality(w.flying[f])
      BY <2>1 DEF Windowed
    <3>2. IsFiniteSet(w.flying[f])
      BY <1>6, <3>1, PrefixFinite
    <3>3. Cardinality(v.flying[f]) = v.tx[f].in_flight
      <4> DEFINE T == w.flying[f]
      <4> HIDE DEF T
      <4>1. IsFiniteSet(T) /\ i \notin T
        BY <3>2 DEF T
      <4>2. Cardinality(T \cup {i}) = Cardinality(T) + 1
        BY <4>1, FS_AddElement
      <4> QED BY <1>2, <1>7, <3>1, <4>2 DEF T
    <3>4. InRing(v.tx[f]) = InSeq(ring)
      BY <1>2 DEF InRing, InSeq
    <3>5. 0 .. t.next_seq - 1 \subseteq 0 .. next - 1 /\ i \in 0 .. next - 1
      <4>1. i \in Nat
        BY PacketsFacts
      <4> QED BY <1>6, <4>1
    <3>6. InRing(t) \subseteq 0 .. t.next_seq - 1 /\ w.flying[f] \cap (InRing(t) \cup w.acked[f]) = {}
      BY <2>1 DEF Windowed
    <3>7. v.flying[f] \cup InRing(v.tx[f]) \subseteq 0 .. v.tx[f].next_seq - 1
      BY <1>2, <1>7, <3>1, <3>4, <3>5, <3>6
    <3>8. v.flying[f] \cap (InRing(v.tx[f]) \cup v.acked[f]) = {}
      BY <1>2, <1>7, <3>4, <3>6
    <3>9. 0 .. v.tx[f].next_seq - 1 \subseteq v.flying[f] \cup InRing(v.tx[f]) \cup v.acked[f]
      BY <1>2, <1>7, <3>4
    <3> QED BY <1>2, <3>3, <3>7, <3>8, <3>9 DEF Windowed
  <2>5. Timed(v, f)
    <3>1. \A j \in w.flying[f] : \E e \in v.events : IsTimer(e, f, j, v.attempt[f][j])
      BY <1>2, <2>1 DEF Timed
    <3>2. IsTimer(x, f, i, v.attempt[f][i]) /\ x \in v.events
      BY <1>2, <1>4, <1>5 DEF IsTimer
    <3> QED BY <1>7, <3>1, <3>2 DEF Timed
  <2>6. v.tx[f].send_scheduled => Awake(v, f)
    BY <1>2, <1>12, <2>1
  <2> QED BY <2>2, <2>3, <2>4, <2>5, <2>6 DEF FlowSound, SenderSound
<1>15. Good(v)
  BY <1>2, <1>10, <1>11, <1>13, <1>14 DEF Good, FlowSound
<1>16. i \in Sent(v, f)
  <2>1. i \in Nat
    BY PacketsFacts
  <2> QED BY <1>2, <2>1 DEF Sent
<1> QED BY <1>2, <1>9, <1>15, <1>16 DEF v

LEMMA SendGood ==
  ASSUME Settled, NEW w, Good(w), NEW f \in Flow, Released(w, f), ~w.tx[f].failed,
         NEW ring \in Seq(Nat), NEW next \in Nat, NEW u, Repointed(w, u, f, ring, next),
         NEW i \in Index(f),
         w.tx[f].next_seq <= next, next <= Packets(f), i < next,
         i \notin w.flying[f], i \notin w.acked[f], i \notin InSeq(ring),
         InSeq(ring) \subseteq InRing(w.tx[f]),
         \A j, k \in 1 .. Len(ring) : ring[j] = ring[k] => j = k,
         0 .. next - 1 \subseteq w.flying[f] \cup {i} \cup InSeq(ring) \cup w.acked[f]
  PROVE  LET v == send_packet(u, f, i)
         IN  /\ Good(v) /\ Sends(w, v, f)
             /\ v.tx[f].in_flight = w.tx[f].in_flight + 1
<1> DEFINE v == Counted(u, f, i)
           pkt == DataPacket(f, i)
           p == nic(spec[f].src)
           x == enqueue(v, p, pkt)
<1>1. send_packet(u, f, i) = x
  BY DEF send_packet, Counted
<1>2. /\ Good(v) /\ Sends(w, v, f) /\ i \in Sent(v, f)
      /\ v.tx[f].in_flight = w.tx[f].in_flight + 1
  BY CountedGood
<1>3. Homeward(v, p, pkt)
  <2>1. IsPacket(pkt) /\ ~is_host(p[2])
    BY SendFacts
  <2>2. pkt.flow = f /\ pkt.kind = "Data" /\ pkt.index = i
    BY DEF DataPacket
  <2>3. MayCarry(w, v)
    BY <1>2 DEF Sends, MayCarry, Sent
  <2>4. Released(v, f)
    BY <2>3, ReleasedGrows
  <2> QED BY <1>2, <2>1, <2>2, <2>4 DEF Homeward, Carried
<1>4. p \in Port
  BY SendFacts
<1> HIDE DEF v, p, pkt, x
<1>5. Good(x) /\ NetStep(v, x)
  BY <1>2, <1>3, <1>4, EnqueueGood DEF x
<1>6. Typed(w) /\ Typed(v) /\ Typed(x)
  BY <1>2, <1>5 DEF Good
<1>7. Sends(w, x, f)
  BY <1>2, <1>5, <1>6, NetStepSends, SendsTrans
<1>8. x.tx[f].in_flight = w.tx[f].in_flight + 1
  BY <1>2, <1>5 DEF NetStep
<1> QED BY <1>1, <1>5, <1>7, <1>8

(* A step that wakes senders, at most, and clears rings that hold only     *)
(* what is acked.                                                          *)
Wakes(w, v) ==
  /\ v.now = w.now /\ v.next_seq >= w.next_seq /\ v.port = w.port
  /\ v.flying = w.flying /\ v.acked = w.acked /\ v.delivered = w.delivered
  /\ v.attempt = w.attempt
  /\ \A g \in Flow :
       /\ v.result[g].complete = w.result[g].complete
       /\ v.result[g].packets_delivered = w.result[g].packets_delivered
       /\ v.tx[g].next_seq = w.tx[g].next_seq /\ v.tx[g].in_flight = w.tx[g].in_flight
       /\ v.tx[g].failed = w.tx[g].failed
       /\ \/ v.tx[g].retx = w.tx[g].retx
          \/ v.tx[g].retx = <<>> /\ InRing(w.tx[g]) \subseteq w.acked[g]
       /\ v.tx[g].send_scheduled => w.tx[g].send_scheduled \/ Awake(v, g)
  /\ w.events \subseteq v.events
  /\ \A x \in v.events \ w.events : x.type = "Inject" /\ EventSound(v, x)

LEMMA WakesKeeps ==
  ASSUME Settled, NEW w, NEW v, Typed(w), Typed(v), Wakes(w, v), NetSound(w), TimersTrue(w)
  PROVE  /\ NetSound(v) /\ TimersTrue(v)
         /\ \A f \in Flow : Received(w, f) => Received(v, f)
         /\ \A f \in Flow : SenderSound(w, f) => SenderSound(v, f)
         /\ \A f \in Flow : AtRest(w, f) => AtRest(v, f)
<1>1. MayCarry(w, v)
  BY DEF Wakes, MayCarry, Sent
<1>2. NetSound(v)
  <2>1. \A p \in Port : PortSound(v, p)
    BY <1>1, PortGrows DEF NetSound, Wakes
  <2>2. \A e \in w.events : EventSound(v, e)
    <3>1. \A p \in Port : w.port[p].busy => v.port[p].busy
      BY DEF Wakes
    <3>2. v.now = w.now /\ v.next_seq >= w.next_seq
      BY DEF Wakes
    <3> QED BY <1>1, <3>1, <3>2, EventGrows DEF NetSound
  <2>3. OneService(v)
    BY DEF NetSound, OneService, Wakes
  <2> QED BY <2>1, <2>2, <2>3 DEF NetSound, Wakes
<1>3. TimersTrue(v)
  <2>1. ASSUME NEW e \in v.events, e.type = "Timeout"
        PROVE  TimerTrue(v, e)
    <3>1. e \in w.events
      BY <2>1 DEF Wakes
    <3>2. TimerTrue(w, e) /\ e.pkt.flow \in Flow
      BY <2>1, <3>1 DEF TimersTrue, NetSound, EventSound
    <3> QED BY <3>2 DEF TimerTrue, Wakes
  <2> QED BY <2>1 DEF TimersTrue
<1>4. ASSUME NEW f \in Flow, Received(w, f)
      PROVE  Received(v, f)
  <2>1. /\ v.acked = w.acked /\ v.delivered = w.delivered
        /\ v.result[f].complete = w.result[f].complete
        /\ v.result[f].packets_delivered = w.result[f].packets_delivered
        /\ v.tx[f].next_seq = w.tx[f].next_seq
    BY DEF Wakes
  <2> QED BY <1>4, <2>1 DEF Received, Sent
<1>5. \A f \in Flow : Awake(w, f) => Awake(v, f)
  BY DEF Awake, Wakes
<1>6. ASSUME NEW f \in Flow, SenderSound(w, f)
      PROVE  SenderSound(v, f)
  <2>1. /\ v.flying = w.flying /\ v.acked = w.acked /\ v.attempt = w.attempt
        /\ v.tx[f].next_seq = w.tx[f].next_seq /\ v.tx[f].in_flight = w.tx[f].in_flight
        /\ v.tx[f].failed = w.tx[f].failed
        /\ v.tx[f].send_scheduled => w.tx[f].send_scheduled \/ Awake(v, f)
        /\ w.events \subseteq v.events
    BY DEF Wakes
  <2>2. Windowed(w, f) /\ Timed(w, f) /\ (w.tx[f].send_scheduled => Awake(w, f))
    BY <1>6 DEF SenderSound
  <2>3. Windowed(v, f)
    <3>1. CASE v.tx[f].retx = w.tx[f].retx
      BY <2>1, <2>2, <3>1 DEF Windowed, InRing
    <3>2. CASE v.tx[f].retx = <<>> /\ InRing(w.tx[f]) \subseteq w.acked[f]
      <4>1. InRing(v.tx[f]) = {}
        BY <3>2 DEF InRing
      <4>2. \A j, k \in 1 .. Len(v.tx[f].retx) : v.tx[f].retx[j] = v.tx[f].retx[k] => j = k
        BY <3>2
      <4> QED BY <2>1, <2>2, <3>2, <4>1, <4>2 DEF Windowed
    <3> QED BY <3>1, <3>2 DEF Wakes
  <2>4. Timed(v, f)
    BY <2>1, <2>2 DEF Timed
  <2> QED BY <1>5, <2>1, <2>2, <2>3, <2>4 DEF SenderSound
<1>7. ASSUME NEW f \in Flow, AtRest(w, f)
      PROVE  AtRest(v, f)
  <2>1. w.tx[f].retx = <<>> => v.tx[f].retx = <<>>
    BY DEF Wakes
  <2> QED BY <1>5, <1>7, <2>1 DEF AtRest, Wakes
<1> QED BY <1>2, <1>3, <1>4, <1>6, <1>7

InjectEvent(t, f, n) == [Inject(t, f) EXCEPT !.seq = n]

LEMMA InjectFacts ==
  ASSUME Settled, NEW t \in Nat, NEW f \in Flow, NEW n \in Nat
  PROVE  LET x == InjectEvent(t, f, n)
         IN  /\ x \in PendingEvent /\ x.time = t /\ x.type = "Inject" /\ x.seq = n
             /\ x.pkt.flow = f
<1> DEFINE pkt == [NoPacket EXCEPT !.flow = f]
           x == InjectEvent(t, f, n)
<1>1. x = [Event(t, "Inject", <<>>, pkt, 0) EXCEPT !.seq = n]
  BY DEF InjectEvent, Inject
<1>2. pkt \in Packet /\ pkt.flow = f
  BY FlowFacts DEF NoPacket, Packet, Kind
<1> HIDE DEF pkt, x
<1>3. /\ x = [time |-> t, type |-> "Inject", port |-> <<>>, pkt |-> pkt,
              attempt |-> 0, seq |-> n]
      /\ x.time = t /\ x.type = "Inject" /\ x.pkt = pkt /\ x.seq = n
  BY <1>1, EventFields
<1>4. x \in PendingEvent
  BY <1>2, <1>3 DEF PendingEvent, EventType
<1> QED BY <1>2, <1>3, <1>4 DEF x

(* w, with some other field of the flows' tx or result changed. *)
SameBut(w, u, tx, result) ==
  /\ DOMAIN u = Fields
  /\ u.tx = tx /\ u.result = result
  /\ u.events = w.events /\ u.next_seq = w.next_seq /\ u.now = w.now /\ u.port = w.port
  /\ u.flying = w.flying /\ u.acked = w.acked /\ u.delivered = w.delivered
  /\ u.attempt = w.attempt
  /\ u.injected = w.injected /\ u.received = w.received /\ u.dropped = w.dropped

LEMMA SameButTyped ==
  ASSUME NEW w, Typed(w), NEW u, NEW tx \in [Flow -> TxState],
         NEW result \in [Flow -> FlowResult], SameBut(w, u, tx, result)
  PROVE  Typed(u)
BY DEF Typed, SameBut

LEMMA Schedule ==
  ASSUME Settled, NEW w, Good(w), NEW f \in Flow, Released(w, f), w.now < w.tx[f].next_send_ns
  PROVE  LET v == Push([w EXCEPT !.tx[f].send_scheduled = TRUE],
                       Inject(w.tx[f].next_send_ns, f))
         IN  Good(v) /\ Sends(w, v, f) /\ Awake(v, f) /\ Wakes(w, v)
<1> DEFINE u == [w EXCEPT !.tx[f].send_scheduled = TRUE]
           t == w.tx[f].next_send_ns
           x == InjectEvent(t, f, w.next_seq)
           v == Push(u, Inject(t, f))
           tt == [w.tx[f] EXCEPT !.send_scheduled = TRUE]
           tx == [w.tx EXCEPT ![f] = tt]
<1>1. Typed(w) /\ NetSound(w) /\ TimersTrue(w) /\ \A g \in Flow : FlowSound(w, g)
  BY DEF Good, FlowSound
<1>2. SameBut(w, u, tx, w.result)
  BY <1>1 DEF Typed, Fields, SameBut
<1>3. w.tx[f] \in TxState /\ t \in Nat /\ w.now \in Nat /\ w.next_seq \in Nat
      /\ w.tx \in [Flow -> TxState] /\ w.result \in [Flow -> FlowResult]
  <2>1. w.tx[f] \in TxState
    BY <1>1, FlowTyped
  <2>2. t \in Nat
    BY <2>1 DEF TxState
  <2> QED BY <1>1, <2>1, <2>2 DEF Typed
<1>4. /\ tt \in TxState /\ tt.next_seq = w.tx[f].next_seq /\ tt.in_flight = w.tx[f].in_flight
      /\ tt.retx = w.tx[f].retx /\ tt.failed = w.tx[f].failed
  BY <1>3 DEF TxState
<1> HIDE DEF u, t, tt
<1>5. tx \in [Flow -> TxState] /\ tx[f] = tt /\ \A g \in Flow \ {f} : tx[g] = w.tx[g]
  BY <1>3, <1>4
<1> HIDE DEF tx
<1>6. Typed(u)
  BY <1>1, <1>2, <1>3, <1>5, SameButTyped
<1>7. x \in PendingEvent /\ x.time = t /\ x.type = "Inject" /\ x.seq = w.next_seq /\ x.pkt.flow = f
  BY <1>3, InjectFacts
<1>8. x = [Inject(t, f) EXCEPT !.seq = u.next_seq]
  BY <1>2 DEF InjectEvent, SameBut
<1> HIDE DEF x
<1>9. /\ Typed(v) /\ v.events = u.events \cup {x} /\ v.next_seq = u.next_seq + 1
      /\ v.now = u.now /\ v.port = u.port /\ v.tx = u.tx
      /\ v.flying = u.flying /\ v.acked = u.acked /\ v.delivered = u.delivered
      /\ v.attempt = u.attempt /\ v.result = u.result
  BY <1>6, <1>7, <1>8, PushFields
<1> HIDE DEF v
<1>10. /\ v.events = w.events \cup {x} /\ v.next_seq = w.next_seq + 1
       /\ v.now = w.now /\ v.port = w.port /\ v.tx = tx
       /\ v.flying = w.flying /\ v.acked = w.acked /\ v.delivered = w.delivered
       /\ v.attempt = w.attempt /\ v.result = w.result
  BY <1>2, <1>9 DEF SameBut
<1>11. Awake(v, f)
  BY <1>7, <1>10 DEF Awake
<1>12. v.next_seq >= w.next_seq /\ w.next_seq < v.next_seq
  BY <1>3, <1>10
<1>13. EventSound(v, x)
  <2>1. Released(v, f)
    <3>1. spec[f].depends_on # 0 => spec[f].depends_on \in Flow
      BY FlowFacts
    <3> QED BY <1>10, <3>1 DEF Released
  <2>2. x.time >= v.now
    BY <1>3, <1>7, <1>10 DEF t
  <2> QED BY <1>7, <1>12, <2>1, <2>2 DEF EventSound
<1>14. Wakes(w, v)
  <2>1. ASSUME NEW g \in Flow
        PROVE  /\ v.tx[g].next_seq = w.tx[g].next_seq /\ v.tx[g].in_flight = w.tx[g].in_flight
               /\ v.tx[g].failed = w.tx[g].failed /\ v.tx[g].retx = w.tx[g].retx
               /\ v.tx[g].send_scheduled => w.tx[g].send_scheduled \/ Awake(v, g)
    <3>1. CASE g = f
      BY <1>4, <1>5, <1>10, <1>11, <3>1
    <3>2. CASE g # f
      BY <1>5, <1>10, <3>2
    <3> QED BY <3>1, <3>2
  <2> QED BY <1>7, <1>10, <1>12, <1>13, <2>1 DEF Wakes
<1>15. Sends(w, v, f)
  BY <1>4, <1>5, <1>10, <1>12 DEF Sends, Sent
<1>16. \A g \in Flow : Chained(v, g)
  <2> TAKE g \in Flow
  <2>1. Chained(w, g)
    BY <1>1 DEF FlowSound
  <2>2. v.tx[g].next_seq = w.tx[g].next_seq
    BY <1>14 DEF Wakes
  <2> QED BY <1>10, <2>1, <2>2 DEF Chained
<1>17. Good(v)
  BY <1>1, <1>9, <1>14, <1>16, WakesKeeps DEF Good, FlowSound
<1> QED BY <1>11, <1>14, <1>15, <1>17 DEF v, u, t

LEMMA SendsRefl ==
  ASSUME Settled, NEW w, Typed(w), NEW f \in Flow
  PROVE  Sends(w, w, f)
<1>1. w.next_seq \in Nat
  BY DEF Typed
<1>2. w.next_seq >= w.next_seq
  BY <1>1
<1> QED BY <1>2 DEF Sends

LEMMA RepointedBy ==
  ASSUME NEW w, Typed(w), NEW f \in Flow, NEW ring, NEW next
  PROVE  Repointed(w, [w EXCEPT !.tx[f].retx = ring, !.tx[f].next_seq = next], f, ring, next)
<1> DEFINE u == [w EXCEPT !.tx[f].retx = ring, !.tx[f].next_seq = next]
<1>1. w.tx \in [Flow -> TxState] /\ w.tx[f] \in TxState /\ DOMAIN w = Fields
  BY DEF Typed
<1>2. [[w.tx EXCEPT ![f] = [w.tx[f] EXCEPT !.retx = ring]]
          EXCEPT ![f] = [[w.tx EXCEPT ![f] = [w.tx[f] EXCEPT !.retx = ring]][f]
                           EXCEPT !.next_seq = next]]
        = [w.tx EXCEPT ![f] = [w.tx[f] EXCEPT !.retx = ring, !.next_seq = next]]
  BY <1>1 DEF TxState
<1>3. u.tx = [[w.tx EXCEPT ![f] = [w.tx[f] EXCEPT !.retx = ring]]
          EXCEPT ![f] = [[w.tx EXCEPT ![f] = [w.tx[f] EXCEPT !.retx = ring]][f]
                           EXCEPT !.next_seq = next]]
  BY <1>1 DEF Fields
<1>4. /\ DOMAIN u = Fields
      /\ u.events = w.events /\ u.next_seq = w.next_seq /\ u.now = w.now /\ u.port = w.port
      /\ u.flying = w.flying /\ u.acked = w.acked /\ u.delivered = w.delivered
      /\ u.attempt = w.attempt /\ u.result = w.result
      /\ u.injected = w.injected /\ u.received = w.received /\ u.dropped = w.dropped
  BY <1>1 DEF Fields
<1> QED BY <1>2, <1>3, <1>4 DEF Repointed

LEMMA TurnGood ==
  ASSUME Settled, NEW w, Good(w), NEW f \in Flow, Released(w, f), ~w.tx[f].failed
  PROVE  LET v == Turn(w, f)
         IN  /\ Good(v) /\ Sends(w, v, f)
             /\ AtRest(w, f) => AtRest(v, f)
             /\ AtRest(v, f) \/ v.tx[f].in_flight = w.tx[f].in_flight + 1
<1> DEFINE t == w.tx[f]
           live == {k \in 1 .. Len(t.retx) : t.retx[k] \notin w.acked[f]}
           v == Turn(w, f)
<1>1. Typed(w) /\ NetSound(w) /\ TimersTrue(w) /\ \A g \in Flow : FlowSound(w, g)
  BY DEF Good, FlowSound
<1>2. /\ t \in TxState /\ t.next_seq \in Nat /\ t.in_flight \in Nat /\ t.retx \in Seq(Nat)
      /\ t.next_send_ns \in Nat /\ w.now \in Nat /\ Len(t.retx) \in Nat
  <2>1. t \in TxState
    BY <1>1, FlowTyped
  <2>2. /\ t.next_seq \in Nat /\ t.in_flight \in Nat /\ t.retx \in Seq(Nat)
        /\ t.next_send_ns \in Nat
    BY <2>1 DEF TxState
  <2> QED BY <1>1, <2>1, <2>2 DEF Typed
<1>3. Windowed(w, f) /\ (t.send_scheduled => Awake(w, f))
  BY <1>1 DEF FlowSound, SenderSound
<1>4. /\ t.next_seq <= Packets(f)
      /\ w.flying[f] \cup InRing(t) \subseteq 0 .. t.next_seq - 1
      /\ w.flying[f] \cap (InRing(t) \cup w.acked[f]) = {}
      /\ \A j, k \in 1 .. Len(t.retx) : t.retx[j] = t.retx[k] => j = k
      /\ 0 .. t.next_seq - 1 \subseteq w.flying[f] \cup InRing(t) \cup w.acked[f]
  BY <1>3 DEF Windowed
<1>5. Packets(f) \in Nat /\ Window(f) \in Nat
  BY PacketsFacts
<1>6. CASE t.in_flight >= Window(f)
  <2>1. v = w
    BY <1>6 DEF Turn
  <2>2. AtRest(w, f)
    BY <1>6 DEF AtRest
  <2> QED BY <1>1, <2>1, <2>2, SendsRefl
<1>7. CASE ~(t.in_flight >= Window(f)) /\ w.now < t.next_send_ns
  <2>1. CASE t.send_scheduled
    <3>1. v = w
      BY <1>7, <2>1 DEF Turn
    <3>2. AtRest(w, f)
      BY <1>3, <2>1 DEF AtRest
    <3> QED BY <1>1, <3>1, <3>2, SendsRefl
  <2>2. CASE ~t.send_scheduled
    <3>1. v = Push([w EXCEPT !.tx[f].send_scheduled = TRUE], Inject(t.next_send_ns, f))
      BY <1>7, <2>2 DEF Turn
    <3>2. Good(v) /\ Sends(w, v, f) /\ Awake(v, f)
      BY <1>7, <3>1, Schedule
    <3> QED BY <3>2 DEF AtRest
  <2> QED BY <2>1, <2>2
<1>8. CASE ~(t.in_flight >= Window(f)) /\ ~(w.now < t.next_send_ns) /\ live # {}
  <2> DEFINE m == Min(live)
             ring == SubSeq(t.retx, m + 1, Len(t.retx))
             i == t.retx[m]
             u == [w EXCEPT !.tx[f].retx = ring]
  <2>1. v = send_packet(u, f, i)
    BY <1>8 DEF Turn
  <2>2. m \in live /\ \A k \in live : m <= k
    <3>1. live \subseteq Nat
      OBVIOUS
    <3> HIDE DEF live
    <3> QED BY <1>8, <3>1, NatMinimum
  <2>3. m \in 1 .. Len(t.retx) /\ i \notin w.acked[f]
    BY <2>2
  <2>4. \A k \in 1 .. m - 1 : t.retx[k] \in w.acked[f]
    <3> TAKE k \in 1 .. m - 1
    <3>1. k \in 1 .. Len(t.retx) /\ ~(m <= k)
      BY <1>2, <2>3, SMTT(30)
    <3> QED BY <2>2, <3>1
  <2> HIDE DEF m, live
  <2>5. /\ ring \in Seq(Nat) /\ Len(ring) = Len(t.retx) - m /\ Len(ring) \in Nat
        /\ \A k \in 1 .. Len(ring) : ring[k] = t.retx[m + k] /\ m + k \in m + 1 .. Len(t.retx)
    <3>1. m + 1 \in Int /\ Len(t.retx) \in Int
      BY <1>2, <2>3
    <3>2. \A k \in m + 1 .. Len(t.retx) : t.retx[k] \in Nat
      <4> DEFINE q == t.retx
      <4> HIDE DEF q
      <4>1. q \in Seq(Nat) /\ m \in 1 .. Len(q)
        BY <1>2, <2>3 DEF q
      <4>2. \A k \in m + 1 .. Len(q) : q[k] \in Nat
        BY <4>1
      <4> QED BY <4>2 DEF q
    <3>3. /\ ring \in Seq(Nat)
          /\ Len(ring) = IF m + 1 <= Len(t.retx) THEN Len(t.retx) - (m + 1) + 1 ELSE 0
          /\ \A k \in 1 .. Len(t.retx) - (m + 1) + 1 : ring[k] = t.retx[(m + 1) + k - 1]
      BY <3>1, <3>2, SubSeqProperties
    <3>4. Len(ring) = Len(t.retx) - m /\ Len(ring) \in Nat /\ Len(t.retx) - (m + 1) + 1 = Len(ring)
      BY <1>2, <2>3, <3>3
    <3>5. \A k \in 1 .. Len(ring) : (m + 1) + k - 1 = m + k /\ m + k \in m + 1 .. Len(t.retx)
      <4> DEFINE q == Len(t.retx)
                 l == Len(ring)
      <4>1. q \in Nat /\ l = q - m /\ m \in 1 .. q
        BY <1>2, <2>3, <3>4
      <4> HIDE DEF q, l
      <4>2. \A k \in 1 .. l : (m + 1) + k - 1 = m + k /\ m + k \in m + 1 .. q
        BY <4>1
      <4> QED BY <4>2 DEF q, l
    <3> QED BY <3>3, <3>4, <3>5
  <2> HIDE DEF ring
  <2>5a. \A k \in 1 .. Len(ring) : m + k \in 1 .. Len(t.retx) /\ m + k # m
    <3> DEFINE q == Len(t.retx)
               l == Len(ring)
    <3>1. q \in Nat /\ l = q - m /\ m \in 1 .. q
      BY <1>2, <2>3, <2>5
    <3> HIDE DEF q, l
    <3>2. \A k \in 1 .. l : m + k \in 1 .. q /\ m + k # m
      BY <3>1
    <3> QED BY <3>2 DEF q, l
  <2>6. Repointed(w, u, f, ring, t.next_seq)
    <3>1. [t EXCEPT !.retx = ring] = [t EXCEPT !.retx = ring, !.next_seq = t.next_seq]
      BY <1>2 DEF TxState
    <3>2. /\ DOMAIN u = Fields /\ u.tx = [w.tx EXCEPT ![f] = [t EXCEPT !.retx = ring]]
          /\ u.events = w.events /\ u.next_seq = w.next_seq /\ u.now = w.now
          /\ u.port = w.port
          /\ u.flying = w.flying /\ u.acked = w.acked /\ u.delivered = w.delivered
          /\ u.attempt = w.attempt /\ u.result = w.result
          /\ u.injected = w.injected /\ u.received = w.received /\ u.dropped = w.dropped
      BY <1>1 DEF Typed, Fields
    <3> QED BY <3>1, <3>2 DEF Repointed
  <2>7. i \in InRing(t) /\ i \in 0 .. t.next_seq - 1
    BY <1>4, <2>3 DEF InRing
  <2>8. i \in Index(f) /\ i < t.next_seq
    BY <1>2, <1>4, <1>5, <2>7 DEF Index
  <2>9. i \notin w.flying[f]
    BY <1>4, <2>7
  <2>10. i \notin InSeq(ring)
    <3>1. ASSUME NEW k \in 1 .. Len(ring) PROVE ring[k] # i
      <4>1. m + k \in 1 .. Len(t.retx) /\ m + k # m /\ ring[k] = t.retx[m + k]
        BY <2>5, <2>5a
      <4> QED BY <1>4, <2>3, <4>1
    <3> QED BY <3>1 DEF InSeq
  <2>11. InSeq(ring) \subseteq InRing(t)
    <3>1. ASSUME NEW k \in 1 .. Len(ring) PROVE ring[k] \in InRing(t)
      <4>1. m + k \in 1 .. Len(t.retx) /\ ring[k] = t.retx[m + k]
        BY <2>5, <2>5a
      <4> QED BY <4>1 DEF InRing
    <3> QED BY <3>1 DEF InSeq
  <2>12. \A j, k \in 1 .. Len(ring) : ring[j] = ring[k] => j = k
    <3>1. ASSUME NEW j \in 1 .. Len(ring), NEW k \in 1 .. Len(ring), ring[j] = ring[k]
          PROVE  j = k
      <4>1. /\ m + j \in 1 .. Len(t.retx) /\ ring[j] = t.retx[m + j]
            /\ m + k \in 1 .. Len(t.retx) /\ ring[k] = t.retx[m + k]
        BY <2>5, <2>5a
      <4>2. m + j = m + k
        BY <1>4, <3>1, <4>1
      <4> QED BY <2>3, <4>2
    <3> QED BY <3>1
  <2>13. 0 .. t.next_seq - 1 \subseteq w.flying[f] \cup {i} \cup InSeq(ring) \cup w.acked[f]
    <3>1. InRing(t) \subseteq {i} \cup InSeq(ring) \cup w.acked[f]
      <4>1. ASSUME NEW k \in 1 .. Len(t.retx)
            PROVE  t.retx[k] \in {i} \cup InSeq(ring) \cup w.acked[f]
        <5>1. CASE k < m
          <6>1. k \in 1 .. m - 1
            BY <2>3, <5>1
          <6> QED BY <2>4, <6>1
        <5>2. CASE k = m
          BY <5>2
        <5>3. CASE k > m
          <6>1. k - m \in 1 .. Len(ring) /\ m + (k - m) = k
            BY <1>2, <2>3, <2>5, <5>3
          <6>2. ring[k - m] = t.retx[k]
            BY <2>5, <6>1
          <6> QED BY <6>1, <6>2 DEF InSeq
        <5> QED BY <2>3, <5>1, <5>2, <5>3
      <4> QED BY <4>1 DEF InRing
    <3> QED BY <1>4, <3>1
  <2>14. t.next_seq <= t.next_seq
    BY <1>2
  <2>14a. w.tx[f].next_seq = t.next_seq /\ InRing(w.tx[f]) = InRing(t)
    OBVIOUS
  <2> HIDE DEF u, i, t, v
  <2>15. Good(v) /\ Sends(w, v, f) /\ v.tx[f].in_flight = w.tx[f].in_flight + 1
    <3> DEFINE next == t.next_seq
    <3>1. next \in Nat /\ w.tx[f].next_seq <= next /\ next <= Packets(f) /\ i < next
      BY <1>2, <1>4, <2>8, <2>14, <2>14a
    <3>2. InSeq(ring) \subseteq InRing(w.tx[f])
      BY <2>11, <2>14a
    <3>3. Repointed(w, u, f, ring, next)
      BY <2>6
    <3>4. 0 .. next - 1 \subseteq w.flying[f] \cup {i} \cup InSeq(ring) \cup w.acked[f]
      BY <2>13
    <3> HIDE DEF next, ring
    <3>5. ring \in Seq(Nat) /\ i \in Index(f)
      BY <2>5, <2>8
    <3> DEFINE x == send_packet(u, f, i)
    <3>6. i \notin w.acked[f]
      BY <2>3
    <3>7. Good(x) /\ Sends(w, x, f) /\ x.tx[f].in_flight = w.tx[f].in_flight + 1
      BY <2>9, <2>10, <2>12, <3>1, <3>2, <3>3, <3>4, <3>5, <3>6, SendGood, SMTT(30)
    <3> QED BY <2>1, <3>7
  <2>16. AtRest(w, f) => Awake(w, f)
    <3>1. t.retx # <<>>
      BY <1>2, <2>3
    <3> QED BY <1>8, <3>1 DEF AtRest, t
  <2>17. Awake(w, f) => Awake(v, f)
    BY <2>15 DEF Awake, Sends
  <2>18. AtRest(w, f) => AtRest(v, f)
    BY <2>16, <2>17 DEF AtRest
  <2> QED BY <2>15, <2>18 DEF v
<1>9. CASE ~(t.in_flight >= Window(f)) /\ ~(w.now < t.next_send_ns) /\ live = {}
  <2>1. InRing(t) \subseteq w.acked[f]
    BY <1>9 DEF InRing
  <2>2. CASE t.next_seq >= Packets(f)
    <3> DEFINE tt == [t EXCEPT !.retx = <<>>]
               tx == [w.tx EXCEPT ![f] = tt]
    <3>1. v = [w EXCEPT !.tx[f].retx = <<>>]
      BY <1>9, <2>2 DEF Turn
    <3>2. SameBut(w, v, tx, w.result)
      BY <1>1, <3>1 DEF Typed, Fields, SameBut
    <3>3. <<>> \in Seq(Nat)
      OBVIOUS
    <3>4. /\ tt \in TxState /\ tt.next_seq = t.next_seq /\ tt.in_flight = t.in_flight
          /\ tt.retx = <<>> /\ tt.failed = t.failed
          /\ tt.send_scheduled = t.send_scheduled
      BY <1>2, <3>3 DEF TxState
    <3> HIDE DEF tt, v, t
    <3>5. w.tx \in [Flow -> TxState] /\ w.result \in [Flow -> FlowResult]
      BY <1>1 DEF Typed
    <3>6. tx \in [Flow -> TxState] /\ tx[f] = tt /\ \A g \in Flow \ {f} : tx[g] = w.tx[g]
      BY <3>4, <3>5
    <3> HIDE DEF tx
    <3>7. Typed(v)
      BY <1>1, <3>2, <3>5, <3>6, SameButTyped
    <3>8. v.next_seq >= w.next_seq
      BY <1>1, <3>2 DEF SameBut, Typed
    <3>9. ASSUME NEW g \in Flow
          PROVE  /\ v.tx[g].next_seq = w.tx[g].next_seq /\ v.tx[g].in_flight = w.tx[g].in_flight
                 /\ v.tx[g].failed = w.tx[g].failed
                 /\ \/ v.tx[g].retx = w.tx[g].retx
                    \/ v.tx[g].retx = <<>> /\ InRing(w.tx[g]) \subseteq w.acked[g]
                 /\ v.tx[g].send_scheduled = w.tx[g].send_scheduled
      <4>1. CASE g = f
        BY <2>1, <3>2, <3>4, <3>6, <4>1 DEF SameBut, t
      <4>2. CASE g # f
        BY <3>2, <3>6, <4>2 DEF SameBut
      <4> QED BY <4>1, <4>2
    <3>10. Wakes(w, v)
      BY <3>2, <3>8, <3>9 DEF SameBut, Wakes
    <3>11. Sends(w, v, f)
      BY <3>2, <3>4, <3>6, <3>8 DEF SameBut, Sends, Sent, t
    <3>12. \A g \in Flow : Chained(v, g)
      <4> TAKE g \in Flow
      <4>1. Chained(w, g)
        BY <1>1 DEF FlowSound
      <4>2. v.tx[g].next_seq = w.tx[g].next_seq
        BY <3>9
      <4> QED BY <3>2, <4>1, <4>2 DEF Chained, SameBut
    <3>13. Good(v)
      BY <1>1, <3>7, <3>10, <3>12, WakesKeeps DEF Good, FlowSound
    <3>14. AtRest(v, f)
      BY <2>2, <3>2, <3>4, <3>6 DEF AtRest, SameBut, t
    <3> QED BY <3>11, <3>13, <3>14 DEF v
  <2>3. CASE ~(t.next_seq >= Packets(f))
    <3> DEFINE u == [w EXCEPT !.tx[f].retx = <<>>, !.tx[f].next_seq = t.next_seq + 1]
               i == t.next_seq
               next == t.next_seq + 1
    <3>0. [w EXCEPT !.tx[f].retx = <<>>, !.tx[f].next_seq = @ + 1] = u
      BY <1>1 DEF Typed, Fields, TxState
    <3>1. v = send_packet(u, f, i)
      BY <1>9, <2>3, <3>0 DEF Turn
    <3>2. Repointed(w, u, f, <<>>, next)
      BY <1>1, RepointedBy
    <3>3. i \in Index(f) /\ next \in Nat /\ t.next_seq <= next /\ next <= Packets(f) /\ i < next
      BY <1>2, <1>5, <2>3, SMTT(30) DEF Index
    <3>4. i \notin 0 .. t.next_seq - 1
      BY <1>2
    <3>5. w.acked[f] \subseteq 0 .. t.next_seq - 1
      BY <1>1 DEF FlowSound, Received, Sent
    <3>6. i \notin w.flying[f]
      BY <1>4, <3>4
    <3>7. <<>> \in Seq(Nat) /\ InSeq(<<>>) = {}
          /\ \A j, k \in 1 .. Len(<<>>) : <<>>[j] = <<>>[k] => j = k
      BY DEF InSeq
    <3>8. 0 .. next - 1 \subseteq w.flying[f] \cup {i} \cup InSeq(<<>>) \cup w.acked[f]
      <4>1. 0 .. next - 1 = (0 .. t.next_seq - 1) \cup {i}
        BY <1>2
      <4> QED BY <1>4, <2>1, <4>1
    <3>9. i \notin w.acked[f]
      BY <3>4, <3>5
    <3>10. w.tx[f].next_seq <= next
      BY <3>3
    <3>11. InSeq(<<>>) \subseteq InRing(w.tx[f]) /\ i \notin InSeq(<<>>)
      BY <3>7
    <3> HIDE DEF u, i, t, v, next
    <3>12. Good(v) /\ Sends(w, v, f) /\ v.tx[f].in_flight = w.tx[f].in_flight + 1
      <4> DEFINE ring == <<>>
      <4>1. /\ ring \in Seq(Nat) /\ InSeq(ring) \subseteq InRing(w.tx[f]) /\ i \notin InSeq(ring)
            /\ Repointed(w, u, f, ring, next)
            /\ \A j, k \in 1 .. Len(ring) : ring[j] = ring[k] => j = k
            /\ 0 .. next - 1 \subseteq w.flying[f] \cup {i} \cup InSeq(ring) \cup w.acked[f]
        BY <3>2, <3>7, <3>8, <3>11
      <4> HIDE DEF ring
      <4> QED BY <3>1, <3>3, <3>6, <3>9, <3>10, <4>1, SendGood
    <3>13. AtRest(w, f) => Awake(w, f)
      BY <1>5, <1>9, <2>3 DEF AtRest, t
    <3>14. Awake(w, f) => Awake(v, f)
      BY <3>12 DEF Awake, Sends
    <3>15. AtRest(w, f) => AtRest(v, f)
      BY <3>13, <3>14 DEF AtRest
    <3> QED BY <3>12, <3>15 DEF v
  <2> QED BY <2>2, <2>3
<1> QED BY <1>6, <1>7, <1>8, <1>9

-----------------------------------------------------------------------------
(* Loops *)

(* A turn of the three loops: of a call of try_send, of build_dependents'  *)
(* flows being released, and of begin_run.                                 *)
LoopBody(loop, f, v, n) ==
  IF loop = "send" THEN Turn(v, f)
  ELSE IF loop = "release" THEN release_flow(v, Dependents(f)[n])
  ELSE PushStart(v, n)

IsLoop(loop, f, w, N, t) ==
  t = [n \in 0 .. N |-> IF n = 0 THEN w ELSE LoopBody(loop, f, t[n - 1], n)]

LEMMA LoopExists ==
  ASSUME NEW loop, NEW f, NEW w, NEW N \in Nat
  PROVE  \E t : IsLoop(loop, f, w, N, t)
<1> DEFINE Is(t, m) == IsLoop(loop, f, w, m, t)
           T == {m \in Nat : ~ \E t : Is(t, m)}
<1>1. SUFFICES ASSUME N \in T PROVE FALSE
  OBVIOUS
<1>2. T \subseteq Nat /\ T # {}
  BY <1>1
<1> DEFINE m == Min(T)
<1>3. m \in T /\ \A n \in T : m <= n
  <2> HIDE DEF T
  <2> QED BY <1>2, NatMinimum
<1>4. m \in Nat /\ ~ \E t : Is(t, m)
  BY <1>3
<1> HIDE DEF m
<1>5. CASE m = 0
  <2> DEFINE t == [n \in 0 .. 0 |-> w]
  <2>1. \A n \in 0 .. 0 : n = 0
    OBVIOUS
  <2>2. Is(t, 0)
    BY <2>1 DEF IsLoop
  <2> QED BY <1>4, <1>5, <2>2
<1>6. CASE m # 0
  <2>1. m - 1 \in Nat /\ m - 1 \notin T
    BY <1>3, <1>4, <1>6
  <2>2. PICK t : Is(t, m - 1)
    BY <2>1
  <2> DEFINE u == [n \in 0 .. m |-> IF n = m THEN LoopBody(loop, f, t[m - 1], m) ELSE t[n]]
  <2>3. ASSUME NEW n \in 0 .. m
        PROVE  u[n] = IF n = 0 THEN w ELSE LoopBody(loop, f, u[n - 1], n)
    <3>1. CASE n = m
      <4>1. u[n] = LoopBody(loop, f, t[m - 1], m)
        BY <3>1
      <4>2. n - 1 \in 0 .. m /\ n - 1 # m /\ n # 0
        BY <1>4, <1>6, <3>1
      <4>3. u[n - 1] = t[n - 1]
        BY <4>2
      <4> QED BY <3>1, <4>1, <4>2, <4>3
    <3>2. CASE n # m
      <4>1. n \in 0 .. m - 1 /\ u[n] = t[n]
        BY <1>4, <3>2
      <4>2. t[n] = IF n = 0 THEN w ELSE LoopBody(loop, f, t[n - 1], n)
        BY <2>2, <4>1 DEF IsLoop
      <4>3. n # 0 => n - 1 \in 0 .. m /\ n - 1 # m
        BY <1>4, <3>2
      <4>4. n # 0 => u[n - 1] = t[n - 1]
        BY <4>3
      <4> QED BY <4>1, <4>2, <4>4
    <3> QED BY <3>1, <3>2
  <2>4. u = [n \in 0 .. m |-> u[n]]
    OBVIOUS
  <2> HIDE DEF u
  <2>5. Is(u, m)
    BY <2>3, <2>4 DEF IsLoop
  <2> QED BY <1>4, <2>5
<1> QED BY <1>5, <1>6

(* The states the turns of a call go through. *)
Turns(w, f, a, N) ==
  /\ N \in Nat /\ a[0] = w /\ SendLoop(w, f) = a[N]
  /\ Good(a[N]) /\ Sends(w, a[N], f) /\ AtRest(a[N], f)
  /\ \A n \in 1 .. N : /\ a[n] = Turn(a[n - 1], f) /\ Good(a[n - 1])
                        /\ Released(a[n - 1], f) /\ ~a[n - 1].tx[f].failed

LEMMA SendLoopTurns ==
  ASSUME Settled, NEW w, Good(w), NEW f \in Flow, Released(w, f), ~w.tx[f].failed
  PROVE  \E N, t : Turns(w, f, t, N)
<1> DEFINE N == Window(f)
           P(t) == t = [n \in 0 .. N |-> IF n = 0 THEN w ELSE Turn(t[n - 1], f)]
           a == CHOOSE t : P(t)
<1>1. N \in Nat \ {0}
  BY PacketsFacts
<1>2. SendLoop(w, f) = a[N]
  BY DEF SendLoop
<1> HIDE DEF N
<1>3. \E t : P(t)
  <2>1. PICK t : IsLoop("send", f, w, N, t)
    BY <1>1, LoopExists
  <2>2. P(t)
    BY <2>1 DEF IsLoop, LoopBody
  <2> QED BY <2>2
<1>4. P(a)
  BY <1>3
<1> HIDE DEF a
<1>5. a[0] = w /\ \A n \in 1 .. N : a[n] = Turn(a[n - 1], f)
  <2>1. 0 \in 0 .. N /\ \A n \in 1 .. N : n \in 0 .. N /\ n # 0
    BY <1>1
  <2> QED BY <1>4, <2>1
<1> DEFINE Q(n) == /\ Good(a[n]) /\ Sends(w, a[n], f)
                   /\ AtRest(a[n], f) \/ a[n].tx[f].in_flight >= n
           T == {n \in 0 .. N : ~Q(n)}
<1>6. T = {}
  <2>1. SUFFICES ASSUME T # {} PROVE FALSE
    OBVIOUS
  <2> DEFINE m == Min(T)
  <2>2. m \in T /\ \A n \in T : m <= n
    <3>1. T \subseteq Nat
      BY <1>1
    <3> HIDE DEF T
    <3> QED BY <2>1, <3>1, NatMinimum
  <2>3. m \in 0 .. N /\ ~Q(m)
    BY <2>2
  <2> HIDE DEF m
  <2>4. Q(0)
    <3>1. Typed(w) /\ w.tx[f] \in TxState
      BY FlowTyped DEF Good
    <3>2. w.tx[f].in_flight \in Nat
      BY <3>1 DEF TxState
    <3>3. w.tx[f].in_flight >= 0
      BY <3>2
    <3> QED BY <1>5, <3>1, <3>3, SendsRefl
  <2>5. m # 0
    BY <2>3, <2>4
  <2>6. m - 1 \in 0 .. N /\ m \in 1 .. N /\ m - 1 \notin T
    BY <1>1, <2>2, <2>3, <2>5
  <2> DEFINE u == a[m - 1]
             v == a[m]
  <2>7. Good(u) /\ Sends(w, u, f) /\ (AtRest(u, f) \/ u.tx[f].in_flight >= m - 1)
    BY <2>6
  <2>8. v = Turn(u, f)
    BY <1>5, <2>6
  <2> HIDE DEF u, v
  <2>9. ~u.tx[f].failed /\ Released(u, f)
    <3>1. MayCarry(w, u)
      BY <2>7 DEF Sends, MayCarry, Sent
    <3> QED BY <2>7, <3>1, ReleasedGrows DEF Sends
  <2>10. /\ Good(v) /\ Sends(u, v, f)
         /\ AtRest(u, f) => AtRest(v, f)
         /\ AtRest(v, f) \/ v.tx[f].in_flight = u.tx[f].in_flight + 1
    BY <2>7, <2>8, <2>9, TurnGood
  <2>11. Sends(w, v, f)
    BY <2>7, <2>10, SendsTrans DEF Good
  <2>12. u.tx[f].in_flight \in Nat
    <3>1. u.tx[f] \in TxState
      BY <2>7, FlowTyped DEF Good
    <3> QED BY <3>1 DEF TxState
  <2>13. AtRest(v, f) \/ v.tx[f].in_flight >= m
    <3>1. CASE AtRest(u, f)
      BY <2>10, <3>1
    <3>2. CASE u.tx[f].in_flight >= m - 1
      BY <2>3, <2>10, <2>12, <3>2
    <3> QED BY <2>7, <3>1, <3>2
  <2> QED BY <2>3, <2>10, <2>11, <2>13 DEF v
<1>7. N \in 0 .. N
  BY <1>1
<1>8. Q(N)
  BY <1>6, <1>7
<1>9. AtRest(a[N], f)
  BY <1>8 DEF AtRest, N
<1>10. ASSUME NEW n \in 1 .. N
       PROVE  /\ a[n] = Turn(a[n - 1], f) /\ Good(a[n - 1])
              /\ Released(a[n - 1], f) /\ ~a[n - 1].tx[f].failed
  <2> DEFINE u == a[n - 1]
  <2>1. n - 1 \in 0 .. N /\ n - 1 \notin T
    BY <1>1, <1>6
  <2>2. Good(u) /\ Sends(w, u, f)
    BY <2>1
  <2>3. a[n] = Turn(u, f)
    BY <1>5
  <2> HIDE DEF u
  <2>4. MayCarry(w, u)
    BY <2>2 DEF Sends, MayCarry, Sent
  <2>5. ~u.tx[f].failed /\ Released(u, f)
    BY <2>2, <2>4, ReleasedGrows DEF Sends
  <2> QED BY <2>2, <2>3, <2>5 DEF u
<1> HIDE DEF Q, T
<1>11. Good(a[N]) /\ Sends(w, a[N], f)
  BY <1>8 DEF Q
<1>12. N \in Nat
  BY <1>1
<1>13. Turns(w, f, a, N)
  BY <1>2, <1>5, <1>9, <1>10, <1>11, <1>12 DEF Turns
<1> QED BY <1>13

LEMMA SendLoopGood ==
  ASSUME Settled, NEW w, Good(w), NEW f \in Flow, Released(w, f), ~w.tx[f].failed
  PROVE  LET v == SendLoop(w, f)
         IN  Good(v) /\ Sends(w, v, f) /\ AtRest(v, f)
BY SendLoopTurns DEF Turns

LEMMA TrySendGood ==
  ASSUME Settled, NEW w, Good(w), NEW f \in Flow, Released(w, f)
  PROVE  LET v == try_send(w, f)
         IN  Good(v) /\ Sends(w, v, f) /\ AtRest(v, f)
<1>1. CASE w.tx[f].failed
  <2>1. Typed(w) /\ try_send(w, f) = w /\ AtRest(w, f)
    BY <1>1 DEF Good, try_send, AtRest
  <2> QED BY <2>1, SendsRefl
<1>2. CASE ~w.tx[f].failed
  BY <1>2, SendLoopGood DEF try_send
<1> QED BY <1>1, <1>2

(* Nothing else moves, but flow f comes to rest. *)
LEMMA SendsRests ==
  ASSUME Settled, NEW w, NEW v, NEW f \in Flow, Sends(w, v, f), AtRest(v, f),
         \A g \in Flow \ {f} : Rests(w, g)
  PROVE  \A g \in Flow : Rests(v, g)
<1>1. ASSUME NEW g \in Flow, g # f, Released(v, g)
      PROVE  AtRest(v, g)
  <2>1. spec[g].depends_on # 0 => spec[g].depends_on \in Flow
    BY FlowFacts
  <2>2. Released(w, g)
    BY <1>1, <2>1 DEF Sends, Released
  <2>3. AtRest(w, g)
    BY <1>1, <2>2 DEF Rests
  <2>4. v.tx[g] = w.tx[g] /\ w.events \subseteq v.events
    BY <1>1 DEF Sends
  <2> QED BY <2>3, <2>4 DEF AtRest, Awake
<1> QED BY <1>1 DEF Rests

-----------------------------------------------------------------------------
(* An event is taken off the queue *)

Popped(w, e) == [w EXCEPT !.events = @ \ {e}]

(* What it leaves true: all but what e itself was for. *)
LEMMA PoppedFacts ==
  ASSUME Settled, NEW w, Good(w), NEW e \in w.events
  PROVE  LET v == Popped(w, e)
         IN  /\ Typed(v) /\ NetSound(v) /\ TimersTrue(v)
             /\ DOMAIN v = Fields
             /\ v.events = w.events \ {e} /\ v.next_seq = w.next_seq /\ v.now = w.now
             /\ v.port = w.port /\ v.tx = w.tx /\ v.flying = w.flying /\ v.acked = w.acked
             /\ v.delivered = w.delivered /\ v.attempt = w.attempt /\ v.result = w.result
             /\ v.injected = w.injected /\ v.received = w.received /\ v.dropped = w.dropped
             /\ \A f \in Flow : Received(v, f) /\ Chained(v, f) /\ Windowed(v, f)
             /\ e.type # "Timeout" => \A f \in Flow : Timed(v, f)
             /\ e.type # "Inject" => \A f \in Flow : /\ v.tx[f].send_scheduled => Awake(v, f)
                                                     /\ Rests(w, f) => Rests(v, f)
             /\ EventSound(w, e) /\ e \in PendingEvent
<1> DEFINE v == Popped(w, e)
<1>1. Typed(w) /\ NetSound(w) /\ TimersTrue(w) /\ \A f \in Flow : FlowSound(w, f)
  BY DEF Good, FlowSound
<1>2. /\ DOMAIN v = Fields
      /\ v.events = w.events \ {e} /\ v.next_seq = w.next_seq /\ v.now = w.now
      /\ v.port = w.port /\ v.tx = w.tx /\ v.flying = w.flying /\ v.acked = w.acked
      /\ v.delivered = w.delivered /\ v.attempt = w.attempt /\ v.result = w.result
      /\ v.injected = w.injected /\ v.received = w.received /\ v.dropped = w.dropped
  BY <1>1 DEF Popped, Typed, Fields
<1> HIDE DEF v
<1>3. Typed(v)
  BY <1>1, <1>2 DEF Typed
<1>4. MayCarry(w, v)
  BY <1>2 DEF MayCarry, Sent
<1>5. NetSound(v)
  <2>1. \A p \in Port : PortSound(v, p)
    BY <1>1, <1>2, <1>4, PortGrows DEF NetSound
  <2>2. v.next_seq >= w.next_seq
    BY <1>1, <1>2 DEF Typed
  <2>3. \A d \in v.events : EventSound(v, d)
    BY <1>1, <1>2, <1>3, <1>4, <2>2, EventGrows DEF NetSound
  <2>4. OneService(v)
    BY <1>1, <1>2 DEF NetSound, OneService
  <2> QED BY <2>1, <2>3, <2>4 DEF NetSound
<1>6. TimersTrue(v)
  BY <1>1, <1>2 DEF TimersTrue, TimerTrue
<1>7. ASSUME NEW f \in Flow
      PROVE  Received(v, f) /\ Chained(v, f) /\ Windowed(v, f)
  <2>1. Received(w, f) /\ Chained(w, f) /\ Windowed(w, f)
    BY <1>1 DEF FlowSound, SenderSound
  <2> QED BY <1>2, <2>1 DEF Received, Chained, Windowed, Sent
<1>8. ASSUME NEW f \in Flow, e.type # "Timeout"
      PROVE  Timed(v, f)
  <2>1. Timed(w, f)
    BY <1>1 DEF FlowSound, SenderSound
  <2> QED BY <1>2, <1>8, <2>1 DEF Timed, IsTimer
<1>9. ASSUME NEW f \in Flow, e.type # "Inject"
      PROVE  /\ v.tx[f].send_scheduled => Awake(v, f)
             /\ Rests(w, f) => Rests(v, f)
  <2>1. w.tx[f].send_scheduled => Awake(w, f)
    BY <1>1 DEF FlowSound, SenderSound
  <2>2. Awake(w, f) => Awake(v, f)
    BY <1>2, <1>9 DEF Awake
  <2> QED BY <1>2, <2>1, <2>2 DEF Rests, AtRest, Released
<1>10. EventSound(w, e) /\ e \in PendingEvent
  BY <1>1 DEF NetSound, Typed
<1> QED BY <1>2, <1>3, <1>5, <1>6, <1>7, <1>8, <1>9, <1>10 DEF v

(* A popped event that is neither a timer nor an Inject leaves all true.   *)
LEMMA PoppedGood ==
  ASSUME Settled, NEW w, Good(w), AllRest(w), NEW e \in w.events, e.type \in NetTypes
  PROVE  Good(Popped(w, e)) /\ AllRest(Popped(w, e))
<1> DEFINE v == Popped(w, e)
<1>1. e.type # "Timeout" /\ e.type # "Inject"
  BY DEF NetTypes
<1>2. /\ Typed(v) /\ NetSound(v) /\ TimersTrue(v)
      /\ \A f \in Flow : Received(v, f) /\ Chained(v, f) /\ Windowed(v, f) /\ Timed(v, f)
      /\ \A f \in Flow : v.tx[f].send_scheduled => Awake(v, f)
      /\ \A f \in Flow : Rests(w, f) => Rests(v, f)
  BY <1>1, PoppedFacts
<1> HIDE DEF v
<1>3. Good(v)
  BY <1>2 DEF Good, SenderSound
<1>4. AllRest(v)
  BY <1>2 DEF AllRest
<1> QED BY <1>3, <1>4 DEF v

(* Whatever the ring of flow f holds is there to be sent again. *)
Tried(w, f) == \A i \in Index(f) : i \in InRing(w.tx[f]) => w.attempt[f][i] > 0

(* A step of the sender of flow f that sends nothing. *)
Silent(v, u, f) ==
  /\ u.now = v.now /\ u.next_seq = v.next_seq /\ u.port = v.port /\ u.events = v.events
  /\ u.delivered = v.delivered
  /\ u.tx[f].next_seq = v.tx[f].next_seq
  /\ Tried(v, f) => Tried(u, f)
  /\ \A g \in Flow \ {f} : /\ u.tx[g] = v.tx[g] /\ u.flying[g] = v.flying[g]
                           /\ u.acked[g] = v.acked[g] /\ u.attempt[g] = v.attempt[g]
  /\ \A g \in Flow : /\ u.result[g].complete = v.result[g].complete
                     /\ u.result[g].start_ns = v.result[g].start_ns
                     /\ u.result[g].finish_ns = v.result[g].finish_ns
                     /\ u.result[g].packets_delivered = v.result[g].packets_delivered
                     /\ u.result[g].packets_dropped = v.result[g].packets_dropped
                     /\ u.result[g].packets_retransmitted = v.result[g].packets_retransmitted

(* From v to x there is such a step, and perhaps a call of try_send. *)
Calls(v, x, f) ==
  \E u : /\ Good(u) /\ Silent(v, u, f)
         /\ x = u \/ (Released(u, f) /\ x = try_send(u, f))

LEMMA InjectGood ==
  ASSUME Settled, NEW w, Good(w), AllRest(w), NEW e \in w.events, e.type = "Inject"
  PROVE  LET x == on_inject(Popped(w, e), e)
         IN  Good(x) /\ AllRest(x) /\ Calls(Popped(w, e), x, e.pkt.flow)
<1> DEFINE v == Popped(w, e)
           f == e.pkt.flow
           u == [v EXCEPT !.tx[f].send_scheduled = FALSE]
           x == try_send(u, f)
<1>1. /\ Typed(v) /\ NetSound(v) /\ TimersTrue(v)
      /\ DOMAIN v = Fields
      /\ v.events = w.events \ {e} /\ v.tx = w.tx /\ v.result = w.result
      /\ \A g \in Flow : Received(v, g) /\ Chained(v, g) /\ Windowed(v, g)
      /\ \A g \in Flow : Timed(v, g)
      /\ EventSound(w, e)
  BY PoppedFacts
<1>2. f \in Flow /\ Released(w, f)
  BY <1>1 DEF EventSound
<1>3. on_inject(v, e) = x
  BY DEF on_inject
<1> HIDE DEF v, f
<1> DEFINE tt == [v.tx[f] EXCEPT !.send_scheduled = FALSE]
           tx == [v.tx EXCEPT ![f] = tt]
<1>4. SameBut(v, u, tx, v.result)
  BY <1>1 DEF Fields, SameBut
<1>5. v.tx[f] \in TxState /\ v.tx \in [Flow -> TxState] /\ v.result \in [Flow -> FlowResult]
  BY <1>1, <1>2, FlowTyped DEF Typed
<1>6. /\ tt \in TxState /\ tt.next_seq = v.tx[f].next_seq /\ tt.in_flight = v.tx[f].in_flight
      /\ tt.retx = v.tx[f].retx /\ tt.failed = v.tx[f].failed
  BY <1>5 DEF TxState
<1>7. ~tt.send_scheduled
  BY <1>5 DEF TxState
<1> HIDE DEF u, tt
<1>8. tx \in [Flow -> TxState] /\ tx[f] = tt /\ \A g \in Flow \ {f} : tx[g] = v.tx[g]
  BY <1>2, <1>5, <1>6
<1> HIDE DEF tx
<1>9. Typed(u)
  BY <1>1, <1>4, <1>5, <1>8, SameButTyped
<1>10. v.next_seq \in Nat /\ u.next_seq = v.next_seq /\ u.next_seq >= v.next_seq
  BY <1>1, <1>4 DEF Typed, SameBut
<1>11. ASSUME NEW g \in Flow
       PROVE  /\ u.tx[g].next_seq = v.tx[g].next_seq /\ u.tx[g].in_flight = v.tx[g].in_flight
              /\ u.tx[g].failed = v.tx[g].failed /\ u.tx[g].retx = v.tx[g].retx
  <2>1. CASE g = f
    BY <1>4, <1>6, <1>8, <2>1 DEF SameBut
  <2>2. CASE g # f
    BY <1>4, <1>8, <2>2 DEF SameBut
  <2> QED BY <2>1, <2>2
<1>12. MayCarry(v, u)
  BY <1>4, <1>11 DEF MayCarry, Sent, SameBut
<1>13. NetSound(u)
  <2>1. \A p \in Port : PortSound(u, p)
    BY <1>1, <1>4, <1>12, PortGrows DEF NetSound, SameBut
  <2>2. \A d \in u.events : EventSound(u, d)
    <3>1. /\ u.now = v.now /\ u.events = v.events
          /\ \A p \in Port : v.port[p].busy => u.port[p].busy
      BY <1>4 DEF SameBut
    <3> QED BY <1>1, <1>9, <1>10, <1>12, <3>1, EventGrows DEF NetSound
  <2>3. OneService(u)
    BY <1>1, <1>4 DEF NetSound, OneService, SameBut
  <2> QED BY <2>1, <2>2, <2>3 DEF NetSound
<1>14. TimersTrue(u)
  <2>1. ASSUME NEW d \in u.events, d.type = "Timeout"
        PROVE  TimerTrue(u, d)
    <3>1. d \in v.events /\ TimerTrue(v, d) /\ d.pkt.flow \in Flow
      BY <1>1, <1>4, <2>1 DEF TimersTrue, NetSound, EventSound, SameBut
    <3> QED BY <1>4, <1>11, <3>1 DEF TimerTrue, SameBut
  <2> QED BY <2>1 DEF TimersTrue
<1>15. ASSUME NEW g \in Flow
       PROVE  Received(u, g) /\ Chained(u, g) /\ Windowed(u, g) /\ Timed(u, g)
  <2>1. Received(v, g) /\ Chained(v, g) /\ Windowed(v, g) /\ Timed(v, g)
    BY <1>1
  <2>2. u.acked = v.acked /\ u.delivered = v.delivered /\ u.result = v.result
        /\ u.flying = v.flying /\ u.attempt = v.attempt /\ u.events = v.events
    BY <1>4 DEF SameBut
  <2>3. Received(u, g)
    BY <1>11, <2>1, <2>2 DEF Received, Sent
  <2>4. Chained(u, g)
    BY <1>11, <2>1, <2>2 DEF Chained
  <2>5. Windowed(u, g)
    <3>1. InRing(u.tx[g]) = InRing(v.tx[g])
      BY <1>11 DEF InRing
    <3>2. /\ u.tx[g].next_seq = v.tx[g].next_seq /\ u.tx[g].in_flight = v.tx[g].in_flight
          /\ u.tx[g].failed = v.tx[g].failed /\ u.tx[g].retx = v.tx[g].retx
      BY <1>11
    <3> QED BY <2>1, <2>2, <3>1, <3>2 DEF Windowed
  <2>6. Timed(u, g)
    BY <1>11, <2>1, <2>2 DEF Timed
  <2> QED BY <2>3, <2>4, <2>5, <2>6
<1>16. ASSUME NEW g \in Flow, g # f
       PROVE  /\ u.tx[g].send_scheduled => Awake(u, g)
              /\ Rests(w, g) => Rests(u, g)
  <2>1. u.tx[g] = w.tx[g] /\ u.events = w.events \ {e} /\ u.result = w.result
    BY <1>1, <1>4, <1>8, <1>16 DEF SameBut
  <2>2. w.tx[g].send_scheduled => Awake(w, g)
    BY DEF Good, SenderSound
  <2>3. Awake(w, g) => Awake(u, g)
    BY <1>16, <2>1 DEF Awake, f
  <2> QED BY <2>1, <2>2, <2>3 DEF Rests, AtRest, Released
<1>17. Good(u)
  <2>1. ~u.tx[f].send_scheduled
    BY <1>4, <1>7, <1>8 DEF SameBut
  <2>2. \A g \in Flow : SenderSound(u, g)
    BY <1>15, <1>16, <2>1 DEF SenderSound
  <2> QED BY <1>9, <1>13, <1>14, <1>15, <2>2 DEF Good
<1>18. Released(u, f)
  BY <1>1, <1>2, <1>4 DEF Released, SameBut
<1>19. Good(x) /\ Sends(u, x, f) /\ AtRest(x, f)
  BY <1>2, <1>17, <1>18, TrySendGood
<1>22. Calls(v, x, f)
  <2>1. Tried(v, f) => Tried(u, f)
    BY <1>2, <1>4, <1>11 DEF Tried, InRing, SameBut
  <2>2. \A g \in Flow \ {f} : u.tx[g] = v.tx[g]
    BY <1>4, <1>8 DEF SameBut
  <2>3. Silent(v, u, f)
    BY <1>2, <1>4, <1>11, <2>1, <2>2 DEF Silent, SameBut
  <2> HIDE DEF x
  <2>4. x = try_send(u, f)
    BY DEF x
  <2> QED BY <1>17, <1>18, <2>3, <2>4 DEF Calls
<1> HIDE DEF x
<1>20. \A g \in Flow \ {f} : Rests(u, g)
  BY <1>16 DEF AllRest
<1>21. AllRest(x)
  BY <1>2, <1>19, <1>20, SendsRests DEF AllRest
<1> QED BY <1>3, <1>19, <1>21, <1>22 DEF v, f

-----------------------------------------------------------------------------
(* on_tx_complete *)

LEMMA TxCompleteGood ==
  ASSUME Settled, NEW w, Good(w), AllRest(w), NEW e \in w.events, e.type = "TxComplete"
  PROVE  Good(on_tx_complete(Popped(w, e), e)) /\ AllRest(on_tx_complete(Popped(w, e), e))
<1> DEFINE v == Popped(w, e)
           p == e.port
           r == v.port[p]
           pkt == r.in_flight
           d == link(p).prop_delay_ns
           z == [v EXCEPT !.port[p].sent = @ + 1]
           ev == Event(v.now + d, "Arrive", p, pkt, 0)
           x == [ev EXCEPT !.seq = z.next_seq]
           u == Push(z, ev)
           y == IF u.port[p].waiting # <<>> THEN start_tx(u, p)
                ELSE [u EXCEPT !.port[p].busy = FALSE]
<1>1. Good(v) /\ AllRest(v)
  BY PoppedGood DEF NetTypes
<1>2. /\ Typed(v) /\ NetSound(v) /\ DOMAIN v = Fields
      /\ v.events = w.events \ {e} /\ v.port = w.port /\ v.next_seq = w.next_seq
      /\ EventSound(w, e)
  BY PoppedFacts
<1>3. p \in Port /\ r.busy
  BY <1>2 DEF EventSound
<1>4. \A a \in v.events : a.type = "TxComplete" => a.port # p
  BY <1>2 DEF Good, NetSound, OneService
<1>5. on_tx_complete(v, e) = y
  BY DEF on_tx_complete
<1> HIDE DEF v, p
<1>6. r \in PortState /\ pkt \in Packet /\ d \in Nat /\ v.now \in Nat /\ v.next_seq \in Nat
  BY <1>2, <1>3, PortTyped, CfgFacts DEF Typed
<1>7. Homeward(v, p, pkt)
  BY <1>2, <1>3 DEF NetSound, PortSound
<1> DEFINE rr == [r EXCEPT !.sent = @ + 1]
<1>8. /\ DOMAIN z = Fields
      /\ z.port = [v.port EXCEPT ![p] = rr]
      /\ z.events = v.events /\ z.next_seq = v.next_seq /\ z.now = v.now /\ z.tx = v.tx
      /\ z.flying = v.flying /\ z.acked = v.acked /\ z.delivered = v.delivered
      /\ z.attempt = v.attempt /\ z.result = v.result
      /\ z.injected = v.injected /\ z.received = v.received /\ z.dropped = v.dropped
  BY <1>2 DEF Fields
<1>9. /\ rr \in PortState /\ rr.waiting = r.waiting /\ rr.busy = r.busy
      /\ rr.in_flight = r.in_flight
  BY <1>6 DEF PortState
<1> HIDE DEF z, rr, d
<1>10. z.port \in [Port -> PortState]
  BY <1>2, <1>3, <1>8, <1>9 DEF Typed
<1>11. Typed(z)
  BY <1>2, <1>8, <1>10 DEF Typed
<1>12. v.now + d \in Nat /\ v.now + d >= v.now
  BY <1>6
<1> DEFINE t == v.now + d
<1> HIDE DEF t
<1>13. /\ x = [time |-> t, type |-> "Arrive", port |-> p, pkt |-> pkt,
               attempt |-> 0, seq |-> z.next_seq]
       /\ x.time = t /\ x.type = "Arrive" /\ x.port = p /\ x.pkt = pkt
       /\ x.seq = z.next_seq
  BY EventFields DEF t
<1>14. x \in PendingEvent
  BY <1>3, <1>6, <1>8, <1>12, <1>13 DEF PendingEvent, EventType, t
<1> HIDE DEF ev, u
<1>15. /\ Typed(u)
       /\ u.events = v.events \cup {x} /\ u.next_seq = v.next_seq + 1
       /\ u.now = v.now /\ u.port = z.port /\ u.tx = v.tx
       /\ u.flying = v.flying /\ u.acked = v.acked /\ u.delivered = v.delivered
       /\ u.attempt = v.attempt /\ u.result = v.result
  BY <1>8, <1>11, <1>14, PushFields DEF u
<1> HIDE DEF x
<1>16. /\ \A q \in Port : /\ u.port[q].waiting = v.port[q].waiting
                          /\ u.port[q].busy = v.port[q].busy
                          /\ u.port[q].in_flight = v.port[q].in_flight
  <2>1. v.port \in [Port -> PortState]
    BY <1>2 DEF Typed
  <2> QED BY <1>3, <1>8, <1>9, <1>15, <2>1, ZenonT(60)
<1>17. MayCarry(v, u)
  BY <1>15 DEF MayCarry, Sent
<1>18. u.next_seq >= v.next_seq /\ v.next_seq < u.next_seq
  BY <1>6, <1>15
<1>19. \A q \in Port : PortSound(u, q)
  BY <1>2, <1>16, <1>17, HomewardGrows DEF NetSound, PortSound
<1>20. \A a \in u.events : EventSound(u, a)
  <2>1. \A a \in v.events : EventSound(u, a)
    BY <1>2, <1>15, <1>16, <1>17, <1>18, EventGrows DEF NetSound
  <2>2. Homeward(u, p, pkt)
    BY <1>7, <1>17, HomewardGrows
  <2>3. EventSound(u, x)
    BY <1>3, <1>8, <1>12, <1>13, <1>15, <1>18, <2>2 DEF EventSound, t
  <2> QED BY <1>15, <2>1, <2>3
<1>21. NetSound(u)
  <2>1. OneService(u)
    BY <1>2, <1>13, <1>15 DEF NetSound, OneService
  <2> QED BY <1>19, <1>20, <2>1 DEF NetSound
<1>22. NetStep(v, u)
  BY <1>13, <1>15, <1>18 DEF NetStep, NetTypes
<1>23. NoService(u, p)
  BY <1>4, <1>13, <1>15 DEF NoService, v, p
<1>24. Typed(y) /\ NetSound(y) /\ NetStep(v, y)
  <2>1. CASE u.port[p].waiting # <<>>
    <3>1. y = start_tx(u, p)
      BY <2>1
    <3>2. Typed(y) /\ NetSound(y) /\ NetStep(u, y)
      BY <1>3, <1>15, <1>21, <1>23, <2>1, <3>1, StartTx
    <3> QED BY <1>2, <1>15, <1>22, <3>2, NetStepTrans
  <2>2. CASE u.port[p].waiting = <<>>
    <3> DEFINE s == [u.port[p] EXCEPT !.busy = FALSE]
    <3>1. y = [u EXCEPT !.port[p].busy = FALSE]
      BY <2>2
    <3> HIDE DEF y
    <3>2. /\ DOMAIN y = Fields
          /\ y.port = [u.port EXCEPT ![p] = s]
          /\ y.events = u.events /\ y.next_seq = u.next_seq /\ y.now = u.now /\ y.tx = u.tx
          /\ y.flying = u.flying /\ y.acked = u.acked /\ y.delivered = u.delivered
          /\ y.attempt = u.attempt /\ y.result = u.result
          /\ y.injected = u.injected /\ y.received = u.received /\ y.dropped = u.dropped
      BY <1>15, <3>1 DEF Typed, Fields
    <3>3. u.port[p] \in PortState
      BY <1>3, <1>15, PortTyped
    <3>4. s \in PortState /\ ~s.busy /\ s.waiting = u.port[p].waiting
      BY <3>3 DEF PortState
    <3> HIDE DEF s
    <3>5. u.port \in [Port -> PortState]
      BY <1>15 DEF Typed
    <3>6. y.port \in [Port -> PortState] /\ y.port[p] = s
          /\ \A q \in Port \ {p} : y.port[q] = u.port[q]
      BY <1>3, <3>2, <3>4, <3>5
    <3>7. Typed(y)
      BY <1>15, <3>2, <3>6 DEF Typed
    <3>8. MayCarry(u, y)
      BY <3>2 DEF MayCarry, Sent
    <3>9. ASSUME NEW q \in Port PROVE PortSound(y, q)
      <4>1. CASE q = p
        BY <2>2, <3>4, <3>6, <4>1 DEF PortSound
      <4>2. CASE q # p
        BY <1>21, <3>6, <3>8, <4>2, PortGrows DEF NetSound
      <4> QED BY <4>1, <4>2
    <3>10. ASSUME NEW a \in y.events PROVE EventSound(y, a)
      <4>1. a \in u.events /\ EventSound(u, a)
        BY <1>21, <3>2 DEF NetSound
      <4>2. a.type = "TxComplete" => a.port # p
        BY <1>23, <4>1 DEF NoService
      <4>3. a.type = "Arrive" => Homeward(y, a.port, a.pkt)
        BY <3>8, <4>1, HomewardGrows DEF EventSound
      <4>4. Released(u, a.pkt.flow) => Released(y, a.pkt.flow)
        BY <3>2 DEF Released
      <4> QED BY <3>2, <3>6, <4>1, <4>2, <4>3, <4>4 DEF EventSound
    <3>11. NetSound(y)
      <4>1. OneService(y)
        BY <1>21, <3>2 DEF NetSound, OneService
      <4> QED BY <3>9, <3>10, <4>1 DEF NetSound
    <3>12. NetStep(v, y)
      BY <1>22, <3>2 DEF NetStep
    <3> QED BY <3>7, <3>11, <3>12
  <2> QED BY <2>1, <2>2
<1> HIDE DEF y
<1>25. Good(y)
  <2>1. /\ \A f \in Flow : FlowSound(v, f) => FlowSound(y, f)
        /\ TimersTrue(v) => TimersTrue(y)
    BY <1>2, <1>24, NetStepKeeps
  <2> QED BY <1>1, <1>24, <2>1 DEF Good, FlowSound
<1>26. AllRest(y)
  BY <1>1, <1>2, <1>24, NetStepKeeps DEF AllRest, Rests
<1> QED BY <1>5, <1>25, <1>26 DEF v

-----------------------------------------------------------------------------
(* on_ack and on_timeout *)

(* w, with other byte counts. *)
Recounted(w, u) ==
  /\ DOMAIN u = Fields
  /\ u.injected \in [Kind -> Nat] /\ u.received \in [Kind -> Nat] /\ u.dropped \in [Kind -> Nat]
  /\ u.events = w.events /\ u.next_seq = w.next_seq /\ u.now = w.now /\ u.port = w.port
  /\ u.tx = w.tx /\ u.flying = w.flying /\ u.acked = w.acked /\ u.delivered = w.delivered
  /\ u.attempt = w.attempt /\ u.result = w.result

LEMMA RecountedGood ==
  ASSUME Settled, NEW w, Good(w), NEW u, Recounted(w, u)
  PROVE  Good(u) /\ NetStep(w, u) /\ (AllRest(w) => AllRest(u))
<1>1. Typed(w) /\ NetSound(w) /\ TimersTrue(w) /\ \A f \in Flow : FlowSound(w, f)
  BY DEF Good, FlowSound
<1>2. Typed(u)
  BY <1>1 DEF Typed, Recounted
<1>3. u.next_seq >= w.next_seq
  BY <1>1 DEF Typed, Recounted
<1>4. NetStep(w, u)
  BY <1>3 DEF Recounted, NetStep
<1>5. MayCarry(w, u)
  BY DEF Recounted, MayCarry, Sent
<1>6. NetSound(u)
  <2>1. \A p \in Port : PortSound(u, p)
    BY <1>1, <1>5, PortGrows DEF NetSound, Recounted
  <2>2. \A e \in u.events : EventSound(u, e)
    BY <1>1, <1>2, <1>3, <1>5, EventGrows DEF NetSound, Recounted
  <2>3. OneService(u)
    BY <1>1 DEF NetSound, OneService, Recounted
  <2> QED BY <2>1, <2>2, <2>3 DEF NetSound
<1>7. TimersTrue(u) /\ \A f \in Flow : FlowSound(u, f)
  BY <1>1, <1>2, <1>4, NetStepKeeps
<1>8. AllRest(w) => AllRest(u)
  BY <1>1, <1>2, <1>4, NetStepKeeps DEF AllRest, Rests
<1> QED BY <1>2, <1>4, <1>6, <1>7, <1>8 DEF Good, FlowSound

Moved(v, u, f) ==
  Silent(v, u, f) /\ u.tx[f].send_scheduled = v.tx[f].send_scheduled

LEMMA MovedGood ==
  ASSUME Settled, NEW v, NEW u, NEW f \in Flow, Moved(v, u, f), Typed(v), Typed(u),
         NetSound(v), TimersTrue(v),
         \A g \in Flow : /\ Received(v, g) /\ Chained(v, g)
                         /\ v.tx[g].send_scheduled => Awake(v, g),
         \A g \in Flow \ {f} : Windowed(v, g) /\ Timed(v, g),
         u.acked[f] \subseteq u.delivered[f], Windowed(u, f), Timed(u, f),
         \A e \in u.events : e.type = "Timeout" /\ e.pkt.flow = f => TimerTrue(u, e)
  PROVE  /\ Good(u)
         /\ \A g \in Flow \ {f} : Rests(v, g) => Rests(u, g)
         /\ Released(v, f) => Released(u, f)
<1>1. \A g \in Flow : u.tx[g].next_seq = v.tx[g].next_seq
  BY DEF Moved, Silent
<1>2. MayCarry(v, u)
  BY <1>1 DEF MayCarry, Sent, Moved, Silent
<1>3. NetSound(u)
  <2>1. \A p \in Port : PortSound(u, p)
    BY <1>2, PortGrows DEF NetSound, Moved, Silent
  <2>2. u.next_seq >= v.next_seq
    BY DEF Typed, Moved, Silent
  <2>3. \A e \in u.events : EventSound(u, e)
    BY <1>2, <2>2, EventGrows DEF NetSound, Moved, Silent
  <2>4. OneService(u)
    BY DEF NetSound, OneService, Moved, Silent
  <2> QED BY <2>1, <2>3, <2>4 DEF NetSound
<1>4. TimersTrue(u)
  <2>1. ASSUME NEW e \in u.events, e.type = "Timeout", e.pkt.flow # f
        PROVE  TimerTrue(u, e)
    <3>1. e \in v.events
      BY <2>1 DEF Moved, Silent
    <3>2. TimerTrue(v, e) /\ e.pkt.flow \in Flow
      BY <2>1, <3>1 DEF TimersTrue, NetSound, EventSound
    <3> QED BY <2>1, <3>2 DEF TimerTrue, Moved, Silent
  <2> QED BY <2>1 DEF TimersTrue
<1>5. \A g \in Flow : Awake(v, g) => Awake(u, g)
  BY DEF Awake, Moved, Silent
<1>6. ASSUME NEW g \in Flow
      PROVE  /\ Received(u, g) /\ Chained(u, g)
             /\ u.tx[g].send_scheduled => Awake(u, g)
  <2>1. Received(v, g) /\ Chained(v, g) /\ (v.tx[g].send_scheduled => Awake(v, g))
    OBVIOUS
  <2>2. u.acked[g] \subseteq u.delivered[g]
    <3>1. g # f => u.acked[g] = v.acked[g] /\ u.delivered[g] = v.delivered[g]
      BY DEF Moved, Silent
    <3> QED BY <2>1, <3>1 DEF Received
  <2>3. Received(u, g)
    BY <1>1, <2>1, <2>2 DEF Received, Sent, Moved, Silent
  <2>4. Chained(u, g)
    <3>1. spec[g].depends_on # 0 => spec[g].depends_on \in Flow
      BY FlowFacts
    <3> QED BY <1>1, <2>1, <3>1 DEF Chained, Moved, Silent
  <2>5. u.tx[g].send_scheduled = v.tx[g].send_scheduled
    BY DEF Moved, Silent
  <2> QED BY <1>5, <2>1, <2>3, <2>4, <2>5
<1>7. ASSUME NEW g \in Flow \ {f}
      PROVE  /\ Windowed(u, g) /\ Timed(u, g)
             /\ Rests(v, g) => Rests(u, g)
  <2>1. /\ u.tx[g] = v.tx[g] /\ u.flying[g] = v.flying[g] /\ u.acked[g] = v.acked[g]
        /\ u.attempt[g] = v.attempt[g] /\ u.events = v.events
    BY DEF Moved, Silent
  <2>2. Windowed(u, g) /\ Timed(u, g)
    BY <2>1 DEF Windowed, Timed
  <2>3. Rests(v, g) => Rests(u, g)
    <3>1. spec[g].depends_on # 0 => spec[g].depends_on \in Flow
      BY FlowFacts
    <3>2. Released(u, g) => Released(v, g)
      BY <3>1 DEF Released, Moved, Silent
    <3>3. AtRest(v, g) => AtRest(u, g)
      BY <2>1, <1>5 DEF AtRest
    <3> QED BY <3>2, <3>3 DEF Rests
  <2> QED BY <2>2, <2>3
<1>8. Good(u)
  <2>1. \A g \in Flow : SenderSound(u, g)
    BY <1>6, <1>7 DEF SenderSound
  <2> QED BY <1>3, <1>4, <1>6, <2>1 DEF Good
<1>9. Released(v, f) => Released(u, f)
  BY <1>2, ReleasedGrows
<1> QED BY <1>7, <1>8, <1>9

(* w, with packet i no longer in flight. *)
Landed(w, v, f, i) ==
  LET n == Cardinality(w.flying[f] \ {i})
  IN  /\ n \in Nat /\ DOMAIN v = Fields
      /\ v.flying = [w.flying EXCEPT ![f] = @ \ {i}]
      /\ v.tx = [w.tx EXCEPT ![f] = [w.tx[f] EXCEPT !.in_flight = n]]
      /\ v.events = w.events /\ v.next_seq = w.next_seq /\ v.now = w.now
      /\ v.port = w.port /\ v.acked = w.acked /\ v.delivered = w.delivered
      /\ v.attempt = w.attempt /\ v.result = w.result
      /\ v.injected = w.injected /\ v.received = w.received /\ v.dropped = w.dropped

LEMMA LandFacts ==
  ASSUME Settled, NEW w, Typed(w), NEW f \in Flow, NEW i \in Nat,
         w.tx[f].in_flight = Cardinality(w.flying[f]),
         w.flying[f] \subseteq 0 .. w.tx[f].next_seq - 1
  PROVE  Landed(w, Land(w, f, i), f, i)
<1> DEFINE v == Land(w, f, i)
           T == w.flying[f]
           n == Cardinality(T \ {i})
           t == w.tx[f]
<1>1. /\ t \in TxState /\ DOMAIN w = Fields /\ t.next_seq \in Nat
      /\ w.flying \in [Flow -> SUBSET Nat] /\ w.tx \in [Flow -> TxState]
  BY FlowTyped DEF Typed, TxState
<1>2. IsFiniteSet(T) /\ t.in_flight = Cardinality(T)
  BY <1>1, PrefixFinite
<1> HIDE DEF T, n
<1>3. n \in Nat /\ n = IF i \in T THEN t.in_flight - 1 ELSE t.in_flight
  <2>1. IsFiniteSet(T \ {i})
    BY <1>2, FS_Subset
  <2>2. n \in Nat
    BY <2>1, FS_CardinalityType DEF n
  <2>3. n = IF i \in T THEN t.in_flight - 1 ELSE t.in_flight
    BY <1>2, FS_RemoveElement DEF n
  <2> QED BY <2>2, <2>3
<1>4. CASE i \in T
  <2>1. v = [w EXCEPT !.flying[f] = @ \ {i}, !.tx[f].in_flight = @ - 1]
    BY <1>4 DEF Land, T
  <2>2. [t EXCEPT !.in_flight = @ - 1] = [t EXCEPT !.in_flight = n]
    BY <1>1, <1>3, <1>4 DEF TxState
  <2> HIDE DEF v
  <2>3. /\ DOMAIN v = Fields
        /\ v.flying = [w.flying EXCEPT ![f] = @ \ {i}]
        /\ v.tx = [w.tx EXCEPT ![f] = [t EXCEPT !.in_flight = @ - 1]]
        /\ v.events = w.events /\ v.next_seq = w.next_seq /\ v.now = w.now
        /\ v.port = w.port /\ v.acked = w.acked /\ v.delivered = w.delivered
        /\ v.attempt = w.attempt /\ v.result = w.result
        /\ v.injected = w.injected /\ v.received = w.received /\ v.dropped = w.dropped
    BY <1>1, <2>1 DEF Fields
  <2> QED BY <1>3, <2>2, <2>3 DEF Landed, v, n, T
<1>5. CASE i \notin T
  <2>1. v = w
    BY <1>5 DEF Land, T
  <2>2. w.flying[f] \ {i} = w.flying[f]
    BY <1>5 DEF T
  <2>3. w.flying = [w.flying EXCEPT ![f] = @ \ {i}]
    BY <1>1, <2>2
  <2>4. n = t.in_flight
    BY <1>3, <1>5
  <2>5. t = [t EXCEPT !.in_flight = n]
    BY <1>1, <2>4 DEF TxState
  <2>6. w.tx = [w.tx EXCEPT ![f] = [t EXCEPT !.in_flight = n]]
    BY <1>1, <2>5
  <2> QED BY <1>1, <1>3, <2>1, <2>3, <2>6 DEF Landed, n, T
<1> QED BY <1>4, <1>5

LEMMA AckGood ==
  ASSUME Settled, NEW w, Good(w), AllRest(w), NEW f \in Flow, Released(w, f),
         NEW i \in w.delivered[f]
  PROVE  LET x == on_ack(w, f, i)
         IN  Good(x) /\ AllRest(x) /\ Calls(w, x, f)
<1> DEFINE a == [w EXCEPT !.acked[f] = @ \cup {i}]
           u == Land(a, f, i)
           x == try_send(u, f)
           t == w.tx[f]
           n == Cardinality(w.flying[f] \ {i})
<1>1. CASE i \in w.acked[f]
  <2>1. on_ack(w, f, i) = w
    BY <1>1 DEF on_ack
  <2>2. Silent(w, w, f)
    BY DEF Silent
  <2>3. Calls(w, w, f)
    BY <2>2 DEF Calls
  <2> QED BY <2>1, <2>3
<1>2. CASE i \notin w.acked[f]
  <2>1. on_ack(w, f, i) = x
    BY <1>2 DEF on_ack
  <2>2. /\ Typed(w) /\ NetSound(w) /\ TimersTrue(w)
        /\ \A g \in Flow : /\ Received(w, g) /\ Chained(w, g) /\ Windowed(w, g) /\ Timed(w, g)
                           /\ w.tx[g].send_scheduled => Awake(w, g)
    BY DEF Good, SenderSound
  <2>3. /\ t \in TxState /\ w.flying \in [Flow -> SUBSET Nat] /\ w.tx \in [Flow -> TxState]
        /\ w.acked \in [Flow -> SUBSET Nat]
        /\ w.delivered[f] \subseteq Nat /\ i \in Nat
        /\ DOMAIN w = Fields
    BY <2>2, FlowTyped DEF Typed
  <2>4. /\ DOMAIN a = Fields
        /\ a.acked = [w.acked EXCEPT ![f] = @ \cup {i}]
        /\ a.events = w.events /\ a.next_seq = w.next_seq /\ a.now = w.now /\ a.tx = w.tx
        /\ a.port = w.port /\ a.flying = w.flying /\ a.delivered = w.delivered
        /\ a.attempt = w.attempt /\ a.result = w.result
        /\ a.injected = w.injected /\ a.received = w.received /\ a.dropped = w.dropped
    BY <2>3 DEF Fields
  <2> HIDE DEF a, u, x
  <2>5. a.acked \in [Flow -> SUBSET Nat]
    BY <2>3, <2>4
  <2>6. Typed(a)
    BY <2>2, <2>4, <2>5 DEF Typed
  <2>7. /\ t.in_flight = Cardinality(w.flying[f]) /\ w.flying[f] \subseteq 0 .. t.next_seq - 1
        /\ t.next_seq <= Packets(f)
        /\ w.flying[f] \cup InRing(t) \subseteq 0 .. t.next_seq - 1
        /\ w.flying[f] \cap (InRing(t) \cup w.acked[f]) = {}
        /\ \A j, k \in 1 .. Len(t.retx) : t.retx[j] = t.retx[k] => j = k
        /\ t.failed \/ 0 .. t.next_seq - 1 \subseteq w.flying[f] \cup InRing(t) \cup w.acked[f]
    BY <2>2 DEF Windowed
  <2> DEFINE tt == [t EXCEPT !.in_flight = n]
  <2>8. /\ n \in Nat /\ DOMAIN u = Fields
        /\ u.flying = [w.flying EXCEPT ![f] = @ \ {i}]
        /\ u.tx = [w.tx EXCEPT ![f] = tt]
        /\ u.events = w.events /\ u.next_seq = w.next_seq /\ u.now = w.now
        /\ u.port = w.port /\ u.acked = a.acked /\ u.delivered = w.delivered
        /\ u.attempt = w.attempt /\ u.result = w.result
        /\ u.injected = w.injected /\ u.received = w.received /\ u.dropped = w.dropped
    <3>1. a.tx[f].in_flight = Cardinality(a.flying[f])
          /\ a.flying[f] \subseteq 0 .. a.tx[f].next_seq - 1
      BY <2>4, <2>7
    <3>2. Landed(a, u, f, i)
      BY <2>3, <2>6, <3>1, LandFacts DEF u
    <3> QED BY <2>4, <3>2 DEF Landed
  <2> HIDE DEF n
  <2>9. /\ tt \in TxState /\ tt.next_seq = t.next_seq /\ tt.in_flight = n
        /\ tt.retx = t.retx /\ tt.failed = t.failed /\ tt.send_scheduled = t.send_scheduled
    BY <2>3, <2>8 DEF TxState
  <2> HIDE DEF tt
  <2>10. /\ u.tx \in [Flow -> TxState] /\ u.tx[f] = tt
         /\ \A g \in Flow \ {f} : u.tx[g] = w.tx[g]
    BY <2>3, <2>8, <2>9
  <2>11. /\ u.flying \in [Flow -> SUBSET Nat] /\ u.flying[f] = w.flying[f] \ {i}
         /\ \A g \in Flow \ {f} : u.flying[g] = w.flying[g]
    BY <2>3, <2>8
  <2>12. /\ u.acked[f] = w.acked[f] \cup {i}
         /\ \A g \in Flow \ {f} : u.acked[g] = w.acked[g]
    BY <2>3, <2>4, <2>8
  <2>13. Typed(u)
    BY <2>2, <2>5, <2>8, <2>10, <2>11 DEF Typed
  <2>14. Moved(w, u, f)
    <3>1. Tried(w, f) => Tried(u, f)
      BY <2>8, <2>9, <2>10 DEF Tried, InRing
    <3> QED BY <2>8, <2>9, <2>10, <2>11, <2>12, <3>1 DEF Moved, Silent
  <2>15. u.acked[f] \subseteq u.delivered[f]
    <3>1. w.acked[f] \subseteq w.delivered[f]
      BY <2>2 DEF Received
    <3> QED BY <2>8, <2>12, <3>1
  <2>16. Windowed(u, f)
    <3>1. InRing(tt) = InRing(t)
      BY <2>9 DEF InRing
    <3>2. tt.in_flight = Cardinality(u.flying[f])
      BY <2>9, <2>11 DEF n
    <3>3. /\ u.flying[f] \cup InRing(tt) \subseteq 0 .. tt.next_seq - 1
          /\ u.flying[f] \cap (InRing(tt) \cup u.acked[f]) = {}
          /\ tt.failed \/ 0 .. tt.next_seq - 1 \subseteq u.flying[f] \cup InRing(tt) \cup u.acked[f]
      BY <2>7, <2>9, <2>11, <2>12, <3>1
    <3> QED BY <2>7, <2>9, <2>10, <3>2, <3>3 DEF Windowed
  <2>17. Timed(u, f)
    <3>1. Timed(w, f)
      BY <2>2
    <3> QED BY <2>8, <2>9, <2>10, <2>11, <3>1 DEF Timed
  <2>18. ASSUME NEW e \in u.events, e.type = "Timeout", e.pkt.flow = f
         PROVE  TimerTrue(u, e)
    <3>1. TimerTrue(w, e)
      BY <2>2, <2>8, <2>18 DEF TimersTrue
    <3> QED BY <2>8, <2>9, <2>10, <2>11, <2>12, <2>18, <3>1 DEF TimerTrue
  <2>19. Good(u) /\ (\A g \in Flow \ {f} : Rests(u, g)) /\ Released(u, f)
    BY <2>2, <2>13, <2>14, <2>15, <2>16, <2>17, <2>18, MovedGood DEF AllRest
  <2>20. Good(x) /\ Sends(u, x, f) /\ AtRest(x, f)
    BY <2>19, TrySendGood DEF x
  <2>21. AllRest(x)
    BY <2>19, <2>20, SendsRests DEF AllRest
  <2>22. Calls(w, x, f)
    BY <2>14, <2>19 DEF Calls, Moved, x
  <2> QED BY <2>1, <2>20, <2>21, <2>22
<1> QED BY <1>1, <1>2

LEMMA TimeoutGood ==
  ASSUME Settled, NEW w, Good(w), AllRest(w), NEW e \in w.events, e.type = "Timeout"
  PROVE  LET x == on_timeout(Popped(w, e), e)
         IN  Good(x) /\ AllRest(x) /\ Calls(Popped(w, e), x, e.pkt.flow)
<1> DEFINE f == e.pkt.flow
           i == e.pkt.index
           v == Popped(w, e)
           t == v.tx[f]
           n == Cardinality(v.flying[f] \ {i})
           l == Land(v, f, i)
<1>1. /\ Typed(v) /\ NetSound(v) /\ TimersTrue(v) /\ DOMAIN v = Fields
      /\ v.events = w.events \ {e} /\ v.next_seq = w.next_seq /\ v.now = w.now
      /\ v.port = w.port /\ v.tx = w.tx /\ v.flying = w.flying /\ v.acked = w.acked
      /\ v.delivered = w.delivered /\ v.attempt = w.attempt /\ v.result = w.result
      /\ \A g \in Flow : Received(v, g) /\ Chained(v, g) /\ Windowed(v, g)
      /\ \A g \in Flow : v.tx[g].send_scheduled => Awake(v, g)
      /\ \A g \in Flow : Rests(w, g) => Rests(v, g)
      /\ EventSound(w, e) /\ e \in PendingEvent
  BY PoppedFacts
<1>2. f \in Flow /\ Released(w, f) /\ i \in Index(f) /\ i \in Nat
  <2>1. f \in Flow /\ Released(w, f) /\ i \in Index(f)
    BY <1>1 DEF EventSound
  <2> QED BY <2>1, PacketsFacts
<1>3. TimerTrue(w, e) /\ \A g \in Flow : Timed(w, g)
  BY DEF Good, TimersTrue, SenderSound
<1> HIDE DEF v, f, i
<1>4. \A g \in Flow \ {f} : Timed(v, g)
  <2> TAKE g \in Flow \ {f}
  <2>1. Timed(w, g)
    BY <1>3
  <2> QED BY <1>1, <2>1 DEF Timed, IsTimer, f
<1>5. \A j \in v.flying[f] \ {i} : v.tx[f].failed
        \/ \E d \in v.events : IsTimer(d, f, j, v.attempt[f][j])
  <2>1. Timed(w, f)
    BY <1>2, <1>3
  <2> QED BY <1>1, <2>1 DEF Timed, IsTimer, i
<1>6. AllRest(v)
  BY <1>1 DEF AllRest
<1>7. CASE i \in v.acked[f] \/ v.attempt[f][i] # e.attempt \/ v.tx[f].failed
  <2>1. on_timeout(v, e) = v
    BY <1>7 DEF on_timeout, f, i
  <2>2. Timed(v, f)
    <3>1. CASE i \in v.acked[f]
      <4>1. i \notin v.flying[f]
        BY <1>1, <1>2, <3>1 DEF Windowed
      <4> QED BY <1>5, <4>1 DEF Timed
    <3>2. CASE v.attempt[f][i] # e.attempt
      <4>1. Timed(w, f)
        BY <1>2, <1>3
      <4> QED BY <1>1, <3>2, <4>1 DEF Timed, IsTimer, i
    <3>3. CASE v.tx[f].failed
      BY <3>3 DEF Timed
    <3> QED BY <1>7, <3>1, <3>2, <3>3
  <2>3. Good(v)
    BY <1>1, <1>4, <2>2 DEF Good, SenderSound
  <2>4. Calls(v, v, f)
    BY <2>3 DEF Calls, Silent
  <2> QED BY <1>6, <2>1, <2>3, <2>4 DEF v, f
<1>8. CASE ~(i \in v.acked[f] \/ v.attempt[f][i] # e.attempt \/ v.tx[f].failed)
  <2>1. i \in v.flying[f]
    BY <1>1, <1>3, <1>8 DEF TimerTrue, f, i
  <2>2. /\ t \in TxState /\ v.flying \in [Flow -> SUBSET Nat] /\ v.tx \in [Flow -> TxState]
        /\ v.result \in [Flow -> FlowResult] /\ v.result[f] \in FlowResult
        /\ v.attempt[f] \in [Index(f) -> Nat] /\ DOMAIN v.attempt = Flow
        /\ t.retx \in Seq(Nat)
    BY <1>1, <1>2, FlowTyped DEF Typed, TxState
  <2>3. /\ t.in_flight = Cardinality(v.flying[f]) /\ v.flying[f] \subseteq 0 .. t.next_seq - 1
        /\ t.next_seq <= Packets(f)
        /\ v.flying[f] \cup InRing(t) \subseteq 0 .. t.next_seq - 1
        /\ v.flying[f] \cap (InRing(t) \cup v.acked[f]) = {}
        /\ \A j, k \in 1 .. Len(t.retx) : t.retx[j] = t.retx[k] => j = k
        /\ 0 .. t.next_seq - 1 \subseteq v.flying[f] \cup InRing(t) \cup v.acked[f]
    BY <1>1, <1>2, <1>8 DEF Windowed
  <2>4. /\ n \in Nat /\ DOMAIN l = Fields
        /\ l.flying = [v.flying EXCEPT ![f] = @ \ {i}]
        /\ l.tx = [v.tx EXCEPT ![f] = [t EXCEPT !.in_flight = n]]
        /\ l.events = v.events /\ l.next_seq = v.next_seq /\ l.now = v.now
        /\ l.port = v.port /\ l.acked = v.acked /\ l.delivered = v.delivered
        /\ l.attempt = v.attempt /\ l.result = v.result
        /\ l.injected = v.injected /\ l.received = v.received /\ l.dropped = v.dropped
    <3>1. Landed(v, l, f, i)
      BY <1>1, <1>2, <2>3, LandFacts
    <3> QED BY <3>1 DEF Landed
  <2> HIDE DEF l, n
  <2>5. /\ l.flying \in [Flow -> SUBSET Nat] /\ l.flying[f] = v.flying[f] \ {i}
        /\ \A g \in Flow \ {f} : l.flying[g] = v.flying[g]
    BY <1>2, <2>2, <2>4
  <2>6. v.acked[f] \subseteq v.delivered[f]
    BY <1>1, <1>2 DEF Received
  <2>7. Released(v, f)
    BY <1>1, <1>2 DEF Released
  <2>8. CASE GivesUp(v.attempt[f][i])
    <3> DEFINE x == [l EXCEPT !.tx[f].failed = TRUE, !.result[f].failed = TRUE]
               tt == [t EXCEPT !.in_flight = n, !.failed = TRUE]
               rr == [v.result[f] EXCEPT !.failed = TRUE]
    <3>1. on_timeout(v, e) = x
      BY <1>8, <2>8 DEF on_timeout, f, i, l
    <3>2. [[t EXCEPT !.in_flight = n] EXCEPT !.failed = TRUE] = tt
      BY <2>2 DEF TxState
    <3>2a. [l.tx EXCEPT ![f] = [l.tx[f] EXCEPT !.failed = TRUE]] = [v.tx EXCEPT ![f] = tt]
      BY <1>2, <2>2, <2>4, <3>2
    <3>3. /\ DOMAIN x = Fields
          /\ x.tx = [v.tx EXCEPT ![f] = tt]
          /\ x.result = [v.result EXCEPT ![f] = rr]
          /\ x.events = v.events /\ x.next_seq = v.next_seq /\ x.now = v.now
          /\ x.port = v.port /\ x.acked = v.acked /\ x.delivered = v.delivered
          /\ x.attempt = v.attempt /\ x.flying = l.flying
          /\ x.injected = v.injected /\ x.received = v.received /\ x.dropped = v.dropped
      BY <2>4, <3>2a DEF Fields
    <3>4. /\ tt \in TxState /\ tt.next_seq = t.next_seq /\ tt.in_flight = n
          /\ tt.retx = t.retx /\ tt.failed /\ tt.send_scheduled = t.send_scheduled
      BY <2>2, <2>4 DEF TxState
    <3>5. /\ rr \in FlowResult /\ rr.complete = v.result[f].complete
          /\ rr.start_ns = v.result[f].start_ns /\ rr.finish_ns = v.result[f].finish_ns
          /\ rr.packets_delivered = v.result[f].packets_delivered
          /\ rr.packets_dropped = v.result[f].packets_dropped
          /\ rr.packets_retransmitted = v.result[f].packets_retransmitted
      BY <2>2 DEF FlowResult
    <3> HIDE DEF x, tt, rr
    <3>6. /\ x.tx \in [Flow -> TxState] /\ x.tx[f] = tt
          /\ \A g \in Flow \ {f} : x.tx[g] = v.tx[g]
      BY <1>2, <2>2, <3>3, <3>4
    <3>7. /\ x.result \in [Flow -> FlowResult] /\ x.result[f] = rr
          /\ \A g \in Flow \ {f} : x.result[g] = v.result[g]
      BY <1>2, <2>2, <3>3, <3>5
    <3>8. Typed(x)
      BY <1>1, <2>5, <3>3, <3>6, <3>7 DEF Typed
    <3>9. \A g \in Flow : /\ x.result[g].complete = v.result[g].complete
                          /\ x.result[g].start_ns = v.result[g].start_ns
                          /\ x.result[g].finish_ns = v.result[g].finish_ns
                          /\ x.result[g].packets_delivered = v.result[g].packets_delivered
                          /\ x.result[g].packets_dropped = v.result[g].packets_dropped
                          /\ x.result[g].packets_retransmitted = v.result[g].packets_retransmitted
      BY <3>5, <3>7
    <3>10. Moved(v, x, f)
      <4>1. Tried(v, f) => Tried(x, f)
        BY <3>3, <3>4, <3>6 DEF Tried, InRing
      <4> QED BY <2>5, <3>3, <3>4, <3>6, <3>9, <4>1 DEF Moved, Silent
    <3>11. Windowed(x, f)
      <4>1. InRing(tt) = InRing(t)
        BY <3>4 DEF InRing
      <4>2. tt.in_flight = Cardinality(x.flying[f])
        BY <2>5, <3>3, <3>4 DEF n
      <4>3. /\ x.flying[f] \cup InRing(tt) \subseteq 0 .. tt.next_seq - 1
            /\ x.flying[f] \cap (InRing(tt) \cup x.acked[f]) = {}
        BY <2>3, <2>5, <3>3, <3>4, <4>1
      <4> QED BY <2>3, <3>4, <3>6, <4>2, <4>3 DEF Windowed
    <3>12. Timed(x, f)
      BY <3>4, <3>6 DEF Timed
    <3>13. ASSUME NEW d \in x.events, d.type = "Timeout", d.pkt.flow = f
           PROVE  TimerTrue(x, d)
      <4>1. TimerTrue(v, d)
        BY <1>1, <3>3, <3>13 DEF TimersTrue
      <4> QED BY <3>3, <3>4, <3>6, <3>13, <4>1 DEF TimerTrue
    <3>14. x.acked[f] \subseteq x.delivered[f]
      BY <2>6, <3>3
    <3>15. Good(x) /\ \A g \in Flow \ {f} : Rests(x, g)
      BY <1>1, <1>2, <1>4, <1>6, <3>8, <3>10, <3>11, <3>12, <3>13, <3>14, MovedGood DEF AllRest
    <3>16. Rests(x, f)
      BY <3>4, <3>6 DEF Rests, AtRest
    <3>17. AllRest(x)
      BY <3>15, <3>16 DEF AllRest
    <3>18. Calls(v, x, f)
      BY <3>10, <3>15 DEF Calls, Moved
    <3> QED BY <3>1, <3>15, <3>17, <3>18 DEF v, f
  <2>9. CASE ~GivesUp(v.attempt[f][i])
    <3> DEFINE u == [l EXCEPT !.attempt[f][i] = @ + 1, !.tx[f].retx = Append(@, i)]
               ring == Append(t.retx, i)
               tt == [t EXCEPT !.in_flight = n, !.retx = ring]
               aa == [v.attempt[f] EXCEPT ![i] = @ + 1]
               x == try_send(u, f)
    <3>1. on_timeout(v, e) = x
      BY <1>8, <2>9 DEF on_timeout, f, i, l
    <3>2. [l.tx EXCEPT ![f] = [l.tx[f] EXCEPT !.retx = Append(@, i)]] = [v.tx EXCEPT ![f] = tt]
      <4>1. [[t EXCEPT !.in_flight = n] EXCEPT !.retx = Append(@, i)] = tt
        BY <2>2 DEF TxState
      <4> QED BY <1>2, <2>2, <2>4, <4>1
    <3>3. /\ DOMAIN u = Fields
          /\ u.tx = [v.tx EXCEPT ![f] = tt]
          /\ u.attempt = [v.attempt EXCEPT ![f] = aa]
          /\ u.events = v.events /\ u.next_seq = v.next_seq /\ u.now = v.now
          /\ u.port = v.port /\ u.acked = v.acked /\ u.delivered = v.delivered
          /\ u.result = v.result /\ u.flying = l.flying
          /\ u.injected = v.injected /\ u.received = v.received /\ u.dropped = v.dropped
      BY <2>4, <3>2 DEF Fields
    <3>4. ring \in Seq(Nat) /\ Len(ring) = Len(t.retx) + 1 /\ Len(t.retx) \in Nat
          /\ ring[Len(t.retx) + 1] = i
          /\ \A k \in 1 .. Len(t.retx) : ring[k] = t.retx[k]
      BY <1>2, <2>2
    <3>5. InSeq(ring) = InRing(t) \cup {i}
      <4> DEFINE q == Len(t.retx)
                 L == Len(ring)
      <4>1. q \in Nat /\ L = q + 1 /\ ring[q + 1] = i /\ \A k \in 1 .. q : ring[k] = t.retx[k]
        BY <3>4
      <4>2. InSeq(ring) = {ring[k] : k \in 1 .. L} /\ InRing(t) = {t.retx[k] : k \in 1 .. q}
        BY DEF InSeq, InRing
      <4> HIDE DEF q, L, ring
      <4>3. 1 .. L = (1 .. q) \cup {q + 1}
        BY <4>1
      <4> QED BY <4>1, <4>2, <4>3
    <3>6. i \notin InRing(t)
      BY <2>1, <2>3
    <3>7. \A j, k \in 1 .. Len(ring) : ring[j] = ring[k] => j = k
      <4> DEFINE q == Len(t.retx)
                 L == Len(ring)
      <4>1. q \in Nat /\ L = q + 1 /\ ring[q + 1] = i
            /\ \A k \in 1 .. q : ring[k] = t.retx[k] /\ t.retx[k] # i
        BY <3>4, <3>6 DEF InRing
      <4>2. \A j, k \in 1 .. q : t.retx[j] = t.retx[k] => j = k
        BY <2>3
      <4> HIDE DEF q, ring
      <4>3. 1 .. L = (1 .. q) \cup {q + 1}
        BY <4>1
      <4> QED BY <4>1, <4>2, <4>3
    <3>8. /\ tt \in TxState /\ tt.next_seq = t.next_seq /\ tt.in_flight = n
          /\ tt.retx = ring /\ tt.failed = t.failed /\ tt.send_scheduled = t.send_scheduled
      <4> HIDE DEF ring
      <4> QED BY <2>2, <2>4, <3>4 DEF TxState
    <3>9. /\ aa \in [Index(f) -> Nat] /\ aa[i] = v.attempt[f][i] + 1
          /\ \A j \in Index(f) \ {i} : aa[j] = v.attempt[f][j]
          /\ v.attempt[f][i] \in Nat
      BY <1>2, <2>2
    <3> HIDE DEF u, tt, aa, x, ring
    <3>10. /\ u.tx \in [Flow -> TxState] /\ u.tx[f] = tt
           /\ \A g \in Flow \ {f} : u.tx[g] = v.tx[g]
      BY <1>2, <2>2, <3>3, <3>8
    <3>11. /\ DOMAIN u.attempt = Flow /\ u.attempt[f] = aa
           /\ \A g \in Flow \ {f} : u.attempt[g] = v.attempt[g]
      BY <1>2, <2>2, <3>3
    <3>12. \A g \in Flow : u.attempt[g] \in [Index(g) -> Nat]
      <4> TAKE g \in Flow
      <4>1. v.attempt[g] \in [Index(g) -> Nat]
        BY <1>1 DEF Typed
      <4> QED BY <3>9, <3>11, <4>1
    <3>13. Typed(u)
      BY <1>1, <2>5, <3>3, <3>10, <3>11, <3>12 DEF Typed
    <3>14. Moved(v, u, f)
      <4>1. \A j \in InRing(tt) : j \in InRing(t) \/ j = i
        BY <3>5, <3>8 DEF InRing, InSeq
      <4>2. Tried(v, f) => Tried(u, f)
        <5> SUFFICES ASSUME Tried(v, f), NEW j \in Index(f), j \in InRing(u.tx[f])
                     PROVE  u.attempt[f][j] > 0
          BY DEF Tried
        <5>1. CASE j = i
          BY <3>9, <3>11, <5>1
        <5>2. CASE j # i
          BY <3>9, <3>10, <3>11, <4>1, <5>2 DEF Tried
        <5> QED BY <5>1, <5>2
      <4> QED BY <2>5, <3>3, <3>8, <3>10, <3>11, <4>2 DEF Moved, Silent
    <3>15. Windowed(u, f)
      <4>1. InRing(tt) = InRing(t) \cup {i}
        BY <3>5, <3>8 DEF InRing, InSeq
      <4>2. tt.in_flight = Cardinality(u.flying[f])
        BY <2>5, <3>3, <3>8 DEF n
      <4>3. /\ u.flying[f] \cup InRing(tt) \subseteq 0 .. tt.next_seq - 1
            /\ u.flying[f] \cap (InRing(tt) \cup u.acked[f]) = {}
            /\ 0 .. tt.next_seq - 1 \subseteq u.flying[f] \cup InRing(tt) \cup u.acked[f]
        BY <2>1, <2>3, <2>5, <3>3, <3>8, <4>1
      <4> QED BY <2>3, <3>7, <3>8, <3>10, <4>2, <4>3 DEF Windowed
    <3>16. Timed(u, f)
      <4>1. ASSUME NEW j \in u.flying[f]
            PROVE  \E d \in u.events : IsTimer(d, f, j, u.attempt[f][j])
        <5>1. j \in v.flying[f] \ {i}
          BY <2>5, <3>3
        <5>2. \E d \in v.events : IsTimer(d, f, j, v.attempt[f][j])
          BY <1>5, <1>8, <5>1
        <5>3. j \in Index(f) \ {i}
          <6>1. j \in 0 .. t.next_seq - 1 /\ t.next_seq <= Packets(f)
            BY <2>3, <5>1
          <6>2. t.next_seq \in Nat /\ Packets(f) \in Nat
            BY <1>2, <2>2, PacketsFacts DEF TxState
          <6>3. j \in Index(f)
            <7> DEFINE a == t.next_seq
                       b == Packets(f)
            <7> HIDE DEF a, b
            <7>1. a \in Nat /\ b \in Nat /\ a <= b /\ j \in 0 .. a - 1
              BY <6>1, <6>2 DEF a, b
            <7>2. j \in 0 .. b - 1
              BY <7>1
            <7> QED BY <7>2 DEF Index, b
          <6> QED BY <5>1, <6>3
        <5>4. u.attempt[f][j] = v.attempt[f][j]
          BY <3>9, <3>11, <5>3
        <5> QED BY <3>3, <5>2, <5>4
      <4> QED BY <4>1 DEF Timed
    <3>17. ASSUME NEW d \in u.events, d.type = "Timeout", d.pkt.flow = f
           PROVE  TimerTrue(u, d)
      <4> DEFINE j == d.pkt.index
      <4>1. TimerTrue(v, d) /\ j \in Index(f) /\ d.attempt \in Nat
        BY <1>1, <3>3, <3>17 DEF TimersTrue, NetSound, EventSound, Typed, PendingEvent
      <4>2. /\ d.attempt <= v.attempt[f][j]
            /\ d.attempt = v.attempt[f][j] => v.tx[f].failed \/ j \in v.flying[f] \cup v.acked[f]
        BY <3>17, <4>1 DEF TimerTrue
      <4> HIDE DEF j
      <4>3. CASE j = i
        <5>1. d.attempt <= u.attempt[f][j] /\ d.attempt # u.attempt[f][j]
          <6> DEFINE a == d.attempt
                     b == v.attempt[f][i]
          <6> HIDE DEF a, b
          <6>1. a \in Nat /\ b \in Nat /\ a <= b
            BY <3>9, <4>1, <4>2, <4>3 DEF a, b
          <6>2. u.attempt[f][j] = b + 1
            BY <3>9, <3>11, <4>3 DEF b
          <6>3. a <= b + 1 /\ a # b + 1
            BY <6>1
          <6> QED BY <6>2, <6>3 DEF a
        <5> QED BY <3>17, <5>1 DEF TimerTrue, j
      <4>4. CASE j # i
        <5>1. u.attempt[f][j] = v.attempt[f][j]
          BY <3>9, <3>11, <4>1, <4>4
        <5>2. j \in v.flying[f] \cup v.acked[f] => j \in u.flying[f] \cup u.acked[f]
          BY <2>5, <3>3, <4>4
        <5>3. u.tx[f].failed = v.tx[f].failed
          BY <3>8, <3>10
        <5> QED BY <3>17, <4>2, <5>1, <5>2, <5>3 DEF TimerTrue, j
      <4> QED BY <4>3, <4>4
    <3>18. u.acked[f] \subseteq u.delivered[f]
      BY <2>6, <3>3
    <3>19. Good(u) /\ (\A g \in Flow \ {f} : Rests(u, g)) /\ Released(u, f)
      BY <1>1, <1>2, <1>4, <1>6, <2>7, <3>13, <3>14, <3>15, <3>16, <3>17, <3>18, MovedGood DEF AllRest
    <3>20. Good(x) /\ Sends(u, x, f) /\ AtRest(x, f)
      BY <1>2, <3>19, TrySendGood DEF x
    <3>21. AllRest(x)
      BY <1>2, <3>19, <3>20, SendsRests DEF AllRest
    <3>22. Calls(v, x, f)
      BY <3>14, <3>19 DEF Calls, Moved, x
    <3> QED BY <3>1, <3>20, <3>21, <3>22 DEF v, f
  <2> QED BY <2>8, <2>9
<1> QED BY <1>7, <1>8

-----------------------------------------------------------------------------
(* Flows are woken: by complete_flow, or at the start of a run *)

(* All that a wake-up keeps, of which Chained is no part: complete_flow    *)
(* sets it right flow by flow.                                             *)
Kept(w, v) ==
  /\ Typed(v) /\ NetSound(v) /\ TimersTrue(v)
  /\ \A g \in Flow : Received(v, g) /\ SenderSound(v, g)
  /\ v.now = w.now /\ v.delivered = w.delivered /\ w.events \subseteq v.events
  /\ \A g \in Flow : /\ v.result[g].complete = w.result[g].complete
                     /\ v.result[g].finish_ns = w.result[g].finish_ns
                     /\ v.tx[g].next_seq = w.tx[g].next_seq
                     /\ AtRest(w, g) => AtRest(v, g)

LEMMA WakesKept ==
  ASSUME Settled, NEW u, NEW w, NEW v, Kept(u, w), Wakes(w, v), Typed(v),
         \A g \in Flow : v.result[g].finish_ns = w.result[g].finish_ns
  PROVE  Kept(u, v)
<1>1. /\ NetSound(v) /\ TimersTrue(v)
      /\ \A f \in Flow : Received(v, f) /\ SenderSound(v, f)
      /\ \A f \in Flow : AtRest(w, f) => AtRest(v, f)
  BY WakesKeeps DEF Kept
<1>2. v.now = u.now /\ v.delivered = u.delivered /\ u.events \subseteq v.events
  BY DEF Kept, Wakes
<1>3. ASSUME NEW g \in Flow
      PROVE  /\ v.result[g].complete = u.result[g].complete
             /\ v.result[g].finish_ns = u.result[g].finish_ns
             /\ v.tx[g].next_seq = u.tx[g].next_seq
             /\ AtRest(u, g) => AtRest(v, g)
  BY <1>1 DEF Kept, Wakes
<1> QED BY <1>1, <1>2, <1>3 DEF Kept

(* An Inject of flow d is pushed, its start time being start. *)
Started(w, v, d, start) ==
  /\ Typed(v) /\ Wakes(w, v) /\ Awake(v, d)
  /\ v.result[d].start_ns = start
  /\ \A g \in Flow : v.result[g].finish_ns = w.result[g].finish_ns
  /\ \A g \in Flow \ {d} : v.result[g].start_ns = w.result[g].start_ns

LEMMA StartedBy ==
  ASSUME Settled, NEW w, Typed(w), NEW d \in Flow, Released(w, d),
         NEW start \in Nat, NEW next \in Nat, NEW t \in Nat, t >= w.now,
         NEW u, SameBut(w, u, [w.tx EXCEPT ![d] = [w.tx[d] EXCEPT !.next_send_ns = next]],
                        [w.result EXCEPT ![d] = [w.result[d] EXCEPT !.start_ns = start]])
  PROVE  Started(w, Push(u, Inject(t, d)), d, start)
<1> DEFINE tt == [w.tx[d] EXCEPT !.next_send_ns = next]
           tx == [w.tx EXCEPT ![d] = tt]
           rr == [w.result[d] EXCEPT !.start_ns = start]
           res == [w.result EXCEPT ![d] = rr]
           x == InjectEvent(t, d, w.next_seq)
           v == Push(u, Inject(t, d))
<1>1. SameBut(w, u, tx, res)
  OBVIOUS
<1>2. /\ w.tx[d] \in TxState /\ w.tx \in [Flow -> TxState]
      /\ w.result[d] \in FlowResult /\ w.result \in [Flow -> FlowResult]
      /\ w.next_seq \in Nat /\ w.now \in Nat
  BY FlowTyped DEF Typed
<1>3. /\ tt \in TxState /\ tt.next_seq = w.tx[d].next_seq /\ tt.in_flight = w.tx[d].in_flight
      /\ tt.retx = w.tx[d].retx /\ tt.failed = w.tx[d].failed
      /\ tt.send_scheduled = w.tx[d].send_scheduled
  BY <1>2 DEF TxState
<1>4. /\ rr \in FlowResult /\ rr.complete = w.result[d].complete /\ rr.start_ns = start
      /\ rr.finish_ns = w.result[d].finish_ns
      /\ rr.packets_delivered = w.result[d].packets_delivered
  BY <1>2 DEF FlowResult
<1> HIDE DEF tt, rr
<1>5. tx \in [Flow -> TxState] /\ tx[d] = tt /\ \A g \in Flow \ {d} : tx[g] = w.tx[g]
  BY <1>2, <1>3
<1>6. res \in [Flow -> FlowResult] /\ res[d] = rr /\ \A g \in Flow \ {d} : res[g] = w.result[g]
  BY <1>2, <1>4
<1> HIDE DEF tx, res
<1>7. Typed(u)
  BY <1>1, <1>5, <1>6, SameButTyped
<1>8. x \in PendingEvent /\ x.time = t /\ x.type = "Inject" /\ x.seq = w.next_seq /\ x.pkt.flow = d
  BY <1>2, InjectFacts
<1>9. x = [Inject(t, d) EXCEPT !.seq = u.next_seq]
  BY <1>1 DEF InjectEvent, SameBut
<1> HIDE DEF x
<1>10. /\ Typed(v) /\ v.events = u.events \cup {x} /\ v.next_seq = u.next_seq + 1
       /\ v.now = u.now /\ v.port = u.port /\ v.tx = u.tx
       /\ v.flying = u.flying /\ v.acked = u.acked /\ v.delivered = u.delivered
       /\ v.attempt = u.attempt /\ v.result = u.result
  BY <1>7, <1>8, <1>9, PushFields
<1> HIDE DEF v
<1>11. /\ v.events = w.events \cup {x} /\ v.next_seq = w.next_seq + 1
       /\ v.now = w.now /\ v.port = w.port /\ v.tx = tx
       /\ v.flying = w.flying /\ v.acked = w.acked /\ v.delivered = w.delivered
       /\ v.attempt = w.attempt /\ v.result = res
  BY <1>1, <1>10 DEF SameBut
<1>12. Awake(v, d)
  BY <1>8, <1>11 DEF Awake
<1>13. v.next_seq >= w.next_seq /\ w.next_seq < v.next_seq
  BY <1>2, <1>11
<1>14. \A g \in Flow : /\ v.result[g].complete = w.result[g].complete
                       /\ v.result[g].finish_ns = w.result[g].finish_ns
                       /\ v.result[g].packets_delivered = w.result[g].packets_delivered
  BY <1>4, <1>6, <1>11
<1>15. EventSound(v, x)
  <2>1. Released(v, d)
    <3>1. spec[d].depends_on # 0 => spec[d].depends_on \in Flow
      BY FlowFacts
    <3> QED BY <1>14, <3>1 DEF Released
  <2>2. x.time >= v.now
    BY <1>8, <1>11
  <2> QED BY <1>8, <1>13, <2>1, <2>2 DEF EventSound
<1>16. Wakes(w, v)
  <2>1. ASSUME NEW g \in Flow
        PROVE  /\ v.tx[g].next_seq = w.tx[g].next_seq /\ v.tx[g].in_flight = w.tx[g].in_flight
               /\ v.tx[g].failed = w.tx[g].failed /\ v.tx[g].retx = w.tx[g].retx
               /\ v.tx[g].send_scheduled => w.tx[g].send_scheduled \/ Awake(v, g)
    <3>1. CASE g = d
      BY <1>3, <1>5, <1>11, <3>1
    <3>2. CASE g # d
      BY <1>5, <1>11, <3>2
    <3> QED BY <3>1, <3>2
  <2> QED BY <1>8, <1>11, <1>13, <1>14, <1>15, <2>1 DEF Wakes
<1> QED BY <1>4, <1>6, <1>10, <1>11, <1>12, <1>14, <1>16 DEF Started, v

LEMMA ReleaseStarts ==
  ASSUME Settled, NEW w, Typed(w), NEW d \in Flow, Released(w, d)
  PROVE  Started(w, release_flow(w, d), d, w.now)
<1> DEFINE u == [w EXCEPT !.result[d].start_ns = w.now, !.tx[d].next_send_ns = w.now]
           tx == [w.tx EXCEPT ![d] = [w.tx[d] EXCEPT !.next_send_ns = w.now]]
           res == [w.result EXCEPT ![d] = [w.result[d] EXCEPT !.start_ns = w.now]]
<1>1. SameBut(w, u, tx, res)
  BY DEF Typed, Fields, SameBut
<1>2. w.now \in Nat /\ w.now >= w.now
  BY DEF Typed
<1> HIDE DEF u
<1>3. Started(w, Push(u, Inject(w.now, d)), d, w.now)
  BY <1>1, <1>2, StartedBy
<1> QED BY <1>3 DEF release_flow, u

LEMMA PushStarts ==
  ASSUME Settled, NEW w, Typed(w), NEW d \in Flow, spec[d].depends_on = 0, w.now = 0
  PROVE  Started(w, Push(w, Inject(spec[d].start_ns, d)), d, w.result[d].start_ns)
<1> DEFINE next == w.tx[d].next_send_ns
           start == w.result[d].start_ns
           t == spec[d].start_ns
<1>1. /\ w.tx[d] \in TxState /\ w.tx \in [Flow -> TxState]
      /\ w.result[d] \in FlowResult /\ w.result \in [Flow -> FlowResult]
  BY FlowTyped DEF Typed
<1>2. w.tx[d] = [w.tx[d] EXCEPT !.next_send_ns = next]
  BY <1>1 DEF TxState
<1>3. w.result[d] = [w.result[d] EXCEPT !.start_ns = start]
  BY <1>1 DEF FlowResult
<1>4. w.tx = [w.tx EXCEPT ![d] = [w.tx[d] EXCEPT !.next_send_ns = next]]
  BY <1>1, <1>2
<1>5. w.result = [w.result EXCEPT ![d] = [w.result[d] EXCEPT !.start_ns = start]]
  BY <1>1, <1>3
<1>6. SameBut(w, w, w.tx, w.result)
  BY DEF Typed, SameBut
<1>7. next \in Nat /\ start \in Nat
  BY <1>1 DEF TxState, FlowResult
<1>8. t \in Nat /\ t >= w.now
  BY FlowFacts
<1>9. Released(w, d)
  BY DEF Released
<1> HIDE DEF next, start, t
<1>10. SameBut(w, w, [w.tx EXCEPT ![d] = [w.tx[d] EXCEPT !.next_send_ns = next]],
               [w.result EXCEPT ![d] = [w.result[d] EXCEPT !.start_ns = start]])
  BY <1>4, <1>5, <1>6
<1>11. Started(w, Push(w, Inject(t, d)), d, start)
  BY <1>7, <1>8, <1>9, <1>10, StartedBy
<1> QED BY <1>11 DEF start, t

(* Every flow that waited for f has an Inject, and its start time is now.  *)
ReleasedBy(x, y, f) ==
  /\ Kept(x, y)
  /\ \A d \in WaitFor(f) : Awake(y, d) /\ y.result[d].start_ns = x.now
  /\ \A g \in Flow \ WaitFor(f) : y.result[g].start_ns = x.result[g].start_ns

Completed(w, f) == [w EXCEPT !.result[f].finish_ns = w.now, !.result[f].complete = TRUE]

LEMMA CompleteReleases ==
  ASSUME Settled, NEW f \in Flow, NEW w, Kept(Completed(w, f), Completed(w, f)),
         Completed(w, f).result[f].complete
  PROVE  ReleasedBy(Completed(w, f), complete_flow(w, f), f)
<1> DEFINE D == Dependents(f)
           N == Len(D)
           x == Completed(w, f)
           P(t) == t = [n \in 0 .. N |-> IF n = 0 THEN x ELSE release_flow(t[n - 1], D[n])]
           a == CHOOSE t : P(t)
<1>1. N \in Nat /\ D \in Seq(WaitFor(f)) /\ \A d \in WaitFor(f) : \E k \in 1 .. N : D[k] = d
  BY DependentsFacts
<1>2. complete_flow(w, f) = a[N]
  BY DEF complete_flow, Completed
<1>3. \A n \in 1 .. N : D[n] \in WaitFor(f) /\ D[n] \in Flow
  <2>1. \A n \in 1 .. N : D[n] \in WaitFor(f)
    <3> HIDE DEF D
    <3> QED BY <1>1
  <2> QED BY <2>1 DEF WaitFor
<1> HIDE DEF N, D
<1>4. \E t : P(t)
  <2>1. PICK t : IsLoop("release", f, x, N, t)
    BY <1>1, LoopExists
  <2>2. P(t)
    BY <2>1 DEF IsLoop, LoopBody, D
  <2> QED BY <2>2
<1>5. P(a)
  BY <1>4
<1> HIDE DEF a, x
<1>6. a[0] = x /\ \A n \in 1 .. N : a[n] = release_flow(a[n - 1], D[n])
  <2>1. 0 \in 0 .. N /\ \A n \in 1 .. N : n \in 0 .. N /\ n # 0
    BY <1>1
  <2> QED BY <1>5, <2>1
<1> DEFINE Q(n) == /\ Kept(x, a[n])
                   /\ \A k \in 1 .. n : Awake(a[n], D[k]) /\ a[n].result[D[k]].start_ns = x.now
                   /\ \A g \in Flow \ WaitFor(f) : a[n].result[g].start_ns = x.result[g].start_ns
           T == {n \in 0 .. N : ~Q(n)}
<1>7. T = {}
  <2>1. SUFFICES ASSUME T # {} PROVE FALSE
    OBVIOUS
  <2> DEFINE m == Min(T)
  <2>2. m \in T /\ \A n \in T : m <= n
    <3>1. T \subseteq Nat
      BY <1>1
    <3> HIDE DEF T
    <3> QED BY <2>1, <3>1, NatMinimum
  <2>3. m \in 0 .. N /\ ~Q(m)
    BY <2>2
  <2> HIDE DEF m
  <2>4. Q(0)
    BY <1>6 DEF x
  <2>5. m # 0
    BY <2>3, <2>4
  <2>6. m - 1 \in 0 .. N /\ m \in 1 .. N /\ m - 1 \notin T
    BY <1>1, <2>2, <2>3, <2>5
  <2> DEFINE u == a[m - 1]
             v == a[m]
             d == D[m]
  <2>7. /\ Kept(x, u)
        /\ \A k \in 1 .. m - 1 : Awake(u, D[k]) /\ u.result[D[k]].start_ns = x.now
        /\ \A g \in Flow \ WaitFor(f) : u.result[g].start_ns = x.result[g].start_ns
    BY <2>6
  <2>8. v = release_flow(u, d) /\ d \in WaitFor(f) /\ d \in Flow
    BY <1>3, <1>6, <2>6
  <2> HIDE DEF u, v, d
  <2>9. Released(u, d)
    <3>1. spec[d].depends_on = f
      BY <2>8 DEF WaitFor
    <3>2. u.result[f].complete
      BY <2>7 DEF Kept, x
    <3> QED BY <3>1, <3>2 DEF Released
  <2>10. Started(u, v, d, u.now) /\ u.now = x.now
    BY <2>7, <2>8, <2>9, ReleaseStarts DEF Kept
  <2>11. Kept(x, v)
    BY <2>7, <2>10, WakesKept DEF Started
  <2>12. ASSUME NEW k \in 1 .. m
         PROVE  Awake(v, D[k]) /\ v.result[D[k]].start_ns = x.now
    <3>1. D[k] \in Flow
      BY <1>1, <1>3, <2>6
    <3>2. CASE D[k] = d
      BY <2>10, <3>2 DEF Started
    <3>3. CASE D[k] # d
      <4>1. k \in 1 .. m - 1
        BY <2>6, <3>3 DEF d
      <4>2. Awake(u, D[k]) /\ u.result[D[k]].start_ns = x.now
        BY <2>7, <4>1
      <4> QED BY <2>10, <3>1, <3>3, <4>2 DEF Started, Wakes, Awake
    <3> QED BY <3>2, <3>3
  <2>13. \A g \in Flow \ WaitFor(f) : v.result[g].start_ns = x.result[g].start_ns
    BY <2>7, <2>8, <2>10 DEF Started
  <2> QED BY <2>3, <2>11, <2>12, <2>13 DEF v
<1>8. N \in 0 .. N
  BY <1>1
<1>9. Q(N)
  BY <1>7, <1>8
<1> DEFINE y == a[N]
<1> HIDE DEF y
<1>10. \A d \in WaitFor(f) : Awake(y, d) /\ y.result[d].start_ns = x.now
  BY <1>1, <1>9 DEF y
<1>11. ReleasedBy(x, y, f)
  BY <1>9, <1>10 DEF ReleasedBy, y
<1> QED BY <1>2, <1>11 DEF x, y

-----------------------------------------------------------------------------
(* The receiver *)

(* w, with packet i of flow f received, and the flow's result rr.          *)
Counts(w, x, f, i, rr) ==
  /\ DOMAIN x = Fields
  /\ x.delivered = [w.delivered EXCEPT ![f] = @ \cup {i}]
  /\ x.result = [w.result EXCEPT ![f] = rr]
  /\ x.events = w.events /\ x.next_seq = w.next_seq /\ x.now = w.now /\ x.port = w.port
  /\ x.tx = w.tx /\ x.flying = w.flying /\ x.acked = w.acked /\ x.attempt = w.attempt
  /\ x.injected = w.injected /\ x.received = w.received /\ x.dropped = w.dropped

LEMMA CountsKept ==
  ASSUME Settled, NEW w, Good(w), NEW f \in Flow, NEW i \in Index(f),
         i \in Sent(w, f), i \notin w.delivered[f],
         NEW rr \in FlowResult, rr.start_ns = w.result[f].start_ns,
         rr.packets_delivered = w.result[f].packets_delivered + 1,
         rr.complete <=> rr.packets_delivered = Packets(f),
         NEW x, Counts(w, x, f, i, rr)
  PROVE  /\ Kept(x, x) /\ MayCarry(w, x)
         /\ x.delivered[f] = w.delivered[f] \cup {i}
         /\ x.result[f] = rr /\ \A g \in Flow \ {f} : x.result[g] = w.result[g]
         /\ ~w.result[f].complete
<1>1. /\ Typed(w) /\ NetSound(w) /\ TimersTrue(w)
      /\ \A g \in Flow : Received(w, g) /\ Chained(w, g) /\ SenderSound(w, g)
  BY DEF Good
<1>2. /\ w.result \in [Flow -> FlowResult] /\ w.delivered \in [Flow -> SUBSET Nat]
      /\ i \in Nat /\ w.next_seq \in Nat
  BY <1>1, PacketsFacts DEF Typed
<1>3. x.result \in [Flow -> FlowResult] /\ x.result[f] = rr
      /\ \A g \in Flow \ {f} : x.result[g] = w.result[g]
  BY <1>2 DEF Counts
<1>4. x.delivered \in [Flow -> SUBSET Nat] /\ x.delivered[f] = w.delivered[f] \cup {i}
      /\ \A g \in Flow \ {f} : x.delivered[g] = w.delivered[g]
  BY <1>2 DEF Counts
<1>5. Typed(x)
  BY <1>1, <1>3, <1>4 DEF Typed, Counts
<1>6. Received(w, f)
  BY <1>1
<1>7. ~w.result[f].complete
  BY <1>6 DEF Received
<1>8. MayCarry(w, x)
  BY <1>3, <1>4, <1>7 DEF MayCarry, Counts, Sent
<1>9. NetSound(x)
  <2>1. \A p \in Port : PortSound(x, p)
    BY <1>1, <1>8, PortGrows DEF NetSound, Counts
  <2>2. x.next_seq >= w.next_seq
    BY <1>2 DEF Counts
  <2>3. \A e \in x.events : EventSound(x, e)
    BY <1>1, <1>5, <1>8, <2>2, EventGrows DEF NetSound, Counts
  <2>4. OneService(x)
    BY <1>1 DEF NetSound, OneService, Counts
  <2> QED BY <2>1, <2>3, <2>4 DEF NetSound
<1>10. TimersTrue(x)
  BY <1>1 DEF TimersTrue, TimerTrue, Counts
<1>11. Received(x, f)
  <2> DEFINE S == w.delivered[f]
             n == Packets(f)
             k == w.result[f].packets_delivered
  <2>1. S \subseteq Index(f) /\ k = Cardinality(S) /\ i \notin S /\ i \in Index(f)
    BY <1>6 DEF Received
  <2> HIDE DEF S, n, k
  <2>2. n \in Nat /\ Index(f) = 0 .. n - 1
    BY PacketsFacts DEF Index, n
  <2>3. IsFiniteSet(Index(f)) /\ Cardinality(Index(f)) = n
    <3>1. 0 \in Int /\ n - 1 \in Int /\ (IF 0 > n - 1 THEN 0 ELSE n - 1 - 0 + 1) = n
      BY <2>2
    <3> QED BY <2>2, <3>1, FS_Interval
  <2>4. IsFiniteSet(S)
    BY <2>1, <2>3, FS_Subset
  <2>5. Cardinality(S \cup {i}) = k + 1
    BY <2>1, <2>4, FS_AddElement
  <2>6. S \cup {i} \subseteq Index(f)
    BY <2>1
  <2>7. k + 1 = n => S \cup {i} = Index(f)
    <3> DEFINE R == S \cup {i}
               J == Index(f)
    <3>1. R \subseteq J /\ IsFiniteSet(J) /\ Cardinality(J) = n /\ Cardinality(R) = k + 1
      BY <2>3, <2>5, <2>6
    <3> HIDE DEF R, J
    <3>2. Cardinality(J) = Cardinality(R) => J = R
      BY <3>1, FS_Subset
    <3> QED BY <3>1, <3>2 DEF R, J
  <2>8. S \cup {i} = Index(f) => k + 1 = n
    BY <2>3, <2>5
  <2>9. x.delivered[f] = S \cup {i} /\ x.acked = w.acked /\ Sent(x, f) = Sent(w, f)
    BY <1>4 DEF S, Counts, Sent
  <2>10. /\ x.delivered[f] \subseteq Sent(x, f) /\ x.acked[f] \subseteq x.delivered[f]
    BY <1>6, <2>9 DEF Received, S
  <2>11. x.result[f].packets_delivered = k + 1
    BY <1>3 DEF k
  <2>12. x.result[f].complete <=> k + 1 = n
    BY <1>3 DEF k, n
  <2> QED BY <2>5, <2>6, <2>7, <2>8, <2>9, <2>10, <2>11, <2>12 DEF Received
<1>12. ASSUME NEW g \in Flow
       PROVE  Received(x, g) /\ SenderSound(x, g)
  <2>1. Received(w, g) /\ SenderSound(w, g)
    BY <1>1
  <2>2. Received(x, g)
    <3>1. CASE g = f
      BY <1>11, <3>1
    <3>2. CASE g # f
      BY <1>3, <1>4, <2>1, <3>2 DEF Received, Counts, Sent
    <3> QED BY <3>1, <3>2
  <2>3. SenderSound(x, g)
    BY <2>1 DEF SenderSound, Windowed, Timed, Awake, Counts
  <2> QED BY <2>2, <2>3
<1>13. Kept(x, x)
  BY <1>5, <1>9, <1>10, <1>12 DEF Kept
<1> QED BY <1>3, <1>4, <1>7, <1>8, <1>13

LEMMA DeliverGood ==
  ASSUME Settled, NEW w, Good(w), AllRest(w), NEW f \in Flow, NEW i \in Index(f),
         i \in Sent(w, f), Released(w, f), NEW bytes \in Nat
  PROVE  LET v == Deliver(w, f, i, bytes)
         IN  Good(v) /\ AllRest(v) /\ Released(v, f) /\ i \in v.delivered[f] /\ i \in Sent(v, f)
<1> DEFINE r == w.result[f]
           v == [w EXCEPT !.delivered[f] = @ \cup {i},
                          !.result[f].packets_delivered = @ + 1,
                          !.result[f].delivered_bytes = @ + bytes]
           n == r.packets_delivered + 1
           b == r.delivered_bytes + bytes
           r1 == [r EXCEPT !.packets_delivered = n, !.delivered_bytes = b]
           r2 == [r1 EXCEPT !.finish_ns = w.now, !.complete = TRUE]
           x == Completed(v, f)
           y == complete_flow(v, f)
<1>1. /\ Typed(w) /\ \A g \in Flow : Received(w, g) /\ Chained(w, g)
      /\ r \in FlowResult /\ w.result \in [Flow -> FlowResult] /\ w.now \in Nat
      /\ w.delivered \in [Flow -> SUBSET Nat] /\ DOMAIN w = Fields
      /\ Packets(f) \in Nat
  BY FlowTyped, PacketsFacts DEF Good, Typed
<1>2. CASE i \in w.delivered[f]
  BY <1>2 DEF Deliver
<1>3. CASE i \notin w.delivered[f]
  <2>1. ~r.complete
    BY <1>1, <1>3 DEF Received
  <2>2. /\ r1 \in FlowResult /\ r1.packets_delivered = r.packets_delivered + 1
        /\ r1.start_ns = r.start_ns /\ r1.complete = r.complete
        /\ r1.finish_ns = r.finish_ns
    <3>1. n \in Nat /\ b \in Nat
      BY <1>1 DEF FlowResult
    <3> HIDE DEF n, b
    <3>2. /\ r1 \in FlowResult /\ r1.packets_delivered = n
          /\ r1.start_ns = r.start_ns /\ r1.complete = r.complete
          /\ r1.finish_ns = r.finish_ns
      BY <1>1, <3>1 DEF FlowResult
    <3> QED BY <3>2 DEF n
  <2>3. /\ r2 \in FlowResult /\ r2.packets_delivered = r1.packets_delivered
        /\ r2.start_ns = r1.start_ns /\ r2.complete /\ r2.finish_ns = w.now
    BY <1>1, <2>2 DEF FlowResult
  <2>4. Counts(w, v, f, i, r1)
    <3> DEFINE h == [w.result EXCEPT ![f] = [r EXCEPT !.packets_delivered = n]]
    <3>1. /\ DOMAIN v = Fields
          /\ v.result = [h EXCEPT ![f] = [h[f] EXCEPT !.delivered_bytes = h[f].delivered_bytes + bytes]]
      BY <1>1 DEF Fields
    <3>2. h[f] = [r EXCEPT !.packets_delivered = n] /\ h[f].delivered_bytes = r.delivered_bytes
      <4> HIDE DEF n
      <4> QED BY <1>1 DEF FlowResult
    <3>2a. [h EXCEPT ![f] = [h[f] EXCEPT !.delivered_bytes = b]] = [w.result EXCEPT ![f] = r1]
      <4> HIDE DEF n, b
      <4>1. [h[f] EXCEPT !.delivered_bytes = b] = r1
        BY <1>1, <3>2 DEF FlowResult
      <4> QED BY <1>1, <4>1
    <3> HIDE DEF r1
    <3>3. /\ DOMAIN v = Fields
          /\ v.delivered = [w.delivered EXCEPT ![f] = @ \cup {i}]
          /\ v.events = w.events /\ v.next_seq = w.next_seq /\ v.now = w.now
          /\ v.port = w.port
          /\ v.tx = w.tx /\ v.flying = w.flying /\ v.acked = w.acked /\ v.attempt = w.attempt
          /\ v.injected = w.injected /\ v.received = w.received /\ v.dropped = w.dropped
      BY <1>1 DEF Fields
    <3> QED BY <3>1, <3>2, <3>2a, <3>3 DEF Counts
  <2>5. Deliver(w, f, i, bytes) = IF v.result[f].packets_delivered = Packets(f) THEN y ELSE v
    BY <1>3 DEF Deliver
  <2> HIDE DEF v, r1, r2, r, x, y, n, b
  <2>6. v.result[f] = r1 /\ v.now = w.now
    BY <1>1, <2>2, <2>4 DEF Counts
  <2>7. CASE r1.packets_delivered # Packets(f)
    <3>1. Deliver(w, f, i, bytes) = v
      BY <2>5, <2>6, <2>7
    <3>2. r1.complete <=> r1.packets_delivered = Packets(f)
      BY <2>1, <2>2, <2>7
    <3>3. /\ Kept(v, v) /\ MayCarry(w, v)
          /\ v.delivered[f] = w.delivered[f] \cup {i}
          /\ v.result[f] = r1 /\ \A g \in Flow \ {f} : v.result[g] = w.result[g]
      BY <1>3, <2>2, <2>4, <3>2, CountsKept DEF r
    <3>4. \A g \in Flow : /\ v.result[g].complete = w.result[g].complete
                          /\ v.result[g].start_ns = w.result[g].start_ns
                          /\ v.result[g].finish_ns = w.result[g].finish_ns
      BY <2>2, <3>3 DEF r
    <3>5. v.tx = w.tx /\ v.events = w.events
      BY <2>4 DEF Counts
    <3>6. \A g \in Flow : Chained(v, g) /\ Rests(v, g)
      <4> TAKE g \in Flow
      <4>1. spec[g].depends_on # 0 => spec[g].depends_on \in Flow
        BY FlowFacts
      <4>2. Chained(w, g) /\ Rests(w, g)
        BY <1>1 DEF AllRest
      <4>3. Chained(v, g)
        BY <3>4, <3>5, <4>1, <4>2 DEF Chained
      <4>4. Rests(v, g)
        BY <3>4, <3>5, <4>1, <4>2 DEF Rests, Released, AtRest, Awake
      <4> QED BY <4>3, <4>4
    <3>7. Good(v) /\ AllRest(v)
      BY <3>3, <3>6 DEF Kept, Good, AllRest
    <3>8. Released(v, f) /\ i \in v.delivered[f] /\ i \in Sent(v, f)
      BY <3>3, ReleasedGrows DEF MayCarry
    <3> QED BY <3>1, <3>7, <3>8
  <2>8. CASE r1.packets_delivered = Packets(f)
    <3>1. Deliver(w, f, i, bytes) = y
      BY <2>5, <2>6, <2>8
    <3>2. Counts(w, x, f, i, r2)
      <4>1. v.result \in [Flow -> FlowResult] /\ DOMAIN v = Fields /\ r1 \in FlowResult
        BY <1>1, <2>2, <2>4 DEF Counts
      <4>2. x = [v EXCEPT !.result[f].finish_ns = w.now, !.result[f].complete = TRUE]
        BY <2>6 DEF x, Completed
      <4>3. x.result = [v.result EXCEPT ![f] = [v.result[f] EXCEPT !.finish_ns = w.now, !.complete = TRUE]]
        BY <4>1, <4>2 DEF Fields
      <4>4. [v.result EXCEPT ![f] = [v.result[f] EXCEPT !.finish_ns = w.now, !.complete = TRUE]] = [v.result EXCEPT ![f] = r2]
        BY <2>6, <4>1 DEF r2
      <4>5. [v.result EXCEPT ![f] = r2] = [w.result EXCEPT ![f] = r2]
        BY <1>1, <2>2, <2>4 DEF Counts
      <4>6. /\ DOMAIN x = Fields
            /\ x.delivered = v.delivered
            /\ x.events = v.events /\ x.next_seq = v.next_seq /\ x.now = v.now
            /\ x.port = v.port
            /\ x.tx = v.tx /\ x.flying = v.flying /\ x.acked = v.acked /\ x.attempt = v.attempt
            /\ x.injected = v.injected /\ x.received = v.received /\ x.dropped = v.dropped
        BY <4>1, <4>2 DEF Fields
      <4> QED BY <2>4, <4>3, <4>4, <4>5, <4>6 DEF Counts
    <3>3. /\ Kept(x, x) /\ MayCarry(w, x)
          /\ x.delivered[f] = w.delivered[f] \cup {i}
          /\ x.result[f] = r2 /\ \A g \in Flow \ {f} : x.result[g] = w.result[g]
      <4>1. r2.complete <=> r2.packets_delivered = Packets(f)
        BY <2>3, <2>8
      <4>2. r2.start_ns = w.result[f].start_ns
            /\ r2.packets_delivered = w.result[f].packets_delivered + 1
        BY <2>2, <2>3 DEF r
      <4> QED BY <1>3, <2>3, <3>2, <4>1, <4>2, CountsKept
    <3>4. ReleasedBy(x, y, f)
      BY <2>3, <3>3, CompleteReleases DEF x, y
    <3>5. /\ x.tx = w.tx /\ x.events = w.events /\ x.now = w.now
          /\ \A g \in Flow : x.result[g].start_ns = w.result[g].start_ns
          /\ \A g \in Flow \ {f} : /\ x.result[g].complete = w.result[g].complete
                                   /\ x.result[g].finish_ns = w.result[g].finish_ns
          /\ x.result[f].complete /\ x.result[f].finish_ns = w.now
      BY <2>2, <2>3, <3>2, <3>3 DEF Counts, r
    <3>6. /\ Kept(x, y)
          /\ \A g \in Flow : /\ y.result[g].complete = x.result[g].complete
                             /\ y.result[g].finish_ns = x.result[g].finish_ns
                             /\ y.tx[g].next_seq = x.tx[g].next_seq
                             /\ AtRest(x, g) => AtRest(y, g)
          /\ \A d \in WaitFor(f) : Awake(y, d) /\ y.result[d].start_ns = w.now
          /\ \A g \in Flow \ WaitFor(f) : y.result[g].start_ns = x.result[g].start_ns
      BY <3>4, <3>5 DEF ReleasedBy, Kept
    <3>7. \A g \in Flow : Chained(y, g) /\ Rests(y, g)
      <4> TAKE g \in Flow
      <4> DEFINE d == spec[g].depends_on
      <4>1. d # 0 => d \in Flow
        BY FlowFacts
      <4>2. Chained(w, g) /\ Rests(w, g)
        BY <1>1 DEF AllRest
      <4>3. CASE g \in WaitFor(f)
        <5>1. d = f
          BY <4>3 DEF WaitFor
        <5>2. Chained(y, g)
          BY <3>5, <3>6, <4>3, <5>1 DEF Chained
        <5>3. Rests(y, g)
          BY <3>6, <4>3 DEF Rests, AtRest
        <5> QED BY <5>2, <5>3
      <4>4. CASE g \notin WaitFor(f)
        <5>1. d # f
          BY <4>4 DEF WaitFor
        <5>2. d # 0 => /\ y.result[d].complete = w.result[d].complete
                       /\ y.result[d].finish_ns = w.result[d].finish_ns
          BY <3>5, <3>6, <4>1, <5>1
        <5>3. y.result[g].start_ns = w.result[g].start_ns /\ y.tx[g].next_seq = w.tx[g].next_seq
          BY <3>5, <3>6, <4>4
        <5>4. Chained(y, g)
          BY <4>2, <5>2, <5>3 DEF Chained
        <5>5. AtRest(w, g) => AtRest(y, g)
          BY <3>5, <3>6 DEF AtRest, Awake
        <5>6. Rests(y, g)
          BY <4>2, <5>2, <5>5 DEF Rests, Released
        <5> QED BY <5>4, <5>6
      <4> QED BY <4>3, <4>4
    <3>8. Good(y) /\ AllRest(y)
      BY <3>6, <3>7 DEF Kept, Good, AllRest
    <3>9. MayCarry(w, y)
      <4>1. y.delivered = x.delivered
        BY <3>6 DEF Kept
      <4>2. \A g \in Flow : /\ Sent(y, g) = Sent(x, g)
                            /\ y.result[g].complete = x.result[g].complete
        BY <3>6 DEF Sent
      <4> QED BY <3>3, <4>1, <4>2 DEF MayCarry
    <3>10. i \in y.delivered[f]
      BY <3>3, <3>6 DEF Kept
    <3>11. Released(y, f) /\ i \in Sent(y, f)
      BY <3>9, ReleasedGrows DEF MayCarry
    <3> QED BY <3>1, <3>8, <3>10, <3>11
  <2> QED BY <2>7, <2>8
<1> QED BY <1>2, <1>3

LEMMA ArrivalGood ==
  ASSUME Settled, NEW w, Good(w), AllRest(w), NEW f \in Flow, NEW i \in Index(f),
         i \in Sent(w, f), Released(w, f), NEW bytes \in Nat
  PROVE  Good(on_data_arrival(w, f, i, bytes)) /\ AllRest(on_data_arrival(w, f, i, bytes))
<1> DEFINE v == [w EXCEPT !.received["Data"] = @ + bytes]
           u == Deliver(v, f, i, bytes)
           x == [u EXCEPT !.injected["Ack"] = @ + ack_bytes]
           p == nic(spec[f].dst)
           pkt == AckPacket(f, i)
           y == enqueue(x, p, pkt)
<1>1. on_data_arrival(w, f, i, bytes) = y
  BY DEF on_data_arrival
<1>2. Recounted(w, v)
  BY DEF Good, Typed, Fields, Recounted, Kind
<1> HIDE DEF v
<1>3. Good(v) /\ AllRest(v) /\ i \in Sent(v, f) /\ Released(v, f)
  <2>1. Good(v) /\ AllRest(v)
    BY <1>2, RecountedGood
  <2> QED BY <1>2, <2>1 DEF Recounted, Sent, Released
<1>4. Good(u) /\ AllRest(u) /\ Released(u, f) /\ i \in u.delivered[f] /\ i \in Sent(u, f)
  BY <1>3, DeliverGood
<1> HIDE DEF u
<1>5. ack_bytes \in Nat
  BY CfgFacts
<1>6. Recounted(u, x)
  BY <1>4, <1>5 DEF Good, Typed, Fields, Recounted, Kind
<1> HIDE DEF x
<1>7. Good(x) /\ AllRest(x)
  BY <1>4, <1>6, RecountedGood
<1>8. Homeward(x, p, pkt) /\ p \in Port
  <2>1. p \in Port /\ ~is_host(p[2]) /\ IsPacket(pkt)
    BY SendFacts
  <2>2. pkt.flow = f /\ pkt.index = i
    BY DEF AckPacket
  <2>3. Released(x, f) /\ i \in x.delivered[f] /\ i \in Sent(x, f)
    BY <1>4, <1>6 DEF Recounted, Released, Sent
  <2> QED BY <2>1, <2>2, <2>3 DEF Homeward, Carried
<1> HIDE DEF p, pkt
<1>9. Good(y) /\ NetStep(x, y)
  BY <1>7, <1>8, EnqueueGood
<1> HIDE DEF y
<1>10. AllRest(y)
  <2>1. Typed(x) /\ Typed(y)
    BY <1>7, <1>9 DEF Good
  <2> QED BY <1>7, <1>9, <2>1, NetStepKeeps DEF AllRest, Rests
<1> QED BY <1>1, <1>9, <1>10

LEMMA ArriveGood ==
  ASSUME Settled, NEW w, Good(w), AllRest(w), NEW e \in w.events, e.type = "Arrive"
  PROVE  Good(on_arrive(Popped(w, e), e)) /\ AllRest(on_arrive(Popped(w, e), e))
<1> DEFINE v == Popped(w, e)
           at == e.port[2]
           pkt == e.pkt
           f == pkt.flow
           x == on_arrive(v, e)
<1>1. Good(v) /\ AllRest(v)
  BY PoppedGood DEF NetTypes
<1>2. MayCarry(w, v) /\ EventSound(w, e)
  BY PoppedFacts DEF MayCarry, Sent
<1> HIDE DEF v
<1>3. Homeward(v, e.port, pkt)
  BY <1>2, HomewardGrows DEF EventSound
<1>4. /\ IsPacket(pkt) /\ Released(v, f) /\ pkt.index \in Sent(v, f)
      /\ pkt.kind = "Ack" => pkt.index \in v.delivered[f]
  BY <1>3 DEF Homeward, Carried
<1>5. f \in Flow /\ pkt.index \in Index(f) /\ pkt.kind \in Kind /\ pkt.bytes \in Nat
  BY <1>4 DEF IsPacket
<1>6. CASE ~is_host(at)
  <2> DEFINE p == select(pkt, at)
  <2>1. x = enqueue(v, p, pkt)
    BY <1>6 DEF on_arrive
  <2>2. p \in Port /\ Homeward(v, p, pkt)
    BY <1>3, <1>4, <1>6, SelectFacts DEF Homeward
  <2> HIDE DEF p
  <2>3. Good(x) /\ NetStep(v, x)
    BY <1>1, <2>1, <2>2, EnqueueGood
  <2> HIDE DEF x
  <2>4. AllRest(x)
    <3>1. Typed(v) /\ Typed(x)
      BY <1>1, <2>3 DEF Good
    <3> QED BY <1>1, <2>3, <3>1, NetStepKeeps DEF AllRest, Rests
  <2> QED BY <2>3, <2>4 DEF x, v
<1>7. CASE is_host(at) /\ pkt.kind = "Ack"
  <2> DEFINE u == [v EXCEPT !.received["Ack"] = @ + pkt.bytes]
  <2>1. x = on_ack(u, f, pkt.index)
    BY <1>7 DEF on_arrive
  <2>2. Recounted(v, u)
    BY <1>1, <1>5 DEF Good, Typed, Fields, Recounted, Kind
  <2> HIDE DEF u
  <2>3. Good(u) /\ AllRest(u)
    BY <1>1, <2>2, RecountedGood
  <2>4. Released(u, f) /\ pkt.index \in u.delivered[f]
    BY <1>4, <1>7, <2>2 DEF Recounted, Released
  <2>5. Good(x) /\ AllRest(x)
    BY <1>5, <2>1, <2>3, <2>4, AckGood
  <2> QED BY <2>5 DEF x, v
<1>8. CASE is_host(at) /\ pkt.kind # "Ack"
  <2>1. x = on_data_arrival(v, f, pkt.index, pkt.bytes)
    BY <1>8 DEF on_arrive
  <2>2. Good(x) /\ AllRest(x)
    BY <1>1, <1>4, <1>5, <2>1, ArrivalGood
  <2> QED BY <2>2 DEF x, v
<1> QED BY <1>6, <1>7, <1>8

-----------------------------------------------------------------------------
(* Runs *)

(* What begin_run clears a simulator to, whatever it was. *)
Fresh ==
  [events |-> {}, next_seq |-> 0, now |-> 0,
   port |-> [p \in Port |-> [waiting |-> <<>>, busy |-> FALSE,
                             in_flight |-> NoPacket, sent |-> 0, dropped |-> 0]],
   tx |-> [f \in Flow |-> [next_seq |-> 0, in_flight |-> 0, retx |-> <<>>,
                           next_send_ns |-> 0, send_scheduled |-> FALSE,
                           failed |-> FALSE]],
   flying |-> [f \in Flow |-> {}], acked |-> [f \in Flow |-> {}],
   delivered |-> [f \in Flow |-> {}],
   attempt |-> [f \in Flow |-> [i \in Index(f) |-> 0]],
   result |-> [f \in Flow |->
      [start_ns |-> spec[f].start_ns, finish_ns |-> 0,
       delivered_bytes |-> 0, packets_delivered |-> 0,
       packets_dropped |-> 0, packets_retransmitted |-> 0,
       complete |-> FALSE, failed |-> FALSE]],
   injected |-> [k \in Kind |-> 0], received |-> [k \in Kind |-> 0],
   dropped |-> [k \in Kind |-> 0]]

LEMMA ClearedFresh == ASSUME NEW w, DOMAIN w = Fields PROVE Cleared(w) = Fresh
<1> DEFINE port == [p \in Port |-> [waiting |-> <<>>, busy |-> FALSE,
                                    in_flight |-> NoPacket, sent |-> 0, dropped |-> 0]]
           tx == [f \in Flow |-> [next_seq |-> 0, in_flight |-> 0, retx |-> <<>>,
                                  next_send_ns |-> 0, send_scheduled |-> FALSE,
                                  failed |-> FALSE]]
           result == [f \in Flow |->
              [start_ns |-> spec[f].start_ns, finish_ns |-> 0,
               delivered_bytes |-> 0, packets_delivered |-> 0,
               packets_dropped |-> 0, packets_retransmitted |-> 0,
               complete |-> FALSE, failed |-> FALSE]]
           none == [f \in Flow |-> {}]
           zero == [k \in Kind |-> 0]
           attempt == [f \in Flow |-> [i \in Index(f) |-> 0]]
           v == [w EXCEPT !.events = {}, !.next_seq = 0, !.now = 0, !.port = port, !.tx = tx,
                          !.result = result, !.injected = zero, !.received = zero,
                          !.dropped = zero]
           x == [v EXCEPT !.flying = none, !.acked = none, !.delivered = none,
                          !.attempt = attempt]
           y == [events |-> {}, next_seq |-> 0, now |-> 0, port |-> port, tx |-> tx,
                 flying |-> none, acked |-> none, delivered |-> none, attempt |-> attempt,
                 result |-> result, injected |-> zero, received |-> zero, dropped |-> zero]
<1>1. Cleared(w) = x
  BY DEF Cleared, ClearPackets
<1>2. Fresh = y
  BY DEF Fresh
<1> HIDE DEF port, tx, result, none, zero, attempt
<1>3. /\ DOMAIN x = Fields
      /\ x.events = {} /\ x.next_seq = 0 /\ x.now = 0 /\ x.port = port /\ x.tx = tx
      /\ x.flying = none /\ x.acked = none /\ x.delivered = none /\ x.attempt = attempt
      /\ x.result = result /\ x.injected = zero /\ x.received = zero /\ x.dropped = zero
  BY DEF Fields
<1>4. /\ DOMAIN y = Fields
      /\ y.events = {} /\ y.next_seq = 0 /\ y.now = 0 /\ y.port = port /\ y.tx = tx
      /\ y.flying = none /\ y.acked = none /\ y.delivered = none /\ y.attempt = attempt
      /\ y.result = result /\ y.injected = zero /\ y.received = zero /\ y.dropped = zero
  BY DEF Fields
<1>5. x = [k \in Fields |-> x[k]] /\ y = [k \in Fields |-> y[k]]
  <2>1. x = [k \in Fields |-> x[k]]
    BY <1>3
  <2>2. y = [k \in Fields |-> y[k]]
    BY <1>4
  <2> QED BY <2>1, <2>2
<1> HIDE DEF x, y
<1>6. \A k \in Fields : x[k] = y[k]
  BY <1>3, <1>4 DEF Fields
<1>7. x = y
  BY <1>5, <1>6
<1> QED BY <1>1, <1>2, <1>7

LEMMA FreshKept ==
  ASSUME Settled
  PROVE  /\ Kept(Fresh, Fresh) /\ Fresh.now = 0 /\ Fresh.events = {}
         /\ \A f \in Flow : ~Fresh.result[f].complete /\ Fresh.tx[f].next_seq = 0
<1> DEFINE c == Fresh
<1>1. /\ DOMAIN c = Fields
      /\ c.events = {} /\ c.next_seq = 0 /\ c.now = 0
      /\ \A f \in Flow : c.flying[f] = {} /\ c.acked[f] = {} /\ c.delivered[f] = {}
  BY DEF Fresh, Fields
<1>2. c.port \in [Port -> PortState] /\ \A p \in Port : c.port[p].waiting = <<>> /\ ~c.port[p].busy
  <2> DEFINE q == <<>>
             r == [waiting |-> q, busy |-> FALSE, in_flight |-> NoPacket, sent |-> 0, dropped |-> 0]
  <2>1. q \in Seq(Packet) /\ NoPacket \in Packet
    BY DEF NoPacket, Packet, Kind
  <2>2. c.port = [p \in Port |-> r]
    BY DEF Fresh
  <2> HIDE DEF q
  <2>3. r \in PortState /\ r.waiting = q /\ ~r.busy
    BY <2>1 DEF PortState
  <2> HIDE DEF r
  <2> QED BY <2>2, <2>3 DEF q
<1>3. /\ c.tx \in [Flow -> TxState]
      /\ \A f \in Flow : /\ c.tx[f].next_seq = 0 /\ c.tx[f].in_flight = 0
                         /\ c.tx[f].retx = <<>> /\ ~c.tx[f].send_scheduled
  <2> DEFINE q == <<>>
             r == [next_seq |-> 0, in_flight |-> 0, retx |-> q, next_send_ns |-> 0,
                   send_scheduled |-> FALSE, failed |-> FALSE]
  <2>1. q \in Seq(Nat)
    OBVIOUS
  <2>2. c.tx = [f \in Flow |-> r]
    BY DEF Fresh
  <2> HIDE DEF q
  <2>3. /\ r \in TxState /\ r.next_seq = 0 /\ r.in_flight = 0 /\ r.retx = q
        /\ ~r.send_scheduled
    BY <2>1 DEF TxState
  <2> HIDE DEF r
  <2> QED BY <2>2, <2>3 DEF q
<1>4. /\ c.result \in [Flow -> FlowResult]
      /\ \A f \in Flow : ~c.result[f].complete /\ c.result[f].packets_delivered = 0
  <2> DEFINE r(s) == [start_ns |-> s, finish_ns |-> 0, delivered_bytes |-> 0,
                      packets_delivered |-> 0, packets_dropped |-> 0,
                      packets_retransmitted |-> 0, complete |-> FALSE, failed |-> FALSE]
  <2>1. c.result = [f \in Flow |-> r(spec[f].start_ns)]
    BY DEF Fresh
  <2>2. \A s \in Nat : r(s) \in FlowResult /\ ~r(s).complete /\ r(s).packets_delivered = 0
    BY DEF FlowResult
  <2> HIDE DEF r
  <2>3. \A f \in Flow : spec[f].start_ns \in Nat
    BY FlowFacts
  <2> QED BY <2>1, <2>2, <2>3
<1>5. /\ c.flying \in [Flow -> SUBSET Nat] /\ c.acked \in [Flow -> SUBSET Nat]
      /\ c.delivered \in [Flow -> SUBSET Nat]
      /\ c.injected \in [Kind -> Nat] /\ c.received \in [Kind -> Nat] /\ c.dropped \in [Kind -> Nat]
  BY DEF Fresh
<1>6. DOMAIN c.attempt = Flow /\ \A f \in Flow : c.attempt[f] \in [Index(f) -> Nat]
  <2>1. c.attempt = [f \in Flow |-> [i \in Index(f) |-> 0]]
    BY DEF Fresh
  <2> QED BY <2>1
<1> HIDE DEF c
<1>7. Typed(c)
  BY <1>1, <1>2, <1>3, <1>4, <1>5, <1>6 DEF Typed
<1>8. NetSound(c) /\ TimersTrue(c)
  BY <1>1, <1>2 DEF NetSound, PortSound, OneService, TimersTrue
<1>9. ASSUME NEW f \in Flow
      PROVE  Received(c, f) /\ SenderSound(c, f)
  <2>1. Cardinality({}) = 0
    BY FS_EmptySet
  <2>2. Packets(f) \in Nat \ {0}
    BY PacketsFacts
  <2>3. 0 \in Index(f) /\ 0 .. 0 - 1 = {}
    BY <2>2 DEF Index
  <2>4. Received(c, f)
    BY <1>1, <1>4, <2>1, <2>3 DEF Received
  <2> DEFINE t == c.tx[f]
  <2>5. /\ t.next_seq = 0 /\ t.in_flight = 0 /\ t.retx = <<>>
        /\ c.flying[f] = {} /\ 0 <= Packets(f)
    BY <1>1, <1>3, <2>2
  <2>6. Windowed(c, f)
    <3> HIDE DEF t
    <3>1. InRing(t) = {}
      BY <2>5 DEF InRing
    <3>2. \A j, k \in 1 .. Len(t.retx) : t.retx[j] = t.retx[k] => j = k
      BY <2>5
    <3>3. t.next_seq <= Packets(f) /\ t.in_flight = Cardinality(c.flying[f])
      BY <2>1, <2>5
    <3>4. 0 .. t.next_seq - 1 = {}
      BY <2>3, <2>5
    <3> QED BY <2>5, <3>1, <3>2, <3>3, <3>4 DEF Windowed, t
  <2>7. Timed(c, f)
    BY <1>1 DEF Timed
  <2> QED BY <1>3, <2>4, <2>6, <2>7 DEF SenderSound
<1>10. Kept(c, c)
  BY <1>7, <1>8, <1>9 DEF Kept
<1> QED BY <1>1, <1>3, <1>4, <1>10 DEF c

LEMMA BeginGood ==
  ASSUME Settled, NEW w, DOMAIN w = Fields
  PROVE  /\ Good(begin_run(w)) /\ AllRest(begin_run(w)) /\ begin_run(w) = begin_run(Fresh)
         /\ \A f \in Flow : ~begin_run(w).result[f].complete
<1> DEFINE N == Len(spec)
           c == Fresh
           P(t) == t = [n \in 0 .. N |-> IF n = 0 THEN c ELSE PushStart(t[n - 1], n)]
           a == CHOOSE t : P(t)
<1>1. N \in Nat /\ Flow = 1 .. N
  BY SpecFacts
<1>2. begin_run(w) = a[N] /\ begin_run(Fresh) = a[N]
  <2>1. Cleared(w) = Fresh
    BY ClearedFresh
  <2>2. Cleared(Fresh) = Fresh
    BY FreshKept, ClearedFresh DEF Kept, Typed
  <2> QED BY <2>1, <2>2 DEF begin_run
<1> HIDE DEF N, c
<1>3. \E t : P(t)
  <2>1. PICK t : IsLoop("begin", 0, c, N, t)
    BY <1>1, LoopExists
  <2>2. P(t)
    BY <2>1 DEF IsLoop, LoopBody
  <2> QED BY <2>2
<1>4. P(a)
  BY <1>3
<1> HIDE DEF a
<1>5. a[0] = c /\ \A n \in 1 .. N : a[n] = PushStart(a[n - 1], n)
  <2>1. 0 \in 0 .. N /\ \A n \in 1 .. N : n \in 0 .. N /\ n # 0
    BY <1>1
  <2> QED BY <1>4, <2>1
<1>6. Kept(c, c) /\ c.now = 0 /\ \A f \in Flow : ~c.result[f].complete /\ c.tx[f].next_seq = 0
  BY FreshKept DEF c
<1> DEFINE Q(n) == /\ Kept(c, a[n])
                   /\ \A k \in 1 .. n : spec[k].depends_on = 0 => Awake(a[n], k)
           T == {n \in 0 .. N : ~Q(n)}
<1>7. T = {}
  <2>1. SUFFICES ASSUME T # {} PROVE FALSE
    OBVIOUS
  <2> DEFINE m == Min(T)
  <2>2. m \in T /\ \A n \in T : m <= n
    <3>1. T \subseteq Nat
      BY <1>1
    <3> HIDE DEF T
    <3> QED BY <2>1, <3>1, NatMinimum
  <2>3. m \in 0 .. N /\ ~Q(m)
    BY <2>2
  <2> HIDE DEF m
  <2>4. Q(0)
    BY <1>5, <1>6
  <2>5. m # 0
    BY <2>3, <2>4
  <2>6. m - 1 \in 0 .. N /\ m \in 1 .. N /\ m - 1 \notin T /\ m \in Flow
    BY <1>1, <2>2, <2>3, <2>5
  <2> DEFINE u == a[m - 1]
             v == a[m]
  <2>7. /\ Kept(c, u)
        /\ \A k \in 1 .. m - 1 : spec[k].depends_on = 0 => Awake(u, k)
    BY <2>6
  <2>8. v = PushStart(u, m)
    BY <1>5, <2>6
  <2> HIDE DEF u, v
  <2>9. CASE spec[m].depends_on = 0
    <3>1. v = Push(u, Inject(spec[m].start_ns, m))
      BY <2>8, <2>9 DEF PushStart, StartsAtOnce
    <3>2. Typed(u) /\ u.now = 0
      BY <1>6, <2>7 DEF Kept
    <3>3. Started(u, v, m, u.result[m].start_ns)
      BY <2>6, <2>9, <3>1, <3>2, PushStarts
    <3>4. Kept(c, v)
      BY <2>7, <3>3, WakesKept DEF Started
    <3>5. ASSUME NEW k \in 1 .. m, spec[k].depends_on = 0
          PROVE  Awake(v, k)
      <4>1. CASE k = m
        BY <3>3, <4>1 DEF Started
      <4>2. CASE k # m
        <5>1. k \in 1 .. m - 1
          BY <2>6, <4>2
        <5>2. Awake(u, k)
          BY <2>7, <3>5, <5>1
        <5> QED BY <3>3, <5>2 DEF Started, Wakes, Awake
      <4> QED BY <4>1, <4>2
    <3> QED BY <2>3, <3>4, <3>5 DEF v
  <2>10. CASE spec[m].depends_on # 0
    <3>1. v = u
      BY <2>8, <2>10 DEF PushStart, StartsAtOnce
    <3>2. \A k \in 1 .. m : k = m \/ k \in 1 .. m - 1
      BY <2>6
    <3> QED BY <2>3, <2>7, <2>10, <3>1, <3>2 DEF v
  <2> QED BY <2>9, <2>10
<1>8. N \in 0 .. N
  BY <1>1
<1>9. Q(N)
  BY <1>7, <1>8
<1> DEFINE y == a[N]
<1> HIDE DEF y
<1>10. Kept(c, y) /\ \A f \in Flow : spec[f].depends_on = 0 => Awake(y, f)
  BY <1>1, <1>9 DEF y
<1>11. ASSUME NEW f \in Flow
       PROVE  Chained(y, f) /\ Rests(y, f) /\ ~y.result[f].complete
  <2>1. spec[f].depends_on # 0 => spec[f].depends_on \in Flow
    BY FlowFacts
  <2>2. \A g \in Flow : ~y.result[g].complete /\ y.tx[g].next_seq = 0
    BY <1>6, <1>10 DEF Kept
  <2>3. Chained(y, f)
    BY <2>1, <2>2 DEF Chained
  <2>4. Rests(y, f)
    BY <1>10, <2>1, <2>2 DEF Rests, Released, AtRest
  <2> QED BY <2>2, <2>3, <2>4
<1>12. Good(y) /\ AllRest(y)
  BY <1>10, <1>11 DEF Kept, Good, AllRest
<1> QED BY <1>2, <1>11, <1>12 DEF y

LEMMA ClockGood ==
  ASSUME Settled, NEW w, Good(w), AllRest(w), w.events # {}
  PROVE  LET v == [w EXCEPT !.now = Min({e.time : e \in w.events})]
         IN  Good(v) /\ AllRest(v)
<1> DEFINE times == {e.time : e \in w.events}
           t == Min(times)
           v == [w EXCEPT !.now = t]
<1>1. /\ Typed(w) /\ NetSound(w) /\ TimersTrue(w) /\ w.events \subseteq PendingEvent
      /\ \A f \in Flow : FlowSound(w, f)
  BY DEF Good, FlowSound, Typed
<1>2. times \subseteq Nat /\ times # {}
  BY <1>1 DEF PendingEvent
<1> HIDE DEF times
<1>3. t \in times /\ \A s \in times : t <= s
  BY <1>2, NatMinimum
<1>4. t \in Nat /\ \A e \in w.events : t <= e.time /\ e.time \in Nat
  BY <1>1, <1>2, <1>3 DEF times, PendingEvent
<1> HIDE DEF t
<1>5. /\ DOMAIN v = Fields
      /\ v.events = w.events /\ v.next_seq = w.next_seq /\ v.now = t /\ v.port = w.port
      /\ v.tx = w.tx /\ v.flying = w.flying /\ v.acked = w.acked /\ v.delivered = w.delivered
      /\ v.attempt = w.attempt /\ v.result = w.result
      /\ v.injected = w.injected /\ v.received = w.received /\ v.dropped = w.dropped
  BY <1>1 DEF Typed, Fields
<1> HIDE DEF v
<1>6. Typed(v)
  BY <1>1, <1>4, <1>5 DEF Typed
<1>7. MayCarry(w, v)
  BY <1>5 DEF MayCarry, Sent
<1>8. NetSound(v)
  <2>1. \A p \in Port : PortSound(v, p)
    BY <1>1, <1>5, <1>7, PortGrows DEF NetSound
  <2>2. ASSUME NEW e \in v.events PROVE EventSound(v, e)
    <3>1. EventSound(w, e) /\ e \in w.events
      BY <1>1, <1>5 DEF NetSound
    <3>2. e.time >= v.now /\ e.seq < v.next_seq
      BY <1>4, <1>5, <3>1 DEF EventSound
    <3>3. e.type = "Arrive" => e.port \in Port /\ Homeward(v, e.port, e.pkt)
      BY <1>7, <3>1, HomewardGrows DEF EventSound
    <3>4. \A f : Released(w, f) => Released(v, f)
      BY <1>5 DEF Released
    <3> QED BY <1>5, <3>1, <3>2, <3>3, <3>4 DEF EventSound
  <2>3. OneService(v)
    BY <1>1, <1>5 DEF NetSound, OneService
  <2> QED BY <2>1, <2>2, <2>3 DEF NetSound
<1>9. TimersTrue(v)
  BY <1>1, <1>5 DEF TimersTrue, TimerTrue
<1>10. ASSUME NEW f \in Flow PROVE FlowSound(v, f) /\ Rests(v, f)
  <2>1. Received(w, f) /\ Chained(w, f) /\ Windowed(w, f) /\ Timed(w, f)
        /\ (w.tx[f].send_scheduled => Awake(w, f))
    BY <1>1 DEF FlowSound, SenderSound
  <2>2. Received(v, f) /\ Chained(v, f)
    BY <1>5, <2>1 DEF Received, Chained, Sent
  <2>3. Windowed(v, f) /\ Timed(v, f) /\ (v.tx[f].send_scheduled => Awake(v, f))
    BY <1>5, <2>1 DEF Windowed, Timed, Awake
  <2>4. Rests(v, f)
    BY <1>5 DEF AllRest, Rests, AtRest, Released, Awake
  <2> QED BY <2>2, <2>3, <2>4 DEF FlowSound, SenderSound
<1>11. Good(v) /\ AllRest(v)
  BY <1>6, <1>8, <1>9, <1>10 DEF Good, FlowSound, AllRest
<1> QED BY <1>11 DEF v, t, times

(* The configuration does not change, nor what is read of it. *)
LEMMA SameSetting ==
  ASSUME setting' = setting
  PROVE  /\ cfg' = cfg /\ spec' = spec /\ Flow' = Flow /\ Port' = Port
         /\ \A u : is_host(u)' <=> is_host(u)
         /\ \A f : Packets(f)' = Packets(f)
         /\ \A f : Index(f)' = Index(f) /\ Window(f)' = Window(f)
         /\ \A f, k : Home(f, k)' = Home(f, k)
         /\ \A pkt : IsPacket(pkt)' <=> IsPacket(pkt)
<1>1. cfg' = cfg
  BY DEF cfg
<1>2. spec' = spec /\ Port' = Port /\ \A u : is_host(u)' <=> is_host(u)
  BY <1>1 DEF spec, Port, is_host
<1>3. Flow' = Flow
  BY <1>2 DEF Flow
<1>4. \A f : Packets(f)' = Packets(f)
  BY <1>2 DEF Packets
<1>5. \A f : Index(f)' = Index(f) /\ Window(f)' = Window(f)
  BY <1>2, <1>4 DEF Index, Window
<1>6. \A f, k : Home(f, k)' = Home(f, k)
  BY <1>2 DEF Home
<1>7. \A pkt : IsPacket(pkt)' <=> IsPacket(pkt)
  BY <1>3, <1>5 DEF IsPacket
<1> QED BY <1>1, <1>2, <1>3, <1>4, <1>5, <1>6, <1>7

(* The invariant of the next state. *)
LEMMA GoodPrimed ==
  ASSUME setting' = setting, Good(sim'), AllRest(sim')
  PROVE  Good(sim)' /\ AllRest(sim)'
<1>1. /\ cfg' = cfg /\ spec' = spec /\ Flow' = Flow /\ Port' = Port
      /\ \A u : is_host(u)' <=> is_host(u)
      /\ \A f : Packets(f)' = Packets(f)
      /\ \A f : Index(f)' = Index(f) /\ Window(f)' = Window(f)
      /\ \A f, k : Home(f, k)' = Home(f, k)
      /\ \A pkt : IsPacket(pkt)' <=> IsPacket(pkt)
  BY SameSetting
<1>2. Typed(sim)'
  BY <1>1 DEF Good, Typed, PendingEvent, PortState
<1>3. NetSound(sim)'
  <2>1. (\A p \in Port : PortSound(sim, p))'
    BY <1>1, ZenonT(60) DEF Good, NetSound, PortSound, Homeward, Carried, Released, Sent
  <2>2. (\A e \in sim.events : EventSound(sim, e))'
    BY <1>1 DEF Good, NetSound, EventSound, Homeward, Carried, Released, Sent
  <2>3. OneService(sim)'
    BY <1>1 DEF Good, NetSound, OneService
  <2> QED BY <2>1, <2>2, <2>3 DEF NetSound
<1>4. TimersTrue(sim)'
  BY <1>1 DEF Good, TimersTrue, TimerTrue
<1>5. (\A f \in Flow : Received(sim, f) /\ Chained(sim, f))'
  BY <1>1 DEF Good, Received, Chained, Sent
<1>6. (\A f \in Flow : SenderSound(sim, f))'
  BY <1>1 DEF Good, SenderSound, Windowed, Timed, Awake, InRing
<1>7. AllRest(sim)'
  BY <1>1 DEF AllRest, Rests, AtRest, Released, Awake
<1> QED BY <1>2, <1>3, <1>4, <1>5, <1>6, <1>7 DEF Good

LEMMA DispatchGood ==
  ASSUME Settled, Good(sim), AllRest(sim), Dispatch
  PROVE  Good(sim') /\ AllRest(sim')
<1>1. PICK e \in sim.events :
        LET w == [sim EXCEPT !.events = @ \ {e}]
        IN  \/ e.type = "Inject"     /\ sim' = on_inject(w, e)
            \/ e.type = "TxComplete" /\ sim' = on_tx_complete(w, e)
            \/ e.type = "Arrive"     /\ sim' = on_arrive(w, e)
            \/ e.type = "Timeout"    /\ sim' = on_timeout(w, e)
  BY DEF Dispatch
<1> DEFINE w == Popped(sim, e)
<1>2. \/ e.type = "Inject"     /\ sim' = on_inject(w, e)
      \/ e.type = "TxComplete" /\ sim' = on_tx_complete(w, e)
      \/ e.type = "Arrive"     /\ sim' = on_arrive(w, e)
      \/ e.type = "Timeout"    /\ sim' = on_timeout(w, e)
  BY <1>1 DEF Popped
<1> HIDE DEF w
<1>3. CASE e.type = "Inject" /\ sim' = on_inject(w, e)
  BY <1>3, InjectGood DEF w
<1>4. CASE e.type = "TxComplete" /\ sim' = on_tx_complete(w, e)
  BY <1>4, TxCompleteGood DEF w
<1>5. CASE e.type = "Arrive" /\ sim' = on_arrive(w, e)
  BY <1>5, ArriveGood DEF w
<1>6. CASE e.type = "Timeout" /\ sim' = on_timeout(w, e)
  BY <1>6, TimeoutGood DEF w
<1> QED BY <1>2, <1>3, <1>4, <1>5, <1>6

LEMMA InitIInv == Init => IInv
<1> SUFFICES ASSUME Init PROVE IInv
  OBVIOUS
<1>1. Settled /\ sim = begin_run(Built)
  BY DEF Init, Settled
<1>2. DOMAIN Built = Fields
  BY DEF Built, Fields
<1>3. Good(sim) /\ AllRest(sim)
  BY <1>1, <1>2, BeginGood
<1> QED BY <1>1, <1>3 DEF IInv

LEMMA StepIInv == IInv /\ [Next]_vars => IInv'
<1> SUFFICES ASSUME IInv, [Next]_vars PROVE IInv'
  OBVIOUS
<1>1. Settled /\ Good(sim) /\ AllRest(sim)
  BY DEF IInv
<1>2. setting' = setting
  BY DEF Next, AdvanceClock, Dispatch, Rerun, Stop, vars
<1>3. Settled'
  BY <1>1, <1>2 DEF Settled
<1>4. Good(sim') /\ AllRest(sim')
  <2>1. CASE AdvanceClock
    BY <1>1, <2>1, ClockGood DEF AdvanceClock
  <2>2. CASE Dispatch
    BY <1>1, <2>2, DispatchGood
  <2>3. CASE Rerun
    <3>1. DOMAIN sim = Fields
      BY <1>1 DEF Good, Typed
    <3> QED BY <1>1, <2>3, <3>1, BeginGood DEF Rerun
  <2>4. CASE Stop
    BY <1>1, <2>4 DEF Stop, vars
  <2>5. CASE UNCHANGED vars
    BY <1>1, <2>5 DEF vars
  <2> QED BY <2>1, <2>2, <2>3, <2>4, <2>5 DEF Next
<1>5. Good(sim)' /\ AllRest(sim)'
  BY <1>2, <1>4, GoodPrimed
<1> QED BY <1>3, <1>5 DEF IInv

(* Whatever the scenarios, the typing of the simulator, the flow control   *)
(* of every sender and the bookkeeping of every receiver hold at every     *)
(* event: IInv is inductive.                                               *)
THEOREM Invariant == Spec => []IInv
BY InitIInv, StepIInv, PTL DEF Spec

LEMMA IInvRunAsserts == IInv => RunAsserts
<1> SUFFICES ASSUME IInv, NEW e \in sim.events
             PROVE  /\ e.time >= sim.now
                    /\ e.type = "Arrive" /\ is_host(e.port[2])
                         => e.port[2] = Home(e.pkt.flow, e.pkt.kind)
  BY DEF RunAsserts
<1>1. EventSound(sim, e)
  BY DEF IInv, Good, NetSound
<1> QED BY <1>1 DEF EventSound, Homeward

(* The assertions of the event loop never fail: no event is pending from   *)
(* before the clock, and a packet that reaches a host has reached its own. *)
THEOREM AssertsHold == Spec => []RunAsserts
BY Invariant, IInvRunAsserts, PTL

LEMMA IInvWaits == IInv => WaitsForDependency
<1> SUFFICES ASSUME IInv, NEW d \in Flow, spec[d].depends_on # 0
             PROVE  LET r == sim.result[spec[d].depends_on]
                    IN  IF r.complete THEN sim.result[d].start_ns = r.finish_ns
                        ELSE /\ sim.tx[d].next_seq = 0
                             /\ \A e \in sim.events : e.pkt.flow # d
  BY DEF WaitsForDependency
<1> DEFINE r == sim.result[spec[d].depends_on]
<1>1. Chained(sim, d) /\ NetSound(sim) /\ Settled /\ Typed(sim)
  BY DEF IInv, Good
<1>2. CASE r.complete
  BY <1>1, <1>2 DEF Chained
<1>3. CASE ~r.complete
  <2>1. sim.tx[d].next_seq = 0
    BY <1>1, <1>3 DEF Chained
  <2>2. ~Released(sim, d)
    BY <1>3 DEF Released
  <2>3. ASSUME NEW e \in sim.events, e.pkt.flow = d PROVE FALSE
    <3>1. EventSound(sim, e) /\ e.type \in EventType
      BY <1>1 DEF NetSound, Typed, PendingEvent
    <3>2. CASE e.type = "TxComplete"
      <4>1. d = 0
        BY <2>3, <3>1, <3>2 DEF EventSound, NoPacket
      <4> QED BY <1>1, <4>1, FlowFacts
    <3>3. CASE e.type = "Arrive"
      BY <2>2, <2>3, <3>1, <3>3 DEF EventSound, Homeward, Carried
    <3>4. CASE e.type \in {"Inject", "Timeout"}
      BY <2>2, <2>3, <3>1, <3>4 DEF EventSound
    <3> QED BY <3>1, <3>2, <3>3, <3>4 DEF EventType
  <2> QED BY <1>3, <2>1, <2>3
<1> QED BY <1>2, <1>3

(* A dependent flow does nothing before the flow it waits on completes,    *)
(* and its completion time is counted from that instant.                   *)
THEOREM DependentsWait == Spec => []WaitsForDependency
BY Invariant, IInvWaits, PTL

LEMMA IInvSettled == IInv => EndsSettled
<1> SUFFICES ASSUME IInv, sim.events = {}, NEW f \in Flow, ~sim.tx[f].failed,
                    spec[f].depends_on # 0 => sim.result[spec[f].depends_on].complete
             PROVE  sim.result[f].complete /\ sim.acked[f] = Index(f)
  BY DEF EndsSettled, Drained
<1> DEFINE t == sim.tx[f]
<1>1. /\ Settled /\ Typed(sim) /\ Received(sim, f) /\ Windowed(sim, f) /\ Timed(sim, f)
      /\ Rests(sim, f)
  BY DEF IInv, Good, SenderSound, AllRest
<1>2. sim.flying[f] = {}
  BY <1>1 DEF Timed
<1>3. t.in_flight = 0 /\ t.next_seq <= Packets(f)
      /\ 0 .. t.next_seq - 1 \subseteq InRing(t) \cup sim.acked[f]
  <2>1. Cardinality({}) = 0
    BY FS_EmptySet
  <2> QED BY <1>1, <1>2, <2>1 DEF Windowed
<1>4. t.next_seq \in Nat
  BY <1>1, FlowTyped DEF TxState
<1>5. Packets(f) \in Nat /\ Window(f) \in Nat \ {0}
  BY <1>1, PacketsFacts
<1>6. t.retx = <<>> /\ t.next_seq >= Packets(f)
  <2>1. AtRest(sim, f)
    BY <1>1 DEF Rests, Released
  <2>2. ~(t.in_flight >= Window(f))
    BY <1>3, <1>5
  <2>3. ~Awake(sim, f)
    BY DEF Awake
  <2> QED BY <2>1, <2>2, <2>3 DEF AtRest
<1>7. InRing(t) = {}
  BY <1>6 DEF InRing
<1>8. t.next_seq = Packets(f)
  BY <1>3, <1>4, <1>5, <1>6
<1>9. Index(f) \subseteq sim.acked[f]
  BY <1>3, <1>7, <1>8 DEF Index
<1> QED BY <1>1, <1>9 DEF Received

(* When the queue drains every flow is complete with all its packets       *)
(* acked, reported failed, or waiting on a flow that did not complete: no  *)
(* order of drops, timers and wake-ups strands a flow.                     *)
THEOREM RunsSettle == Spec => []EndsSettled
BY Invariant, IInvSettled, PTL

-----------------------------------------------------------------------------
(* The handlers depend on the configuration alone, which no step changes *)

LEMMA SameConfig ==
  ASSUME setting' = setting
  PROVE  /\ \A p : link(p)' = link(p)
         /\ \A h : nic(h)' = nic(h)
         /\ rto_ns' = rto_ns /\ ack_bytes' = ack_bytes
         /\ \A f : period_ns(f)' = period_ns(f)
         /\ \A pkt, u : select(pkt, u)' = select(pkt, u)
         /\ \A f, i : DataPacket(f, i)' = DataPacket(f, i) /\ AckPacket(f, i)' = AckPacket(f, i)
         /\ \A n : GivesUp(n)' <=> GivesUp(n)
         /\ \A f : StartsAtOnce(f)' <=> StartsAtOnce(f)
<1>1. cfg' = cfg /\ spec' = spec /\ (\A u : is_host(u)' <=> is_host(u)) /\ (\A f, k : Home(f, k)' = Home(f, k))
  BY SameSetting
<1>2. (\A p : link(p)' = link(p)) /\ (\A h : nic(h)' = nic(h))
  BY <1>1 DEF link, nic
<1>3. rto_ns' = rto_ns /\ ack_bytes' = ack_bytes /\ max_attempts' = max_attempts
  BY <1>1 DEF rto_ns, ack_bytes, max_attempts
<1>4. \A f : period_ns(f)' = period_ns(f)
  BY <1>1, <1>2 DEF period_ns
<1>5. \A f, k : Key(f, k)' = Key(f, k)
  BY <1>1 DEF Key
<1>6. \A u, h : candidates(u, h)' = candidates(u, h)
  BY <1>1 DEF candidates
<1>7. \A pkt, u : select(pkt, u)' = select(pkt, u)
  BY <1>1, <1>5, <1>6 DEF select
<1>8. \A f, i : DataPacket(f, i)' = DataPacket(f, i) /\ AckPacket(f, i)' = AckPacket(f, i)
  BY <1>1, <1>3 DEF DataPacket, AckPacket
<1>9. (\A n : GivesUp(n)' <=> GivesUp(n)) /\ (\A f : StartsAtOnce(f)' <=> StartsAtOnce(f))
  BY <1>1, <1>3 DEF GivesUp, StartsAtOnce
<1> QED BY <1>2, <1>3, <1>4, <1>7, <1>8, <1>9

LEMMA SameSend ==
  ASSUME setting' = setting
  PROVE  /\ \A w, p, pkt : enqueue(w, p, pkt)' = enqueue(w, p, pkt)
         /\ \A w, e : on_tx_complete(w, e)' = on_tx_complete(w, e)
         /\ \A w, f : Turn(w, f)' = Turn(w, f)
<1>1. \A w, p : start_tx(w, p)' = start_tx(w, p)
  BY SameConfig DEF start_tx
<1>2. \A w, p : StartIdle(w, p)' = StartIdle(w, p)
  BY <1>1 DEF StartIdle
<1>3. \A w, p, pkt : enqueue(w, p, pkt)' = enqueue(w, p, pkt)
  BY <1>2, SameConfig DEF enqueue
<1>4. \A w, e : on_tx_complete(w, e)' = on_tx_complete(w, e)
  <2> TAKE w, e
  <2> DEFINE v(d) == Push([w EXCEPT !.port[e.port].sent = @ + 1],
                          Event(w.now + d, "Arrive", e.port, w.port[e.port].in_flight, 0))
             y(u) == IF u.port[e.port].waiting # <<>> THEN start_tx(u, e.port)
                     ELSE [u EXCEPT !.port[e.port].busy = FALSE]
             d == link(e.port).prop_delay_ns
  <2>1. on_tx_complete(w, e) = y(v(d)) /\ on_tx_complete(w, e)' = y(v(d))'
    BY DEF on_tx_complete
  <2>2. d' = d
    BY SameConfig
  <2> HIDE DEF v, d
  <2>3. y(v(d))' = y(v(d))
    BY <1>1, <2>2
  <2> QED BY <2>1, <2>3
<1>5. \A w, f, i : SetTimer(w, f, i)' = SetTimer(w, f, i)
  BY SameConfig DEF SetTimer
<1>6. \A w, f, i : send_packet(w, f, i)' = send_packet(w, f, i)
  <2> TAKE w, f, i
  <2> DEFINE again == IF w.attempt[f][i] > 0 THEN 1 ELSE 0
             v(n, per) == [w EXCEPT !.flying[f] = @ \cup {i},
                                    !.tx[f].in_flight = @ + 1,
                                    !.tx[f].next_send_ns = w.now + per,
                                    !.injected["Data"] = @ + n,
                                    !.result[f].packets_retransmitted = @ + again]
             pkt == DataPacket(f, i)
             per == period_ns(f)
             h == nic(spec[f].src)
  <2>1. /\ send_packet(w, f, i) = enqueue(SetTimer(v(pkt.bytes, per), f, i), h, pkt)
        /\ send_packet(w, f, i)' = enqueue(SetTimer(v(pkt.bytes, per), f, i), h, pkt)'
    BY DEF send_packet
  <2>2. pkt' = pkt /\ per' = per /\ h' = h
    BY SameSetting, SameConfig
  <2> HIDE DEF v, pkt, per, h
  <2> QED BY <1>3, <1>5, <2>1, <2>2
<1>7. \A w, f : Turn(w, f)' = Turn(w, f)
  BY <1>6, SameSetting DEF Turn
<1> QED BY <1>3, <1>4, <1>7

-----------------------------------------------------------------------------
(* What the loops come to *)

Spans(s, N) == s = [n \in 0 .. N |-> s[n]]

LEMMA LoopUnique ==
  ASSUME NEW loop, NEW f, NEW w, NEW N \in Nat, NEW t, IsLoop(loop, f, w, N, t),
         NEW s, Spans(s, N), s[0] = w,
         \A n \in 1 .. N : s[n] = LoopBody(loop, f, s[n - 1], n)
  PROVE  s = t
<1>1. t[0] = w /\ t = [n \in 0 .. N |-> t[n]]
      /\ \A n \in 1 .. N : t[n] = LoopBody(loop, f, t[n - 1], n)
  <2>1. 0 \in 0 .. N /\ \A n \in 1 .. N : n \in 0 .. N /\ n # 0
    OBVIOUS
  <2> QED BY <2>1 DEF IsLoop
<1> DEFINE T == {n \in 0 .. N : s[n] # t[n]}
<1>2. T = {}
  <2>1. SUFFICES ASSUME T # {} PROVE FALSE
    OBVIOUS
  <2> DEFINE m == Min(T)
  <2>2. m \in T /\ \A n \in T : m <= n
    <3>1. T \subseteq Nat
      OBVIOUS
    <3> HIDE DEF T
    <3> QED BY <2>1, <3>1, NatMinimum
  <2>3. m \in 0 .. N /\ s[m] # t[m]
    BY <2>2
  <2> HIDE DEF m
  <2>4. m # 0
    BY <1>1, <2>3
  <2>5. m \in 1 .. N /\ m - 1 \in 0 .. N /\ m - 1 \notin T
    BY <2>2, <2>3, <2>4
  <2>6. s[m - 1] = t[m - 1]
    BY <2>5
  <2> QED BY <1>1, <2>3, <2>5, <2>6
<1>3. \A n \in 0 .. N : s[n] = t[n]
  BY <1>2
<1> QED BY <1>1, <1>3 DEF Spans

LEMMA LoopSame ==
  ASSUME setting' = setting, NEW loop, NEW f, NEW w, NEW N \in Nat,
         \A v, n : LoopBody(loop, f, v, n)' = LoopBody(loop, f, v, n),
         NEW t, IsLoop(loop, f, w, N, t)', NEW s, IsLoop(loop, f, w, N, s)
  PROVE  s = t
<1>1. t = [n \in 0 .. N |-> IF n = 0 THEN w ELSE LoopBody(loop, f, t[n - 1], n)']
  BY DEF IsLoop
<1>2. \A n \in 0 .. N : t[n] = IF n = 0 THEN w ELSE LoopBody(loop, f, t[n - 1], n)
  BY <1>1
<1>3. t = [n \in 0 .. N |-> t[n]] /\ t[0] = w
  <2>1. 0 \in 0 .. N
    OBVIOUS
  <2> QED BY <1>1, <1>2, <2>1
<1>4. \A n \in 1 .. N : t[n] = LoopBody(loop, f, t[n - 1], n)
  <2>1. \A n \in 1 .. N : n \in 0 .. N /\ n # 0
    OBVIOUS
  <2> QED BY <1>2, <2>1
<1>5. Spans(t, N)
  BY <1>3 DEF Spans
<1>6. t[0] = w
  BY <1>3
<1> QED BY <1>4, <1>5, <1>6, LoopUnique

SendLoopShape ==
  \A w, f, N : Settled /\ f \in Flow /\ N = Window(f) =>
    /\ N \in Nat
    /\ \E t : IsLoop("send", f, w, N, t) /\ SendLoop(w, f) = t[N]

LEMMA SendLoopIs == SendLoopShape
<1> SUFFICES ASSUME NEW w, NEW f, NEW N, Settled /\ f \in Flow /\ N = Window(f)
             PROVE  /\ N \in Nat
                    /\ \E t : IsLoop("send", f, w, N, t) /\ SendLoop(w, f) = t[N]
  BY DEF SendLoopShape
<1> DEFINE P(t) == t = [n \in 0 .. N |-> IF n = 0 THEN w ELSE Turn(t[n - 1], f)]
           Q(t) == t = [n \in 0 .. Window(f) |-> IF n = 0 THEN w ELSE Turn(t[n - 1], f)]
           a == CHOOSE t : Q(t)
<1>1. N \in Nat
  BY PacketsFacts
<1>2. SendLoop(w, f) = a[N]
  BY DEF SendLoop
<1>3. \A t : IsLoop("send", f, w, N, t) <=> P(t)
  BY DEF IsLoop, LoopBody
<1>4. \E t : P(t)
  BY <1>1, <1>3, LoopExists
<1>5. \A t : P(t) <=> Q(t)
  OBVIOUS
<1>6. Q(a)
  BY <1>4, <1>5
<1> HIDE DEF a, P, Q
<1> QED BY <1>1, <1>2, <1>3, <1>5, <1>6

BeginShape ==
  \A w, N : Settled /\ w = Fresh /\ N = Len(spec) =>
    /\ N \in Nat
    /\ \E t : IsLoop("begin", 0, w, N, t) /\ begin_run(Fresh) = t[N]

LEMMA BeginIs == BeginShape
<1> SUFFICES ASSUME NEW w, NEW N, Settled /\ w = Fresh /\ N = Len(spec)
             PROVE  /\ N \in Nat
                    /\ \E t : IsLoop("begin", 0, w, N, t) /\ begin_run(Fresh) = t[N]
  BY DEF BeginShape
<1> DEFINE P(t) == t = [n \in 0 .. N |-> IF n = 0 THEN w ELSE PushStart(t[n - 1], n)]
           Q(t) == t = [n \in 0 .. Len(spec) |-> IF n = 0 THEN Cleared(Fresh) ELSE PushStart(t[n - 1], n)]
           a == CHOOSE t : Q(t)
<1>1. N \in Nat
  BY SpecFacts
<1>2. begin_run(Fresh) = a[N]
  BY DEF begin_run
<1>3. \A t : IsLoop("begin", 0, w, N, t) <=> P(t)
  BY DEF IsLoop, LoopBody
<1>4. \E t : P(t)
  BY <1>1, <1>3, LoopExists
<1>5. Cleared(Fresh) = w
  BY FreshKept, ClearedFresh DEF Kept, Typed
<1>6. \A t : P(t) <=> Q(t)
  BY <1>5
<1>7. Q(a)
  BY <1>4, <1>6
<1> HIDE DEF a, P, Q
<1> QED BY <1>1, <1>2, <1>3, <1>6, <1>7

CompleteShape ==
  \A w, f, N : Settled /\ f \in Flow /\ N = Len(Dependents(f)) =>
    /\ N \in Nat
    /\ \E t : IsLoop("release", f, Completed(w, f), N, t) /\ complete_flow(w, f) = t[N]

LEMMA CompleteIs == CompleteShape
<1> SUFFICES ASSUME NEW w, NEW f, NEW N, Settled /\ f \in Flow /\ N = Len(Dependents(f))
             PROVE  /\ N \in Nat
                    /\ \E t : IsLoop("release", f, Completed(w, f), N, t)
                              /\ complete_flow(w, f) = t[N]
  BY DEF CompleteShape
<1> DEFINE D == Dependents(f)
           x == Completed(w, f)
           P(t) == t = [n \in 0 .. N |-> IF n = 0 THEN x ELSE release_flow(t[n - 1], D[n])]
           Q(t) == t = [n \in 0 .. Len(D) |-> IF n = 0 THEN x ELSE release_flow(t[n - 1], D[n])]
           a == CHOOSE t : Q(t)
<1>1. N \in Nat
  BY DependentsFacts
<1>2. complete_flow(w, f) = a[N]
  BY DEF complete_flow, Completed
<1> HIDE DEF x
<1>3. \A t : IsLoop("release", f, x, N, t) <=> P(t)
  BY DEF IsLoop, LoopBody
<1>4. \E t : P(t)
  BY <1>1, <1>3, LoopExists
<1>5. \A t : P(t) <=> Q(t)
  OBVIOUS
<1>6. Q(a)
  BY <1>4, <1>5
<1> HIDE DEF a, P, Q
<1> QED BY <1>1, <1>2, <1>3, <1>5, <1>6 DEF x

LEMMA SameSendLoop ==
  ASSUME setting' = setting, Settled, NEW w, NEW f \in Flow
  PROVE  SendLoop(w, f)' = SendLoop(w, f)
<1>0. PICK N : N = Window(f)
  OBVIOUS
<1>1. SendLoopShape /\ SendLoopShape'
  BY SendLoopIs, PTL
<1>2. Settled' /\ f \in Flow' /\ N = Window(f)'
  BY <1>0, SameSetting DEF Settled
<1>3. \A v, n : LoopBody("send", f, v, n)' = LoopBody("send", f, v, n)
  BY SameSend DEF LoopBody
<1>4. N \in Nat /\ \E t : IsLoop("send", f, w, N, t) /\ SendLoop(w, f) = t[N]
  BY <1>0, <1>1 DEF SendLoopShape
<1>5. \E t : IsLoop("send", f, w, N, t)' /\ SendLoop(w, f)' = t[N]
  BY <1>1, <1>2 DEF SendLoopShape
<1>6. PICK t : IsLoop("send", f, w, N, t) /\ SendLoop(w, f) = t[N]
  BY <1>4
<1>7. PICK s : IsLoop("send", f, w, N, s)' /\ SendLoop(w, f)' = s[N]
  BY <1>5
<1>8. s = t
  BY <1>3, <1>4, <1>6, <1>7, LoopSame
<1> QED BY <1>6, <1>7, <1>8

DependentsShape ==
  \A f, D : Settled /\ f \in Flow /\ D = Dependents(f) =>
    /\ D \in Seq(WaitFor(f))
    /\ Len(D) \in Nat /\ Len(D) = dependents_offset(f + 1) - dependents_offset(f)
    /\ \A k \in 1 .. Len(D) : D[k] \in WaitFor(f) /\ slot(D[k]) = k + dependents_offset(f)

LEMMA DependentsIs == DependentsShape
BY DependentsFacts DEF DependentsShape

LEMMA SameDependents ==
  ASSUME setting' = setting, Settled, NEW f \in Flow
  PROVE  Dependents(f)' = Dependents(f)
<1>1. spec' = spec /\ Flow' = Flow
  BY SameSetting
<1>2. DependentsShape /\ DependentsShape'
  BY DependentsIs, PTL
<1>3. Settled' /\ f \in Flow'
  BY <1>1 DEF Settled
<1>4. \A g : WaitFor(g)' = WaitFor(g)
  BY <1>1 DEF WaitFor
<1>5. \A g : dependents_offset(g)' = dependents_offset(g)
  <2> TAKE g
  <2> DEFINE S == {d \in Flow : spec[d].depends_on \in 1 .. g - 1}
  <2>1. S' = S
    BY <1>1
  <2>2. dependents_offset(g) = Cardinality(S) /\ dependents_offset(g)' = Cardinality(S')
    BY DEF dependents_offset
  <2> HIDE DEF S
  <2> QED BY <2>1, <2>2
<1>6. \A d : slot(d)' = slot(d)
  <2> TAKE d
  <2> DEFINE g == spec[d].depends_on
             S == {c \in 1 .. d : spec[c].depends_on = g}
  <2>1. S' = S /\ g' = g
    BY <1>1
  <2>2. /\ slot(d) = dependents_offset(g) + Cardinality(S)
        /\ slot(d)' = dependents_offset(g)' + Cardinality(S')
    BY DEF slot
  <2> HIDE DEF S
  <2>3. dependents_offset(g)' = dependents_offset(g)
    BY <1>5, <2>1
  <2> QED BY <2>1, <2>2, <2>3
<1>7. PICK D : D = Dependents(f)
  OBVIOUS
<1>8. PICK E : E = Dependents(f)'
  OBVIOUS
<1> DEFINE a == dependents_offset(f)
           b == dependents_offset(f + 1)
<1>9. /\ D \in Seq(WaitFor(f)) /\ Len(D) \in Nat /\ Len(D) = b - a
      /\ \A k \in 1 .. Len(D) : D[k] \in WaitFor(f) /\ slot(D[k]) = k + a
  BY <1>2, <1>7 DEF DependentsShape
<1>10. /\ E \in Seq(WaitFor(f)) /\ Len(E) \in Nat /\ Len(E) = b - a
       /\ \A k \in 1 .. Len(E) : E[k] \in WaitFor(f) /\ slot(E[k]) = k + a
  BY <1>2, <1>3, <1>4, <1>5, <1>6, <1>8 DEF DependentsShape
<1> HIDE DEF a, b
<1>11. \A k \in 1 .. Len(D) : D[k] = E[k]
  BY <1>9, <1>10, SlotInjective
<1>12. D = E
  BY <1>9, <1>10, <1>11
<1> QED BY <1>7, <1>8, <1>12

LEMMA SameComplete ==
  ASSUME setting' = setting, Settled, NEW w, NEW f \in Flow
  PROVE  complete_flow(w, f)' = complete_flow(w, f)
<1>0. PICK N : N = Len(Dependents(f))
  OBVIOUS
<1>1. CompleteShape /\ CompleteShape'
  BY CompleteIs, PTL
<1>2. Settled' /\ f \in Flow' /\ N = Len(Dependents(f))'
  BY <1>0, SameSetting, SameDependents DEF Settled
<1>3. \A v, n : LoopBody("release", f, v, n)' = LoopBody("release", f, v, n)
  BY SameDependents DEF LoopBody
<1> DEFINE x == Completed(w, f)
<1>4. N \in Nat /\ \E t : IsLoop("release", f, x, N, t) /\ complete_flow(w, f) = t[N]
  BY <1>0, <1>1 DEF CompleteShape
<1>5. \E t : IsLoop("release", f, x, N, t)' /\ complete_flow(w, f)' = t[N]
  BY <1>1, <1>2 DEF CompleteShape
<1>6. PICK t : IsLoop("release", f, x, N, t) /\ complete_flow(w, f) = t[N]
  BY <1>4
<1>7. PICK s : IsLoop("release", f, x, N, s)' /\ complete_flow(w, f)' = s[N]
  BY <1>5
<1> HIDE DEF x
<1>8. s = t
  BY <1>3, <1>4, <1>6, <1>7, LoopSame
<1> QED BY <1>6, <1>7, <1>8

LEMMA SameBegin ==
  ASSUME setting' = setting, Settled
  PROVE  begin_run(Fresh)' = begin_run(Fresh)
<1>0. PICK N, x : N = Len(spec) /\ x = Fresh
  OBVIOUS
<1>1. BeginShape /\ BeginShape'
  BY BeginIs, PTL
<1>2. Settled' /\ N = Len(spec)'
  BY <1>0, SameSetting DEF Settled
<1>3. Fresh' = Fresh
  <2>1. /\ Port' = Port /\ Flow' = Flow /\ spec' = spec
        /\ \A f \in Flow : Index(f)' = Index(f)
    BY SameSetting
  <2>2. [p \in Port |-> [waiting |-> <<>>, busy |-> FALSE, in_flight |-> NoPacket,
                         sent |-> 0, dropped |-> 0]]'
          = [p \in Port |-> [waiting |-> <<>>, busy |-> FALSE, in_flight |-> NoPacket,
                             sent |-> 0, dropped |-> 0]]
    BY <2>1
  <2>3. [f \in Flow |-> [i \in Index(f) |-> 0]]' = [f \in Flow |-> [i \in Index(f) |-> 0]]
    BY <2>1
  <2>4. [f \in Flow |->
           [start_ns |-> spec[f].start_ns, finish_ns |-> 0,
            delivered_bytes |-> 0, packets_delivered |-> 0,
            packets_dropped |-> 0, packets_retransmitted |-> 0,
            complete |-> FALSE, failed |-> FALSE]]'
         = [f \in Flow |->
              [start_ns |-> spec[f].start_ns, finish_ns |-> 0,
               delivered_bytes |-> 0, packets_delivered |-> 0,
               packets_dropped |-> 0, packets_retransmitted |-> 0,
               complete |-> FALSE, failed |-> FALSE]]
    BY <2>1
  <2> QED BY <2>1, <2>2, <2>3, <2>4 DEF Fresh
<1>4. \A v, n : LoopBody("begin", 0, v, n)' = LoopBody("begin", 0, v, n)
  <2>1. \A v, n : PushStart(v, n)' = PushStart(v, n)
    BY SameSetting, SameConfig DEF PushStart
  <2> QED BY <2>1 DEF LoopBody
<1>5. N \in Nat /\ \E t : IsLoop("begin", 0, x, N, t) /\ begin_run(Fresh) = t[N]
  BY <1>0, <1>1 DEF BeginShape
<1>6. \E t : IsLoop("begin", 0, x, N, t)' /\ begin_run(Fresh)' = t[N]
  BY <1>0, <1>1, <1>2, <1>3 DEF BeginShape
<1>7. PICK t : IsLoop("begin", 0, x, N, t) /\ begin_run(Fresh) = t[N]
  BY <1>5
<1>8. PICK s : IsLoop("begin", 0, x, N, s)' /\ begin_run(Fresh)' = s[N]
  BY <1>6
<1>9. s = t
  BY <1>4, <1>5, <1>7, <1>8, LoopSame
<1> QED BY <1>7, <1>8, <1>9

LEMMA SameHandlers ==
  ASSUME setting' = setting, Settled, NEW w, NEW e, e.pkt.flow \in Flow
  PROVE  /\ on_inject(w, e)' = on_inject(w, e)
         /\ on_timeout(w, e)' = on_timeout(w, e)
         /\ on_arrive(w, e)' = on_arrive(w, e)
<1>0. PICK f : f = e.pkt.flow /\ f \in Flow
  OBVIOUS
<1>1. \A v : try_send(v, f)' = try_send(v, f)
  BY <1>0, SameSendLoop DEF try_send
<1>2. on_inject(w, e)' = on_inject(w, e)
  BY <1>0, <1>1 DEF on_inject
<1>3. on_timeout(w, e)' = on_timeout(w, e)
  BY <1>0, <1>1, SameConfig DEF on_timeout
<1>4. \A v, i : on_ack(v, f, i)' = on_ack(v, f, i)
  BY <1>1 DEF on_ack
<1>5. \A v, i, bytes : Deliver(v, f, i, bytes)' = Deliver(v, f, i, bytes)
  <2> TAKE v, i, bytes
  <2> DEFINE x == [v EXCEPT !.delivered[f] = @ \cup {i},
                            !.result[f].packets_delivered = @ + 1,
                            !.result[f].delivered_bytes = @ + bytes]
             y == IF i \in v.delivered[f] THEN v
                  ELSE IF x.result[f].packets_delivered = Packets(f) THEN complete_flow(x, f)
                  ELSE x
  <2>1. Deliver(v, f, i, bytes) = y /\ Deliver(v, f, i, bytes)' = y'
    BY DEF Deliver
  <2> HIDE DEF x
  <2>2. complete_flow(x, f)' = complete_flow(x, f) /\ Packets(f)' = Packets(f)
    BY <1>0, SameComplete, SameSetting
  <2> QED BY <2>1, <2>2
<1>6. \A v, i, bytes : on_data_arrival(v, f, i, bytes)' = on_data_arrival(v, f, i, bytes)
  <2> TAKE v, i, bytes
  <2> DEFINE x == [v EXCEPT !.received["Data"] = @ + bytes]
             y(z, n) == [z EXCEPT !.injected["Ack"] = @ + n]
             z == Deliver(x, f, i, bytes)
             h == nic(spec[f].dst)
             pkt == AckPacket(f, i)
  <2>1. /\ on_data_arrival(v, f, i, bytes) = enqueue(y(z, ack_bytes), h, pkt)
        /\ on_data_arrival(v, f, i, bytes)' = enqueue(y(z, ack_bytes), h, pkt)'
    BY DEF on_data_arrival
  <2> HIDE DEF x
  <2>2. z' = z /\ h' = h /\ pkt' = pkt /\ ack_bytes' = ack_bytes
    BY <1>5, SameSetting, SameConfig
  <2> HIDE DEF y, z, h, pkt
  <2> QED BY <2>1, <2>2, SameSend
<1>7. on_arrive(w, e)' = on_arrive(w, e)
  BY <1>0, <1>4, <1>6, SameSetting, SameConfig, SameSend DEF on_arrive
<1> QED BY <1>2, <1>3, <1>7

-----------------------------------------------------------------------------
(* A run is determined by the configuration *)

(* What the handlers need to know of the pending events. *)
Apt(w) == /\ w.now \in Nat
          /\ \A e \in w.events : /\ e.time \in Nat /\ e.seq \in Nat
                                 /\ e.type # "TxComplete" => e.pkt.flow \in Flow

IsFirst(w, e) == e.time <= w.now /\ \A x \in w.events \ {e} : Before(e, x)

Handles(w, e, v) ==
  \/ e.type = "Inject"     /\ v = on_inject(Popped(w, e), e)
  \/ e.type = "TxComplete" /\ v = on_tx_complete(Popped(w, e), e)
  \/ e.type = "Arrive"     /\ v = on_arrive(Popped(w, e), e)
  \/ e.type = "Timeout"    /\ v = on_timeout(Popped(w, e), e)

Waits(w) == \A e \in w.events : e.time > w.now

(* A step of the loop, of any state of the object. *)
Follows(w, v) ==
  /\ w.events # {}
  /\ \/ Waits(w) /\ v = [w EXCEPT !.now = Min({e.time : e \in w.events})]
     \/ \E e \in w.events : IsFirst(w, e) /\ Handles(w, e, v)

IsRun(t, n) == /\ t[0] = begin_run(Fresh)
               /\ \A k \in 1 .. n : Apt(t[k - 1]) /\ Follows(t[k - 1], t[k])

RunTo(w) == \E n, t : n \in Nat /\ IsRun(t, n) /\ t[n] = w

OutcomeOf(w) ==
  <<w.result,
    [virtual_end_ns   |-> w.now,
     flows_complete   |-> Cardinality({f \in Flow : w.result[f].complete}),
     flows_incomplete |-> Cardinality({f \in Flow : ~w.result[f].complete}),
     flows_failed     |-> Cardinality({f \in Flow : w.result[f].failed})],
    w.injected, w.received, w.dropped>>

(* What the first run has left is the outcome of a run. *)
RepeatInv == /\ IInv /\ RunTo(sim)
             /\ first # <<>> => \E w : RunTo(w) /\ w.events = {} /\ first = OutcomeOf(w)

LEMMA Deterministic ==
  ASSUME NEW w, Apt(w), NEW u, Follows(w, u), NEW v, Follows(w, v)
  PROVE  u = v
<1>1. ASSUME Waits(w), NEW e \in w.events, IsFirst(w, e) PROVE FALSE
  BY <1>1 DEF Waits, IsFirst, Apt
<1>2. ASSUME NEW d \in w.events, IsFirst(w, d), NEW e \in w.events, IsFirst(w, e) PROVE d = e
  <2>1. SUFFICES ASSUME d # e PROVE FALSE
    OBVIOUS
  <2>2. Before(d, e) /\ Before(e, d)
    BY <1>2, <2>1 DEF IsFirst
  <2>3. d.time \in Nat /\ d.seq \in Nat /\ e.time \in Nat /\ e.seq \in Nat
    BY DEF Apt
  <2> QED BY <2>2, <2>3 DEF Before
<1>3. \A e : Handles(w, e, u) /\ Handles(w, e, v) => u = v
  BY DEF Handles
<1> QED BY <1>1, <1>2, <1>3 DEF Follows

LEMMA RunsMeet ==
  ASSUME NEW u, RunTo(u), u.events = {}, NEW v, RunTo(v), v.events = {}
  PROVE  u = v
<1>1. PICK n, t : n \in Nat /\ IsRun(t, n) /\ t[n] = u
  BY DEF RunTo
<1>2. PICK m, s : m \in Nat /\ IsRun(s, m) /\ s[m] = v
  BY DEF RunTo
<1> DEFINE T == {k \in Nat : k <= n /\ k <= m /\ t[k] # s[k]}
<1>3. T = {}
  <2>1. SUFFICES ASSUME T # {} PROVE FALSE
    OBVIOUS
  <2> DEFINE k == Min(T)
  <2>2. k \in T /\ \A j \in T : k <= j
    <3>1. T \subseteq Nat
      OBVIOUS
    <3> HIDE DEF T
    <3> QED BY <2>1, <3>1, NatMinimum
  <2>3. k \in Nat /\ k <= n /\ k <= m /\ t[k] # s[k]
    BY <2>2
  <2> HIDE DEF k
  <2>4. k # 0
    BY <1>1, <1>2, <2>3 DEF IsRun
  <2>5. k \in 1 .. n /\ k \in 1 .. m /\ k - 1 \in Nat /\ k - 1 <= n /\ k - 1 <= m /\ ~(k <= k - 1)
    BY <1>1, <1>2, <2>3, <2>4
  <2>6. t[k - 1] = s[k - 1]
    BY <2>2, <2>5
  <2>7. Apt(t[k - 1]) /\ Follows(t[k - 1], t[k]) /\ Follows(s[k - 1], s[k])
    BY <1>1, <1>2, <2>5 DEF IsRun
  <2> QED BY <2>3, <2>6, <2>7, Deterministic
<1>4. \A x : ~Follows(u, x) /\ ~Follows(v, x)
  BY DEF Follows
<1>5. CASE n < m
  <2>1. n + 1 \in 1 .. m /\ (n + 1) - 1 = n /\ n \in Nat /\ n <= n /\ n <= m
    BY <1>1, <1>2, <1>5
  <2>2. Follows(s[(n + 1) - 1], s[n + 1])
    BY <1>2, <2>1 DEF IsRun
  <2>3. s[n] = u
    BY <1>1, <1>3, <2>1
  <2> QED BY <1>4, <2>1, <2>2, <2>3
<1>6. CASE m < n
  <2>1. m + 1 \in 1 .. n /\ (m + 1) - 1 = m /\ m \in Nat /\ m <= m /\ m <= n
    BY <1>1, <1>2, <1>6
  <2>2. Follows(t[(m + 1) - 1], t[m + 1])
    BY <1>1, <2>1 DEF IsRun
  <2>3. t[m] = v
    BY <1>2, <1>3, <2>1
  <2> QED BY <1>4, <2>1, <2>2, <2>3
<1>7. CASE n = m
  <2>1. n \in Nat /\ n <= n /\ n <= m
    BY <1>1, <1>7
  <2> QED BY <1>1, <1>2, <1>3, <1>7, <2>1
<1> QED BY <1>1, <1>2, <1>5, <1>6, <1>7

LEMMA RunStarts == RunTo(begin_run(Fresh))
<1> DEFINE t == [k \in 0 .. 0 |-> begin_run(Fresh)]
<1>1. IsRun(t, 0) /\ t[0] = begin_run(Fresh)
  BY DEF IsRun
<1>2. 0 \in Nat
  OBVIOUS
<1> HIDE DEF t
<1> QED BY <1>1, <1>2 DEF RunTo

LEMMA RunGoesOn ==
  ASSUME NEW w, RunTo(w), Apt(w), NEW v, Follows(w, v)
  PROVE  RunTo(v)
<1>1. PICK n, t : n \in Nat /\ IsRun(t, n) /\ t[n] = w
  BY DEF RunTo
<1> DEFINE m == n + 1
           s == [k \in 0 .. m |-> IF k = m THEN v ELSE t[k]]
<1>2. m \in Nat /\ m # 0 /\ n \in 0 .. m /\ n # m /\ m \in 0 .. m /\ 0 \in 0 .. m /\ m - 1 = n
  BY <1>1
<1>3. s[m] = v /\ s[0] = t[0] /\ s[n] = w
  BY <1>1, <1>2
<1>4. ASSUME NEW k \in 1 .. m
      PROVE  Apt(s[k - 1]) /\ Follows(s[k - 1], s[k])
  <2>1. CASE k = m
    BY <1>2, <1>3, <2>1
  <2>2. CASE k # m
    <3>1. k \in 1 .. n /\ k \in 0 .. m /\ k - 1 \in 0 .. m /\ k - 1 # m
      BY <1>1, <2>2
    <3>2. s[k] = t[k] /\ s[k - 1] = t[k - 1]
      BY <2>2, <3>1
    <3> QED BY <1>1, <3>1, <3>2 DEF IsRun
  <2> QED BY <2>1, <2>2
<1> HIDE DEF s
<1>5. IsRun(s, m)
  BY <1>1, <1>3, <1>4 DEF IsRun
<1> QED BY <1>2, <1>3, <1>5 DEF RunTo

LEMMA SameRuns ==
  ASSUME setting' = setting, Settled
  PROVE  \A w : RunTo(w)' <=> RunTo(w)
<1>1. Flow' = Flow /\ begin_run(Fresh)' = begin_run(Fresh)
  BY SameSetting, SameBegin
<1>2. \A w : Apt(w)' <=> Apt(w)
  BY <1>1 DEF Apt
<1>3. ASSUME NEW w, Apt(w), NEW e \in w.events, NEW v
      PROVE  Handles(w, e, v)' <=> Handles(w, e, v)
  <2>1. on_tx_complete(Popped(w, e), e)' = on_tx_complete(Popped(w, e), e)
    BY SameSend
  <2>2. CASE e.type = "TxComplete"
    BY <2>1, <2>2 DEF Handles
  <2>3. CASE e.type # "TxComplete"
    <3>1. e.pkt.flow \in Flow
      BY <1>3, <2>3 DEF Apt
    <3>2. /\ on_inject(Popped(w, e), e)' = on_inject(Popped(w, e), e)
          /\ on_timeout(Popped(w, e), e)' = on_timeout(Popped(w, e), e)
          /\ on_arrive(Popped(w, e), e)' = on_arrive(Popped(w, e), e)
      BY <3>1, SameHandlers
    <3> QED BY <2>3, <3>2 DEF Handles
  <2> QED BY <2>2, <2>3
<1>4. ASSUME NEW w, Apt(w), NEW v
      PROVE  Follows(w, v)' <=> Follows(w, v)
  BY <1>3, <1>4 DEF Follows
<1>5. \A t, n : IsRun(t, n)' <=> IsRun(t, n)
  BY <1>1, <1>2, <1>4 DEF IsRun
<1> QED BY <1>5 DEF RunTo

LEMMA SameOutcome ==
  ASSUME setting' = setting
  PROVE  \A w : OutcomeOf(w)' = OutcomeOf(w)
<1> TAKE w
<1> DEFINE A == {f \in Flow : w.result[f].complete}
           B == {f \in Flow : ~w.result[f].complete}
           C == {f \in Flow : w.result[f].failed}
           y(a, b, c) == <<w.result,
                           [virtual_end_ns |-> w.now, flows_complete |-> Cardinality(a),
                            flows_incomplete |-> Cardinality(b), flows_failed |-> Cardinality(c)],
                           w.injected, w.received, w.dropped>>
<1>1. A' = A /\ B' = B /\ C' = C
  BY SameSetting
<1>2. OutcomeOf(w) = y(A, B, C) /\ OutcomeOf(w)' = y(A, B, C)'
  BY DEF OutcomeOf
<1> HIDE DEF A, B, C, y
<1> QED BY <1>1, <1>2

LEMMA GoodApt ==
  ASSUME Settled, NEW w, Good(w)
  PROVE  Apt(w)
<1>1. Typed(w) /\ \A e \in w.events : EventSound(w, e)
  BY DEF Good, NetSound
<1>2. w.now \in Nat /\ w.events \subseteq PendingEvent
  BY <1>1 DEF Typed
<1>3. ASSUME NEW e \in w.events
      PROVE  /\ e.time \in Nat /\ e.seq \in Nat
             /\ e.type # "TxComplete" => e.pkt.flow \in Flow
  <2>1. e.time \in Nat /\ e.seq \in Nat /\ e.type \in EventType /\ EventSound(w, e)
    BY <1>1, <1>2 DEF PendingEvent
  <2>2. e.type = "Arrive" => e.pkt.flow \in Flow
    BY <2>1 DEF EventSound, Homeward, Carried, IsPacket
  <2> QED BY <2>1, <2>2 DEF EventSound, EventType
<1> QED BY <1>2, <1>3 DEF Apt

LEMMA InitRepeat == Init => RepeatInv
<1> SUFFICES ASSUME Init PROVE RepeatInv
  OBVIOUS
<1>1. IInv
  BY InitIInv
<1>2. sim = begin_run(Fresh)
  <2>1. DOMAIN Built = Fields /\ sim = begin_run(Built) /\ Settled
    BY <1>1 DEF Built, Fields, Init, IInv
  <2> QED BY <2>1, BeginGood
<1> QED BY <1>1, <1>2, RunStarts DEF Init, RepeatInv

LEMMA StepRepeat == RepeatInv /\ [Next]_vars => RepeatInv'
<1> SUFFICES ASSUME RepeatInv, [Next]_vars PROVE RepeatInv'
  OBVIOUS
<1>1. IInv /\ IInv' /\ Settled /\ Good(sim) /\ setting' = setting
  BY StepIInv DEF RepeatInv, IInv, Next, AdvanceClock, Dispatch, Rerun, Stop, vars
<1>2. Apt(sim)
  BY <1>1, GoodApt
<1>3. (\A w : RunTo(w)' <=> RunTo(w)) /\ (\A w : OutcomeOf(w)' = OutcomeOf(w))
  BY <1>1, SameRuns, SameOutcome
<1>4. CASE first' = first
  <2>1. RunTo(sim')
    <3>1. CASE AdvanceClock
      <4>1. Follows(sim, sim')
        BY <3>1 DEF AdvanceClock, Follows, Waits
      <4> QED BY <1>2, <4>1, RunGoesOn DEF RepeatInv
    <3>2. CASE Dispatch
      <4>1. Follows(sim, sim')
        BY <3>2 DEF Dispatch, Follows, IsFirst, Handles, Popped
      <4> QED BY <1>2, <4>1, RunGoesOn DEF RepeatInv
    <3>3. CASE Rerun
      BY <1>1, <3>3, BeginGood, RunStarts DEF Rerun, Good, Typed
    <3>4. CASE UNCHANGED vars
      BY <3>4 DEF vars, RepeatInv
    <3> QED BY <3>1, <3>2, <3>3, <3>4 DEF Next, Stop
  <2>2. RunTo(sim)'
    BY <1>3, <2>1
  <2>3. (first # <<>> => \E w : RunTo(w) /\ w.events = {} /\ first = OutcomeOf(w))'
    BY <1>3, <1>4 DEF RepeatInv
  <2> QED BY <1>1, <2>2, <2>3 DEF RepeatInv
<1>5. CASE first' # first
  <2>1. Rerun
    BY <1>5 DEF Next, AdvanceClock, Dispatch, Stop, vars
  <2>2. sim' = begin_run(sim) /\ first' = Outcome /\ sim.events = {}
    BY <2>1 DEF Rerun, Drained
  <2>3. RunTo(sim')
    BY <1>1, <2>2, BeginGood, RunStarts DEF Good, Typed
  <2>4. RunTo(sim)'
    BY <1>3, <2>3
  <2>5. first' = OutcomeOf(sim)
    BY <2>2 DEF Outcome, OutcomeOf, end_run
  <2>6. RunTo(sim)
    BY DEF RepeatInv
  <2>7. (\E w : RunTo(w) /\ w.events = {} /\ first = OutcomeOf(w))'
    BY <1>3, <2>2, <2>5, <2>6
  <2> QED BY <1>1, <2>4, <2>7 DEF RepeatInv
<1> QED BY <1>4, <1>5

LEMMA RepeatInvRepeats == RepeatInv => RunsRepeat
<1> SUFFICES ASSUME RepeatInv, first # <<>>, Drained PROVE Outcome = first
  BY DEF RunsRepeat
<1>1. PICK w : RunTo(w) /\ w.events = {} /\ first = OutcomeOf(w)
  BY DEF RepeatInv
<1>2. sim = w
  BY <1>1, RunsMeet DEF RepeatInv, Drained
<1> QED BY <1>1, <1>2 DEF Outcome, OutcomeOf, end_run

(* A run of an object that has been run before gives the result of the     *)
(* first run to the last byte: begin_run clears all that a run reads, and  *)
(* every turn of the loop has one outcome.                                 *)
THEOREM RunsAlwaysRepeat == Spec => []RunsRepeat
<1>1. RepeatInv /\ [Next]_vars => RepeatInv'
  BY StepRepeat
<1> QED BY InitRepeat, <1>1, RepeatInvRepeats, PTL DEF Spec

-----------------------------------------------------------------------------
(* Sums of bytes over finite sets of copies *)

Weight(k, c) == IF c.pkt.kind = k THEN c.pkt.bytes ELSE 0

Load(k, S) == MapThenSumSet(LAMBDA c : IF c.pkt.kind = k THEN c.pkt.bytes ELSE 0, S)

Chosen(s) == CHOOSE x \in s : TRUE

IsLoad(k, S, t) ==
  t = [s \in SUBSET S |-> IF s = {} THEN 0 ELSE Weight(k, Chosen(s)) + t[s \ {Chosen(s)}]]

LEMMA LoadIs == ASSUME NEW k, NEW S
                PROVE  Load(k, S) = (CHOOSE t : IsLoad(k, S, t))[S]
BY DEF Load, MapThenSumSet, MapThenFoldSet, IsLoad, Weight, Chosen

LEMMA ChosenIn == ASSUME NEW s, s # {} PROVE Chosen(s) \in s
BY DEF Chosen

LEMMA LoadAt ==
  ASSUME NEW k, NEW S, NEW t, IsLoad(k, S, t), NEW s \in SUBSET S
  PROVE  /\ s = {} => t[s] = 0
         /\ s # {} => t[s] = Weight(k, Chosen(s)) + t[s \ {Chosen(s)}]
BY DEF IsLoad

LEMMA LoadUnique ==
  ASSUME NEW k, NEW A, NEW t, IsLoad(k, A, t), NEW B, NEW u, IsLoad(k, B, u),
         NEW s \in SUBSET A, s \in SUBSET B, IsFiniteSet(s)
  PROVE  t[s] = u[s]
<1> DEFINE bad(n) == \E r \in SUBSET A : /\ r \in SUBSET B /\ IsFiniteSet(r)
                                         /\ Cardinality(r) = n /\ t[r] # u[r]
           T == {n \in Nat : bad(n)}
<1>1. SUFFICES T = {}
  <2>1. Cardinality(s) \in Nat
    BY FS_CardinalityType
  <2> QED BY <2>1
<1>2. SUFFICES ASSUME T # {} PROVE FALSE
  OBVIOUS
<1> DEFINE n == Min(T)
<1>3. n \in T /\ \A m \in T : n <= m
  <2>1. T \subseteq Nat
    OBVIOUS
  <2> HIDE DEF T
  <2> QED BY <1>2, <2>1, NatMinimum
<1> HIDE DEF n
<1>4. PICK r \in SUBSET A : /\ r \in SUBSET B /\ IsFiniteSet(r)
                            /\ Cardinality(r) = n /\ t[r] # u[r]
  BY <1>3
<1>5. r # {}
  BY <1>4, LoadAt
<1> DEFINE q == r \ {Chosen(r)}
<1>6. Chosen(r) \in r
  BY <1>5, ChosenIn
<1>7. IsFiniteSet(q) /\ Cardinality(q) = n - 1 /\ n \in Nat
  BY <1>3, <1>4, <1>6, FS_RemoveElement
<1>8. Cardinality(q) \in Nat
  BY <1>7, FS_CardinalityType
<1>9. q \in SUBSET A /\ q \in SUBSET B
  BY <1>4
<1>10. t[q] = u[q]
  <2>1. n - 1 \in Nat /\ n - 1 \notin T
    BY <1>3, <1>7, <1>8
  <2> QED BY <1>7, <1>9, <2>1
<1> QED BY <1>4, <1>5, <1>10, LoadAt

LEMMA LoadExists ==
  ASSUME NEW k, NEW S, IsFiniteSet(S)
  PROVE  \E t : IsLoad(k, S, t)
<1> DEFINE bad(n) == \E R : IsFiniteSet(R) /\ Cardinality(R) = n /\ ~ \E t : IsLoad(k, R, t)
           T == {n \in Nat : bad(n)}
<1>1. SUFFICES T = {}
  <2>1. Cardinality(S) \in Nat
    BY FS_CardinalityType
  <2> QED BY <2>1
<1>2. SUFFICES ASSUME T # {} PROVE FALSE
  OBVIOUS
<1> DEFINE n == Min(T)
<1>3. n \in T /\ \A m \in T : n <= m
  <2>1. T \subseteq Nat
    OBVIOUS
  <2> HIDE DEF T
  <2> QED BY <1>2, <2>1, NatMinimum
<1> HIDE DEF n
<1>4. PICK R : IsFiniteSet(R) /\ Cardinality(R) = n /\ ~ \E t : IsLoad(k, R, t)
  BY <1>3
<1> DEFINE a(s) == CHOOSE t : IsLoad(k, s, t)
           next(s) == s \ {Chosen(s)}
           v(s) == IF s = {} THEN 0 ELSE Weight(k, Chosen(s)) + a(next(s))[next(s)]
           t == [s \in SUBSET R |-> v(s)]
<1>5. ASSUME NEW s \in SUBSET R, s # R
      PROVE  IsLoad(k, s, a(s))
  <2>1. IsFiniteSet(s) /\ Cardinality(s) < n /\ Cardinality(s) \in Nat
    BY <1>4, <1>5, FS_Subset, FS_CardinalityType
  <2>2. Cardinality(s) \notin T
    BY <1>3, <2>1
  <2> QED BY <2>1, <2>2
<1>6. ASSUME NEW s \in SUBSET R, s # R, s # {}
      PROVE  a(s)[s] = v(s)
  <2>1. IsLoad(k, s, a(s)) /\ s \in SUBSET s
    BY <1>5, <1>6
  <2>2. next(s) \in SUBSET R /\ next(s) \in SUBSET s /\ next(s) # R
    BY <1>6
  <2>3. IsLoad(k, next(s), a(next(s)))
    BY <1>5, <2>2
  <2>4. IsFiniteSet(next(s))
    BY <1>4, <2>2, FS_Subset
  <2>5. next(s) \in SUBSET next(s)
    OBVIOUS
  <2> DEFINE x == next(s)
             y == a(s)
             z == a(x)
  <2>6. y[s] = Weight(k, Chosen(s)) + y[x]
    BY <1>6, <2>1, LoadAt
  <2>7. y[x] = z[x]
    <3> HIDE DEF x, y, z
    <3> QED BY <2>1, <2>2, <2>3, <2>4, <2>5, LoadUnique DEF x, y, z
  <2> QED BY <1>6, <2>6, <2>7
<1>7. ASSUME NEW s \in SUBSET R
      PROVE  t[s] = IF s = {} THEN 0 ELSE Weight(k, Chosen(s)) + t[next(s)]
  <2>1. CASE s = {}
    BY <2>1
  <2>2. CASE s # {}
    <3>1. next(s) \in SUBSET R /\ next(s) # R
      BY <2>2, ChosenIn
    <3>2. t[next(s)] = a(next(s))[next(s)]
      <4>1. CASE next(s) # {}
        BY <1>6, <3>1, <4>1
      <4>2. CASE next(s) = {}
        <5>1. IsLoad(k, next(s), a(next(s))) /\ next(s) \in SUBSET next(s)
          BY <1>5, <3>1
        <5>2. a(next(s))[next(s)] = 0
          <6> DEFINE x == next(s)
                     z == a(x)
          <6> HIDE DEF x, z
          <6> QED BY <4>2, <5>1, LoadAt DEF x, z
        <5> QED BY <3>1, <4>2, <5>2
      <4> QED BY <4>1, <4>2
    <3> QED BY <2>2, <3>2
  <2> QED BY <2>1, <2>2
<1>8. IsLoad(k, R, t)
  <2>1. t = [s \in SUBSET R |-> t[s]]
    OBVIOUS
  <2> HIDE DEF t
  <2> QED BY <1>7, <2>1 DEF IsLoad
<1> QED BY <1>4, <1>8

LEMMA LoadStep ==
  ASSUME NEW k, NEW S, IsFiniteSet(S)
  PROVE  /\ S = {} => Load(k, S) = 0
         /\ S # {} => Load(k, S) = Weight(k, Chosen(S)) + Load(k, S \ {Chosen(S)})
<1> DEFINE R == S \ {Chosen(S)}
           t == CHOOSE t : IsLoad(k, S, t)
           u == CHOOSE u : IsLoad(k, R, u)
<1>1. IsFiniteSet(R) /\ R \in SUBSET S /\ R \in SUBSET R /\ S \in SUBSET S
  BY FS_Subset
<1>2. IsLoad(k, S, t) /\ IsLoad(k, R, u)
  BY <1>1, LoadExists
<1>3. Load(k, S) = t[S] /\ Load(k, R) = u[R]
  BY LoadIs
<1> HIDE DEF t, u
<1>4. /\ S = {} => t[S] = 0
      /\ S # {} => t[S] = Weight(k, Chosen(S)) + t[R]
  BY <1>1, <1>2, LoadAt
<1> HIDE DEF R
<1>5. t[R] = u[R]
  BY <1>1, <1>2, LoadUnique
<1> QED BY <1>3, <1>4, <1>5 DEF R

Weighs(k, S) == \A c \in S : Weight(k, c) \in Nat

LEMMA LoadType ==
  ASSUME NEW k, NEW S, IsFiniteSet(S), Weighs(k, S)
  PROVE  Load(k, S) \in Nat
<1> DEFINE bad(n) == \E R : /\ IsFiniteSet(R) /\ Cardinality(R) = n
                            /\ Weighs(k, R) /\ Load(k, R) \notin Nat
           T == {n \in Nat : bad(n)}
<1>1. SUFFICES ASSUME T # {} PROVE FALSE
  BY FS_CardinalityType
<1> DEFINE n == Min(T)
<1>2. n \in T /\ \A m \in T : n <= m
  <2>1. T \subseteq Nat
    OBVIOUS
  <2> HIDE DEF T
  <2> QED BY <1>1, <2>1, NatMinimum
<1>3. n \in Nat
  BY <1>2
<1> HIDE DEF n
<1>4. PICK R : /\ IsFiniteSet(R) /\ Cardinality(R) = n
               /\ Weighs(k, R) /\ Load(k, R) \notin Nat
  BY <1>2
<1>5. R # {}
  <2>1. SUFFICES ASSUME R = {} PROVE FALSE
    OBVIOUS
  <2>2. Load(k, R) = 0
    BY <1>4, <2>1, LoadStep
  <2> QED BY <1>4, <2>2
<1> DEFINE x == Chosen(R)
           Q == R \ {x}
<1>6. x \in R
  BY <1>5, ChosenIn
<1>7. IsFiniteSet(Q) /\ Cardinality(Q) = n - 1 /\ Cardinality(Q) \in Nat
  BY <1>4, <1>6, FS_RemoveElement, FS_CardinalityType
<1>8. Weighs(k, Q) /\ Weight(k, x) \in Nat
  BY <1>4, <1>6 DEF Weighs
<1>9. Load(k, R) = Weight(k, x) + Load(k, Q)
  BY <1>4, <1>5, LoadStep
<1> HIDE DEF Q, x
<1>10. n - 1 \notin T /\ n - 1 \in Nat
  <2> HIDE DEF T
  <2> QED BY <1>2, <1>3, <1>7
<1>11. Load(k, Q) \in Nat
  BY <1>7, <1>8, <1>10
<1> QED BY <1>4, <1>8, <1>9, <1>11

(* Any copy may be counted first. *)
LEMMA LoadRemove ==
  ASSUME NEW k, NEW S, IsFiniteSet(S), Weighs(k, S), NEW x \in S
  PROVE  Load(k, S) = Weight(k, x) + Load(k, S \ {x})
<1> DEFINE bad(n) == \E R, z : /\ IsFiniteSet(R) /\ Cardinality(R) = n /\ Weighs(k, R) /\ z \in R
                               /\ Load(k, R) # Weight(k, z) + Load(k, R \ {z})
           T == {n \in Nat : bad(n)}
<1>1. SUFFICES ASSUME T # {} PROVE FALSE
  BY FS_CardinalityType
<1> DEFINE n == Min(T)
<1>2. n \in T /\ \A m \in T : n <= m
  <2>1. T \subseteq Nat
    OBVIOUS
  <2> HIDE DEF T
  <2> QED BY <1>1, <2>1, NatMinimum
<1>3. n \in Nat
  BY <1>2
<1> HIDE DEF n
<1>4. PICK R, z : /\ IsFiniteSet(R) /\ Cardinality(R) = n /\ Weighs(k, R) /\ z \in R
                  /\ Load(k, R) # Weight(k, z) + Load(k, R \ {z})
  BY <1>2
<1> DEFINE y == Chosen(R)
           Q == R \ {y}
           P == R \ {z}
           B == R \ {y, z}
<1>5. y \in R /\ Load(k, R) = Weight(k, y) + Load(k, Q)
  BY <1>4, ChosenIn, LoadStep
<1>6. y # z
  BY <1>4, <1>5
<1>7. /\ IsFiniteSet(Q) /\ Cardinality(Q) = n - 1
      /\ IsFiniteSet(P) /\ Cardinality(P) = n - 1 /\ Cardinality(P) \in Nat
  BY <1>4, <1>5, FS_RemoveElement, FS_CardinalityType
<1>8. IsFiniteSet(B) /\ Weighs(k, B) /\ Weighs(k, P) /\ Weighs(k, Q)
  <2>1. IsFiniteSet(B)
    BY <1>4, FS_Subset
  <2> QED BY <1>4, <2>1 DEF Weighs
<1>9. y \in P /\ z \in Q /\ P \ {y} = B /\ Q \ {z} = B
  BY <1>4, <1>5, <1>6
<1>10. Weight(k, y) \in Nat /\ Weight(k, z) \in Nat
  BY <1>4, <1>5 DEF Weighs
<1> HIDE DEF y, Q, P, B
<1>11. n - 1 \notin T /\ n - 1 \in Nat
  <2> HIDE DEF T
  <2> QED BY <1>2, <1>3, <1>7
<1>12. \A A, c : IsFiniteSet(A) /\ Cardinality(A) = n - 1 /\ Weighs(k, A) /\ c \in A
                   => Load(k, A) = Weight(k, c) + Load(k, A \ {c})
  BY <1>11
<1> HIDE DEF T
<1>13. Load(k, P) = Weight(k, y) + Load(k, B)
  BY <1>7, <1>8, <1>9, <1>12
<1>14. Load(k, Q) = Weight(k, z) + Load(k, B)
  BY <1>7, <1>8, <1>9, <1>12
<1>15. Load(k, B) \in Nat
  BY <1>8, LoadType
<1>16. Load(k, R) = Weight(k, z) + Load(k, P)
  BY <1>5, <1>10, <1>13, <1>14, <1>15
<1> QED BY <1>4, <1>16 DEF P

LEMMA LoadAdd ==
  ASSUME NEW k, NEW S, IsFiniteSet(S), Weighs(k, S), NEW x, x \notin S, Weight(k, x) \in Nat
  PROVE  /\ IsFiniteSet(S \cup {x}) /\ Weighs(k, S \cup {x})
         /\ Load(k, S \cup {x}) = Load(k, S) + Weight(k, x)
<1> DEFINE R == S \cup {x}
<1>1. IsFiniteSet(R) /\ Weighs(k, R) /\ x \in R /\ R \ {x} = S
  BY FS_AddElement DEF Weighs
<1>2. Load(k, S) \in Nat
  BY LoadType
<1> HIDE DEF R
<1>3. Load(k, R) = Weight(k, x) + Load(k, S)
  BY <1>1, LoadRemove
<1> QED BY <1>1, <1>2, <1>3 DEF R

LEMMA LoadUnion ==
  ASSUME NEW k, NEW A, IsFiniteSet(A), Weighs(k, A),
         NEW B, IsFiniteSet(B), Weighs(k, B), A \cap B = {}
  PROVE  Load(k, A \cup B) = Load(k, A) + Load(k, B)
<1> DEFINE bad(n) == \E R : /\ IsFiniteSet(R) /\ Cardinality(R) = n /\ Weighs(k, R)
                            /\ A \cap R = {} /\ Load(k, A \cup R) # Load(k, A) + Load(k, R)
           T == {n \in Nat : bad(n)}
<1>1. SUFFICES ASSUME T # {} PROVE FALSE
  BY FS_CardinalityType
<1> DEFINE n == Min(T)
<1>2. n \in T /\ \A m \in T : n <= m
  <2>1. T \subseteq Nat
    OBVIOUS
  <2> HIDE DEF T
  <2> QED BY <1>1, <2>1, NatMinimum
<1>3. n \in Nat
  BY <1>2
<1> HIDE DEF n
<1>4. PICK R : /\ IsFiniteSet(R) /\ Cardinality(R) = n /\ Weighs(k, R)
               /\ A \cap R = {} /\ Load(k, A \cup R) # Load(k, A) + Load(k, R)
  BY <1>2
<1>5. Load(k, A) \in Nat
  BY LoadType
<1>6. R # {}
  <2>1. SUFFICES ASSUME R = {} PROVE FALSE
    OBVIOUS
  <2>2. A \cup R = A /\ Load(k, R) = 0
    BY <1>4, <2>1, LoadStep
  <2> QED BY <1>4, <1>5, <2>2
<1>7. PICK x : x \in R
  BY <1>6
<1> DEFINE Q == R \ {x}
           U == A \cup Q
<1>8. /\ IsFiniteSet(Q) /\ Cardinality(Q) = n - 1 /\ Cardinality(Q) \in Nat
      /\ Weighs(k, Q) /\ A \cap Q = {} /\ Weight(k, x) \in Nat
  BY <1>4, <1>7, FS_RemoveElement, FS_CardinalityType DEF Weighs
<1>9. /\ IsFiniteSet(U) /\ Weighs(k, U) /\ x \notin U /\ A \cup R = U \cup {x}
      /\ R = Q \cup {x} /\ x \notin Q
  BY <1>4, <1>7, <1>8, FS_Union DEF Weighs
<1>10. Load(k, U) = Load(k, A) + Load(k, Q)
  <2>1. n - 1 \notin T /\ n - 1 \in Nat
    <3> HIDE DEF T, Q
    <3> QED BY <1>2, <1>3, <1>8
  <2> HIDE DEF Q
  <2> QED BY <1>8, <2>1
<1> HIDE DEF Q, U
<1>11. /\ Load(k, U \cup {x}) = Load(k, U) + Weight(k, x)
       /\ Load(k, Q \cup {x}) = Load(k, Q) + Weight(k, x)
  BY <1>8, <1>9, LoadAdd
<1>12. Load(k, Q) \in Nat
  BY <1>8, LoadType
<1>13. Load(k, A \cup R) = Load(k, A) + Load(k, R)
  <2>1. Weight(k, x) \in Nat
    BY <1>8
  <2>2. Load(k, A \cup R) = Load(k, U) + Weight(k, x)
    BY <1>9, <1>11
  <2>3. Load(k, R) = Load(k, Q) + Weight(k, x)
    BY <1>9, <1>11
  <2> QED BY <1>5, <1>10, <1>12, <2>1, <2>2, <2>3
<1> QED BY <1>4, <1>13

-----------------------------------------------------------------------------
(* Where the packets are *)

Bytes(k, pkt) == IF pkt.kind = k THEN pkt.bytes ELSE 0

Place(pkt, p, where, n) == [pkt |-> pkt, at |-> <<p, where, n>>]

FirstOf(p, q, n) == {Place(q[j], p, "queue", j) : j \in 1 .. n}

Served(p, r) == IF r.busy THEN {Place(r.in_flight, p, "service", 0)} ELSE {}

AtPort(p, r) == FirstOf(p, r.waiting, Len(r.waiting)) \cup Served(p, r)

OnWire(E) == {Place(e.pkt, e.port, "wire", e.seq) : e \in {x \in E : x.type = "Arrive"}}

AtPorts(w, P) == UNION {AtPort(p, w.port[p]) : p \in P}

InFab(w) == AtPorts(w, Port) \cup OnWire(w.events)

(* What the books need to know of a state. *)
Shaped(w) ==
  /\ DOMAIN w = Fields
  /\ w.port \in [Port -> PortState]
  /\ w.next_seq \in Nat /\ IsFiniteSet(w.events)
  /\ \A e \in w.events : /\ e.seq \in Nat /\ e.seq < w.next_seq
                         /\ e.type = "Arrive" => e.port \in Port /\ e.pkt \in Packet
  /\ \A d, e \in w.events : d.seq = e.seq => d = e
  /\ w.injected \in [Kind -> Nat] /\ w.received \in [Kind -> Nat] /\ w.dropped \in [Kind -> Nat]

(* Bytes injected that are neither received nor dropped nor anywhere. *)
Missing(w, k) == w.injected[k] - (w.received[k] + w.dropped[k] + Load(k, InFab(w)))

LEMMA BytesType == ASSUME NEW k, NEW pkt \in Packet PROVE Bytes(k, pkt) \in Nat
BY DEF Bytes, Packet

LEMMA PlaceWeight ==
  ASSUME NEW k, NEW pkt, NEW p, NEW where, NEW n
  PROVE  Weight(k, Place(pkt, p, where, n)) = Bytes(k, pkt)
BY DEF Weight, Place, Bytes

LEMMA PlaceOf ==
  ASSUME NEW pkt, NEW p, NEW where, NEW n, NEW x, NEW q, NEW there, NEW m,
         Place(pkt, p, where, n) = Place(x, q, there, m)
  PROVE  pkt = x /\ p = q /\ where = there /\ n = m
<1>1. /\ Place(pkt, p, where, n).pkt = pkt /\ Place(x, q, there, m).pkt = x
      /\ Place(pkt, p, where, n).at = <<p, where, n>> /\ Place(x, q, there, m).at = <<q, there, m>>
  BY DEF Place
<1> QED BY <1>1

LEMMA ImageFinite ==
  ASSUME NEW S, IsFiniteSet(S), NEW g
  PROVE  IsFiniteSet({g[x] : x \in S})
<1> DEFINE T == {g[x] : x \in S}
           h == [x \in S |-> g[x]]
<1>1. h \in Surjection(S, T)
  BY DEF Surjection
<1> QED BY <1>1, FS_Surjection

LEMMA FirstOfNext ==
  ASSUME NEW p, NEW q \in Seq(Packet), NEW n \in 1 .. Len(q)
  PROVE  /\ FirstOf(p, q, 0) = {}
         /\ Place(q[n], p, "queue", n) \notin FirstOf(p, q, n - 1)
         /\ q[n] \in Packet
<1>1. Len(q) \in Nat /\ n \in Nat /\ n >= 1
  OBVIOUS
<1>2. FirstOf(p, q, 0) = {} /\ q[n] \in Packet
  BY DEF FirstOf
<1>3. n \notin 1 .. (n - 1)
  BY <1>1
<1>4. ASSUME Place(q[n], p, "queue", n) \in FirstOf(p, q, n - 1) PROVE FALSE
  <2>1. PICK j \in 1 .. (n - 1) : Place(q[n], p, "queue", n) = Place(q[j], p, "queue", j)
    BY <1>4 DEF FirstOf
  <2>2. n = j
    BY <2>1, PlaceOf
  <2> QED BY <1>3, <2>2
<1> QED BY <1>2, <1>4

(* A prefix of a queue. *)
LEMMA FirstOfLoad ==
  ASSUME NEW k, NEW p, NEW q \in Seq(Packet), NEW n \in 0 .. Len(q)
  PROVE  /\ IsFiniteSet(FirstOf(p, q, n)) /\ Weighs(k, FirstOf(p, q, n))
         /\ Load(k, FirstOf(p, q, n)) \in Nat
<1> DEFINE F(m) == FirstOf(p, q, m)
           T == {m \in 0 .. Len(q) : ~(IsFiniteSet(F(m)) /\ Weighs(k, F(m)))}
<1>1. T = {}
  <2>1. SUFFICES ASSUME T # {} PROVE FALSE
    OBVIOUS
  <2> DEFINE m == Min(T)
  <2>2. m \in T /\ \A j \in T : m <= j
    <3>1. T \subseteq Nat
      OBVIOUS
    <3> HIDE DEF T
    <3> QED BY <2>1, <3>1, NatMinimum
  <2>3. m \in 0 .. Len(q) /\ ~(IsFiniteSet(F(m)) /\ Weighs(k, F(m)))
    BY <2>2
  <2> HIDE DEF m
  <2>4. m # 0
    <3>1. F(0) = {}
      BY DEF FirstOf
    <3> QED BY <2>3, <3>1, FS_EmptySet DEF Weighs
  <2>5. m \in 1 .. Len(q) /\ m - 1 \in 0 .. Len(q) /\ m - 1 \notin T
    <3> HIDE DEF T
    <3> QED BY <2>2, <2>3, <2>4
  <2>6. IsFiniteSet(F(m - 1)) /\ Weighs(k, F(m - 1))
    BY <2>5
  <2> DEFINE x == Place(q[m], p, "queue", m)
  <2>7. F(m) = F(m - 1) \cup {x} /\ q[m] \in Packet
    <3>1. m \in 1 .. Len(q)
      BY <2>5
    <3> HIDE DEF T
    <3>2. 1 .. m = 1 .. (m - 1) \cup {m} /\ q[m] \in Packet
      BY <3>1
    <3> QED BY <3>2 DEF FirstOf
  <2>8. Weight(k, x) \in Nat
    BY <2>7, PlaceWeight, BytesType
  <2> HIDE DEF F, x, T
  <2>9. IsFiniteSet(F(m))
    BY <2>6, <2>7, FS_AddElement
  <2>10. Weighs(k, F(m))
    BY <2>6, <2>7, <2>8 DEF Weighs
  <2> QED BY <2>3, <2>9, <2>10
<1>2. IsFiniteSet(F(n)) /\ Weighs(k, F(n))
  BY <1>1
<1> QED BY <1>2, LoadType

LEMMA FirstOfStep ==
  ASSUME NEW k, NEW p, NEW q \in Seq(Packet), NEW n \in 1 .. Len(q)
  PROVE  Load(k, FirstOf(p, q, n)) = Load(k, FirstOf(p, q, n - 1)) + Bytes(k, q[n])
<1> DEFINE F == FirstOf(p, q, n - 1)
           x == Place(q[n], p, "queue", n)
<1>1. n - 1 \in 0 .. Len(q)
  OBVIOUS
<1>2. IsFiniteSet(F) /\ Weighs(k, F)
  BY <1>1, FirstOfLoad
<1>3. x \notin F /\ FirstOf(p, q, n) = F \cup {x} /\ Weight(k, x) = Bytes(k, q[n])
      /\ Weight(k, x) \in Nat
  <2>1. x \notin F /\ FirstOf(p, q, n) = F \cup {x} /\ q[n] \in Packet
    <3>1. x \notin F
      BY FirstOfNext
    <3>2. FirstOf(p, q, n) = F \cup {x}
      <4>1. Len(q) \in Nat /\ 1 .. n = 1 .. (n - 1) \cup {n}
        OBVIOUS
      <4> QED BY <4>1 DEF FirstOf
    <3>3. q[n] \in Packet
      BY FirstOfNext
    <3> QED BY <3>1, <3>2, <3>3
  <2>2. Weight(k, x) = Bytes(k, q[n])
    BY PlaceWeight
  <2>3. Bytes(k, q[n]) \in Nat
    BY <2>1, BytesType
  <2> QED BY <2>1, <2>2, <2>3
<1> HIDE DEF F, x
<1>4. Load(k, F \cup {x}) = Load(k, F) + Weight(k, x)
  BY <1>2, <1>3, LoadAdd
<1> QED BY <1>3, <1>4 DEF F

Queued(k, p, q) == Load(k, FirstOf(p, q, Len(q)))

LEMMA QueuedType ==
  ASSUME NEW k, NEW p, NEW q \in Seq(Packet)
  PROVE  Queued(k, p, q) \in Nat
<1>1. Len(q) \in 0 .. Len(q)
  OBVIOUS
<1> QED BY <1>1, FirstOfLoad DEF Queued

LEMMA QueuedAppend ==
  ASSUME NEW k, NEW p, NEW q \in Seq(Packet), NEW x \in Packet
  PROVE  Queued(k, p, Append(q, x)) = Queued(k, p, q) + Bytes(k, x)
<1> DEFINE r == Append(q, x)
           n == Len(q)
<1>1. n \in Nat /\ r \in Seq(Packet) /\ Len(r) = n + 1 /\ n + 1 \in 1 .. Len(r) /\ n + 1 - 1 = n
  OBVIOUS
<1>2. r[n + 1] = x /\ \A j \in 1 .. n : r[j] = q[j]
  OBVIOUS
<1> HIDE DEF r, n
<1>3. FirstOf(p, r, n) = FirstOf(p, q, n)
  BY <1>2 DEF FirstOf
<1>4. Load(k, FirstOf(p, r, n + 1)) = Load(k, FirstOf(p, r, n)) + Bytes(k, r[n + 1])
  <2>1. \A m \in 1 .. Len(r) :
          Load(k, FirstOf(p, r, m)) = Load(k, FirstOf(p, r, m - 1)) + Bytes(k, r[m])
    BY <1>1, FirstOfStep
  <2> QED BY <1>1, <2>1
<1>5. Queued(k, p, r) = Queued(k, p, q) + Bytes(k, x)
  BY <1>1, <1>2, <1>3, <1>4 DEF Queued, n
<1> QED BY <1>5 DEF r

LEMMA QueuedTail ==
  ASSUME NEW k, NEW p, NEW q \in Seq(Packet), q # <<>>
  PROVE  Queued(k, p, q) = Bytes(k, Head(q)) + Queued(k, p, Tail(q))
<1> DEFINE r == Tail(q)
           n == Len(q)
           A(m) == Load(k, FirstOf(p, q, m))
           B(m) == Load(k, FirstOf(p, r, m))
           T == {m \in 0 .. n - 1 : A(m + 1) # Bytes(k, Head(q)) + B(m)}
<1>1. /\ n \in Nat \ {0} /\ r \in Seq(Packet) /\ Len(r) = n - 1
      /\ Head(q) \in Packet /\ Head(q) = q[1] /\ \A m \in 1 .. n - 1 : r[m] = q[m + 1]
  OBVIOUS
<1> HIDE DEF r, n
<1>2. \A m \in 1 .. n : A(m) = A(m - 1) + Bytes(k, q[m])
  BY FirstOfStep DEF n
<1>3. \A m \in 1 .. n - 1 : B(m) = B(m - 1) + Bytes(k, r[m])
  BY <1>1, FirstOfStep
<1>4. A(0) = 0 /\ B(0) = 0
  <2>1. FirstOf(p, q, 0) = {} /\ FirstOf(p, r, 0) = {}
    BY DEF FirstOf
  <2> QED BY <2>1, FS_EmptySet, LoadStep
<1>5. \A m \in 0 .. n - 1 : B(m) \in Nat
  BY <1>1, FirstOfLoad
<1>6. Bytes(k, Head(q)) \in Nat /\ \A m \in 1 .. n - 1 : Bytes(k, r[m]) \in Nat
  BY <1>1, BytesType
<1> HIDE DEF A, B
<1>7. T = {}
  <2>1. SUFFICES ASSUME T # {} PROVE FALSE
    OBVIOUS
  <2> DEFINE m == Min(T)
  <2>2. m \in T /\ \A j \in T : m <= j
    <3>1. T \subseteq Nat
      BY <1>1
    <3> HIDE DEF T
    <3> QED BY <2>1, <3>1, NatMinimum
  <2>3. m \in 0 .. n - 1 /\ A(m + 1) # Bytes(k, Head(q)) + B(m)
    BY <2>2
  <2> HIDE DEF m
  <2>4. m # 0
    <3>1. 1 \in 1 .. n /\ 1 - 1 = 0 /\ 0 + 1 = 1
      BY <1>1
    <3>2. A(1) = A(1 - 1) + Bytes(k, q[1])
      BY <1>2, <3>1
    <3> QED BY <1>1, <1>4, <1>6, <2>3, <3>1, <3>2
  <2>5. /\ m \in 1 .. n - 1 /\ m - 1 \in 0 .. n - 1 /\ m - 1 \notin T
        /\ m + 1 \in 1 .. n /\ m + 1 - 1 = m /\ m - 1 + 1 = m
    <3> HIDE DEF T
    <3> QED BY <1>1, <2>2, <2>3, <2>4
  <2>6. A(m) = Bytes(k, Head(q)) + B(m - 1)
    BY <2>5
  <2>7. A(m + 1) = A(m) + Bytes(k, q[m + 1])
    BY <1>2, <2>5
  <2>8. B(m) = B(m - 1) + Bytes(k, q[m + 1])
    BY <1>1, <1>3, <2>5
  <2>9. Bytes(k, q[m + 1]) \in Nat /\ B(m - 1) \in Nat
    BY <1>1, <1>5, <1>6, <2>5
  <2> QED BY <1>6, <2>3, <2>6, <2>7, <2>8, <2>9
<1>8. n - 1 \in 0 .. n - 1 /\ n - 1 + 1 = n
  BY <1>1
<1>9. A(n) = Bytes(k, Head(q)) + B(n - 1)
  BY <1>7, <1>8
<1> QED BY <1>1, <1>9 DEF A, B, r, n, Queued

Held(k, p, r) == Queued(k, p, r.waiting) + (IF r.busy THEN Bytes(k, r.in_flight) ELSE 0)

LEMMA ServedFacts ==
  ASSUME NEW k, NEW p, NEW r \in PortState
  PROVE  /\ IsFiniteSet(Served(p, r)) /\ Weighs(k, Served(p, r))
         /\ Load(k, Served(p, r)) = IF r.busy THEN Bytes(k, r.in_flight) ELSE 0
         /\ (IF r.busy THEN Bytes(k, r.in_flight) ELSE 0) \in Nat
<1>1. r.in_flight \in Packet
  BY DEF PortState
<1>2. CASE ~r.busy
  <2>1. Served(p, r) = {}
    BY <1>2 DEF Served
  <2> QED BY <1>2, <2>1, FS_EmptySet, LoadStep DEF Weighs
<1>3. CASE r.busy
  <2> DEFINE x == Place(r.in_flight, p, "service", 0)
  <2>1. Weight(k, x) = Bytes(k, r.in_flight) /\ Bytes(k, r.in_flight) \in Nat
    BY <1>1, PlaceWeight, BytesType
  <2>2. IsFiniteSet({}) /\ Weighs(k, {}) /\ Load(k, {}) = 0
    BY FS_EmptySet, LoadStep DEF Weighs
  <2>3. Served(p, r) = {} \cup {x}
    BY <1>3 DEF Served
  <2> HIDE DEF x
  <2>4. IsFiniteSet({} \cup {x}) /\ Weighs(k, {} \cup {x}) /\ Load(k, {} \cup {x}) = Load(k, {}) + Weight(k, x)
    BY <2>1, <2>2, LoadAdd
  <2> QED BY <1>3, <2>1, <2>2, <2>3, <2>4
<1> QED BY <1>2, <1>3

LEMMA AtPortPlaces ==
  ASSUME NEW p, NEW r, NEW c \in AtPort(p, r)
  PROVE  \E pkt, where, n : c = Place(pkt, p, where, n) /\ where # "wire"
<1>1. CASE c \in FirstOf(p, r.waiting, Len(r.waiting))
  <2>1. PICK j \in 1 .. Len(r.waiting) : c = Place(r.waiting[j], p, "queue", j)
    BY <1>1 DEF FirstOf
  <2> QED BY <2>1
<1>2. CASE c \in Served(p, r)
  <2>1. c = Place(r.in_flight, p, "service", 0)
    BY <1>2 DEF Served
  <2> QED BY <2>1
<1> QED BY <1>1, <1>2 DEF AtPort

LEMMA WirePlaces ==
  ASSUME NEW E, NEW c \in OnWire(E)
  PROVE  \E pkt, p, n : c = Place(pkt, p, "wire", n)
BY DEF OnWire

LEMMA AtPortLoad ==
  ASSUME NEW k, NEW p, NEW r \in PortState
  PROVE  /\ IsFiniteSet(AtPort(p, r)) /\ Weighs(k, AtPort(p, r))
         /\ Load(k, AtPort(p, r)) = Held(k, p, r) /\ Held(k, p, r) \in Nat
<1> DEFINE Q == FirstOf(p, r.waiting, Len(r.waiting))
           S == Served(p, r)
<1>1. r.waiting \in Seq(Packet)
  BY DEF PortState
<1>2. Len(r.waiting) \in 0 .. Len(r.waiting)
  BY <1>1
<1>3. IsFiniteSet(Q) /\ Weighs(k, Q) /\ Load(k, Q) \in Nat
  BY <1>1, <1>2, FirstOfLoad
<1>4. IsFiniteSet(S) /\ Weighs(k, S)
      /\ Load(k, S) = (IF r.busy THEN Bytes(k, r.in_flight) ELSE 0)
      /\ Load(k, S) \in Nat
  BY ServedFacts
<1>5. Q \cap S = {}
  <2>1. SUFFICES ASSUME NEW c \in Q, c \in S PROVE FALSE
    OBVIOUS
  <2>2. PICK j \in 1 .. Len(r.waiting) : c = Place(r.waiting[j], p, "queue", j)
    BY <2>1 DEF FirstOf
  <2>3. c = Place(r.in_flight, p, "service", 0)
    BY <2>1 DEF Served
  <2>4. "queue" = "service"
    BY <2>2, <2>3, PlaceOf
  <2> QED BY <2>4
<1>6. Q \cup S = AtPort(p, r)
  BY DEF AtPort
<1>7. Load(k, Q) = Queued(k, p, r.waiting)
  BY DEF Queued
<1> HIDE DEF Q, S
<1>8. IsFiniteSet(Q \cup S) /\ Weighs(k, Q \cup S)
  BY <1>3, <1>4, FS_Union DEF Weighs
<1>9. Load(k, Q \cup S) = Load(k, Q) + Load(k, S)
  BY <1>3, <1>4, <1>5, LoadUnion
<1>10. Held(k, p, r) = Load(k, Q) + Load(k, S)
  BY <1>4, <1>7 DEF Held
<1>11. Load(k, AtPort(p, r)) = Held(k, p, r)
  BY <1>6, <1>9, <1>10
<1>12. Held(k, p, r) \in Nat
  BY <1>3, <1>4, <1>10
<1> QED BY <1>6, <1>8, <1>11, <1>12

LEMMA PortsLoad ==
  ASSUME Settled, NEW k, NEW w, Shaped(w), NEW P \in SUBSET Port
  PROVE  /\ IsFiniteSet(AtPorts(w, P)) /\ Weighs(k, AtPorts(w, P))
         /\ Load(k, AtPorts(w, P)) \in Nat
<1>1. \A p \in P : w.port[p] \in PortState
  BY DEF Shaped
<1> DEFINE g == [p \in P |-> AtPort(p, w.port[p])]
           T == {g[p] : p \in P}
<1>2. IsFiniteSet(P)
  BY CfgFacts, FS_Subset
<1>3. IsFiniteSet(T)
  <2> HIDE DEF g
  <2> QED BY <1>2, ImageFinite
<1>4. \A A \in T : IsFiniteSet(A)
  BY <1>1, AtPortLoad
<1>5. AtPorts(w, P) = UNION T
  BY DEF AtPorts
<1>6. IsFiniteSet(UNION T)
  <2> HIDE DEF T
  <2> QED BY <1>3, <1>4, FS_UNION
<1>7. Weighs(k, AtPorts(w, P))
  <2>1. SUFFICES ASSUME NEW c \in AtPorts(w, P) PROVE Weight(k, c) \in Nat
    BY DEF Weighs
  <2>2. PICK p \in P : c \in AtPort(p, w.port[p])
    BY DEF AtPorts
  <2>3. Weighs(k, AtPort(p, w.port[p]))
    BY <1>1, AtPortLoad
  <2> QED BY <2>2, <2>3 DEF Weighs
<1>8. IsFiniteSet(AtPorts(w, P))
  BY <1>5, <1>6
<1> QED BY <1>7, <1>8, LoadType

LEMMA WireLoad ==
  ASSUME NEW k, NEW E, IsFiniteSet(E), \A e \in E : e.type = "Arrive" => e.pkt \in Packet
  PROVE  /\ IsFiniteSet(OnWire(E)) /\ Weighs(k, OnWire(E)) /\ Load(k, OnWire(E)) \in Nat
<1> DEFINE A == {x \in E : x.type = "Arrive"}
           g == [e \in A |-> Place(e.pkt, e.port, "wire", e.seq)]
           T == {g[e] : e \in A}
<1>1. IsFiniteSet(A)
  BY FS_Subset
<1>2. IsFiniteSet(T)
  <2> HIDE DEF A, g
  <2> QED BY <1>1, ImageFinite
<1>3. OnWire(E) = T
  BY DEF OnWire
<1>4. Weighs(k, OnWire(E))
  <2>1. SUFFICES ASSUME NEW c \in OnWire(E) PROVE Weight(k, c) \in Nat
    BY DEF Weighs
  <2>2. PICK e \in A : c = Place(e.pkt, e.port, "wire", e.seq)
    BY DEF OnWire
  <2>3. Weight(k, c) = Bytes(k, e.pkt) /\ e.pkt \in Packet
    BY <2>2, PlaceWeight
  <2> QED BY <2>3, BytesType
<1>5. IsFiniteSet(OnWire(E))
  BY <1>2, <1>3
<1> QED BY <1>4, <1>5, LoadType

(* The copies at one port, at the others and on the wires. *)
LEMMA LoadParts ==
  ASSUME Settled, NEW k, NEW w, Shaped(w), NEW p \in Port
  PROVE  /\ Load(k, InFab(w)) = (Held(k, p, w.port[p]) + Load(k, AtPorts(w, Port \ {p})))
                                + Load(k, OnWire(w.events))
         /\ Held(k, p, w.port[p]) \in Nat /\ Load(k, AtPorts(w, Port \ {p})) \in Nat
         /\ Load(k, OnWire(w.events)) \in Nat
         /\ Load(k, InFab(w)) \in Nat
<1> DEFINE A == AtPort(p, w.port[p])
           B == AtPorts(w, Port \ {p})
           W == OnWire(w.events)
           U == A \cup B
<1>1. IsFiniteSet(A) /\ Weighs(k, A) /\ Load(k, A) = Held(k, p, w.port[p]) /\ Load(k, A) \in Nat
  <2>1. w.port[p] \in PortState
    BY DEF Shaped
  <2> QED BY <2>1, AtPortLoad
<1>2. IsFiniteSet(B) /\ Weighs(k, B) /\ Load(k, B) \in Nat
  BY PortsLoad
<1>3. IsFiniteSet(W) /\ Weighs(k, W) /\ Load(k, W) \in Nat
  BY WireLoad DEF Shaped
<1>4. A \cap B = {}
  <2>1. SUFFICES ASSUME NEW c \in A, c \in B PROVE FALSE
    OBVIOUS
  <2>2. PICK q \in Port \ {p} : c \in AtPort(q, w.port[q])
    BY <2>1 DEF AtPorts
  <2>3. PICK pkt, where, n : c = Place(pkt, p, where, n)
    BY <2>1, AtPortPlaces
  <2>4. PICK x, there, m : c = Place(x, q, there, m)
    BY <2>2, AtPortPlaces
  <2>5. Place(pkt, p, where, n) = Place(x, q, there, m)
    BY <2>3, <2>4
  <2>6. p = q
    BY <2>5, PlaceOf
  <2> QED BY <2>2, <2>6
<1>5. U \cap W = {}
  <2>1. SUFFICES ASSUME NEW c \in U, c \in W PROVE FALSE
    OBVIOUS
  <2>2. PICK q \in Port : c \in AtPort(q, w.port[q])
    BY <2>1 DEF AtPorts
  <2>3. PICK pkt, where, n : c = Place(pkt, q, where, n) /\ where # "wire"
    BY <2>2, AtPortPlaces
  <2>4. PICK x, s, m : c = Place(x, s, "wire", m)
    BY <2>1, WirePlaces
  <2>5. Place(pkt, q, where, n) = Place(x, s, "wire", m)
    BY <2>3, <2>4
  <2>6. where = "wire"
    BY <2>5, PlaceOf
  <2> QED BY <2>3, <2>6
<1>6. U \cup W = InFab(w)
  BY DEF InFab, AtPorts
<1> HIDE DEF A, B, W
<1>7. IsFiniteSet(U) /\ Weighs(k, U) /\ Load(k, U) = Load(k, A) + Load(k, B)
  BY <1>1, <1>2, <1>4, LoadUnion, FS_Union DEF Weighs
<1> HIDE DEF U
<1>8. Load(k, U \cup W) = Load(k, U) + Load(k, W)
  BY <1>3, <1>5, <1>7, LoadUnion
<1>9. Load(k, InFab(w)) = (Load(k, A) + Load(k, B)) + Load(k, W)
  BY <1>6, <1>7, <1>8
<1>10. Load(k, InFab(w)) \in Nat
  BY <1>1, <1>2, <1>3, <1>9
<1> QED BY <1>1, <1>2, <1>3, <1>9, <1>10 DEF B, W

Arrivals(E) == {x \in E : x.type = "Arrive"}

LEMMA FabLoad ==
  ASSUME Settled, NEW k, NEW w, Shaped(w)
  PROVE  Load(k, InFab(w)) \in Nat
<1> DEFINE A == AtPorts(w, Port)
           W == OnWire(w.events)
<1>1. IsFiniteSet(A) /\ Weighs(k, A)
  BY PortsLoad
<1>2. IsFiniteSet(W) /\ Weighs(k, W)
  BY WireLoad DEF Shaped
<1>3. InFab(w) = A \cup W
  BY DEF InFab
<1> HIDE DEF A, W
<1>4. IsFiniteSet(A \cup W) /\ Weighs(k, A \cup W)
  BY <1>1, <1>2, FS_Union DEF Weighs
<1> QED BY <1>3, <1>4, LoadType

LEMMA MissingType ==
  ASSUME Settled, NEW k \in Kind, NEW w, Shaped(w)
  PROVE  Missing(w, k) \in Int
<1>1. w.injected[k] \in Nat /\ w.received[k] \in Nat /\ w.dropped[k] \in Nat
  BY DEF Shaped
<1> QED BY <1>1, FabLoad DEF Missing

LEMMA SameWire ==
  ASSUME NEW D, NEW E, Arrivals(D) = Arrivals(E)
  PROVE  OnWire(D) = OnWire(E)
BY DEF Arrivals, OnWire

LEMMA PortChanges ==
  ASSUME Settled, NEW k, NEW w, Shaped(w), NEW v, Shaped(v), NEW p \in Port,
         \A q \in Port \ {p} : v.port[q] = w.port[q], Arrivals(v.events) = Arrivals(w.events)
  PROVE  /\ Load(k, InFab(v)) = (Load(k, InFab(w)) - Held(k, p, w.port[p])) + Held(k, p, v.port[p])
         /\ Held(k, p, w.port[p]) \in Nat /\ Held(k, p, v.port[p]) \in Nat
         /\ Load(k, InFab(w)) \in Nat
<1>1. AtPorts(v, Port \ {p}) = AtPorts(w, Port \ {p})
  BY DEF AtPorts
<1>2. OnWire(v.events) = OnWire(w.events)
  BY SameWire
<1> DEFINE B == Load(k, AtPorts(w, Port \ {p}))
           C == Load(k, OnWire(w.events))
           x == Held(k, p, w.port[p])
           y == Held(k, p, v.port[p])
<1>3. /\ Load(k, InFab(w)) = (x + B) + C /\ x \in Nat /\ B \in Nat /\ C \in Nat
      /\ Load(k, InFab(w)) \in Nat
  BY LoadParts
<1>4. Load(k, InFab(v)) = (y + B) + C /\ y \in Nat
  BY <1>1, <1>2, LoadParts
<1> HIDE DEF B, C, x, y
<1>5. Load(k, InFab(v)) = (Load(k, InFab(w)) - x) + y
  BY <1>3, <1>4
<1> QED BY <1>3, <1>4, <1>5 DEF x, y

(* One packet more on a wire. *)
LEMMA WireAdds ==
  ASSUME Settled, NEW k, NEW w, Shaped(w), NEW v, Shaped(v), v.port = w.port,
         NEW x, x \notin w.events, x.type = "Arrive", v.events = w.events \cup {x}
  PROVE  /\ Load(k, InFab(v)) = Load(k, InFab(w)) + Bytes(k, x.pkt)
         /\ Load(k, InFab(w)) \in Nat /\ Bytes(k, x.pkt) \in Nat
<1> DEFINE p == x.port
           c == Place(x.pkt, p, "wire", x.seq)
           W == OnWire(w.events)
<1>1. p \in Port /\ x.pkt \in Packet /\ x \in v.events
  BY DEF Shaped
<1>2. Weight(k, c) = Bytes(k, x.pkt) /\ Bytes(k, x.pkt) \in Nat
  BY <1>1, PlaceWeight, BytesType
<1>3. IsFiniteSet(W) /\ Weighs(k, W) /\ Load(k, W) \in Nat
  BY WireLoad DEF Shaped
<1>4. c \notin W
  <2>1. SUFFICES ASSUME c \in W PROVE FALSE
    OBVIOUS
  <2>2. PICK e \in w.events : c = Place(e.pkt, e.port, "wire", e.seq)
    BY <2>1 DEF OnWire
  <2>3. x.seq = e.seq
    BY <2>2, PlaceOf
  <2>4. e \in v.events /\ e # x
    OBVIOUS
  <2> QED BY <1>1, <2>3, <2>4 DEF Shaped
<1>5. OnWire(v.events) = W \cup {c}
  <2>1. \A e \in v.events : e \in w.events \/ e = x
    OBVIOUS
  <2> QED BY <2>1 DEF OnWire
<1> HIDE DEF c, W
<1>6. Load(k, W \cup {c}) = Load(k, W) + Weight(k, c)
  BY <1>2, <1>3, <1>4, LoadAdd
<1> DEFINE H == Held(k, p, w.port[p])
           B == Load(k, AtPorts(w, Port \ {p}))
           L == Load(k, W)
           b == Bytes(k, x.pkt)
<1>7. /\ Load(k, InFab(w)) = (H + B) + L /\ H \in Nat /\ B \in Nat
      /\ Load(k, InFab(w)) \in Nat
  BY <1>1, LoadParts DEF W
<1>8. Load(k, InFab(v)) = (H + B) + (L + b)
  <2>1. AtPorts(v, Port \ {p}) = AtPorts(w, Port \ {p})
    BY DEF AtPorts
  <2>2. /\ Load(k, InFab(v)) = (Held(k, p, v.port[p]) + Load(k, AtPorts(v, Port \ {p})))
                                + Load(k, OnWire(v.events))
    BY <1>1, LoadParts
  <2> QED BY <1>2, <1>5, <1>6, <2>1, <2>2
<1>9. b \in Nat /\ L \in Nat
  BY <1>2, <1>3
<1> HIDE DEF H, B, L, b
<1>10. Load(k, InFab(v)) = Load(k, InFab(w)) + b
  BY <1>7, <1>8, <1>9
<1> QED BY <1>7, <1>9, <1>10 DEF b

-----------------------------------------------------------------------------
(* What each operator does to the books *)

Balanced(w, v) == Shaped(v) /\ \A k \in Kind : Missing(v, k) = Missing(w, k)

(* pkt is owed a place, or has been found one. *)
Takes(w, v, pkt) == Shaped(v) /\ \A k \in Kind : Missing(v, k) = Missing(w, k) + Bytes(k, pkt)

Gives(w, v, pkt) == Shaped(v) /\ \A k \in Kind : Missing(v, k) = Missing(w, k) - Bytes(k, pkt)

SameBooks(w, v) ==
  /\ DOMAIN v = Fields /\ v.port = w.port /\ v.events = w.events /\ v.next_seq = w.next_seq
  /\ v.injected = w.injected /\ v.received = w.received /\ v.dropped = w.dropped

LEMMA SameBooksBalance ==
  ASSUME NEW w, Shaped(w), NEW v, SameBooks(w, v)
  PROVE  Balanced(w, v)
<1>1. Shaped(v)
  BY DEF Shaped, SameBooks
<1>2. InFab(v) = InFab(w)
  BY DEF SameBooks, InFab, AtPorts
<1>3. \A k \in Kind : Missing(v, k) = Missing(w, k)
  BY <1>2 DEF Missing, SameBooks
<1> QED BY <1>1, <1>3 DEF Balanced

(* v is w with one event more, x. *)
Pushed(w, v, x) ==
  /\ Shaped(v)
  /\ v.port = w.port /\ v.injected = w.injected /\ v.received = w.received
  /\ v.dropped = w.dropped
  /\ v.events = w.events \cup {x} /\ x \notin w.events

MayPush(type, port, pkt) == type = "Arrive" => port \in Port /\ pkt \in Packet

LEMMA PushShape ==
  ASSUME NEW w, Shaped(w), NEW t, NEW type, NEW port, NEW pkt, NEW a,
         MayPush(type, port, pkt)
  PROVE  LET v == Push(w, Event(t, type, port, pkt, a))
             x == [Event(t, type, port, pkt, a) EXCEPT !.seq = w.next_seq]
         IN  Pushed(w, v, x) /\ x.type = type /\ x.pkt = pkt
<1> DEFINE v == Push(w, Event(t, type, port, pkt, a))
           x == [Event(t, type, port, pkt, a) EXCEPT !.seq = w.next_seq]
<1>1. /\ x.type = type /\ x.port = port /\ x.pkt = pkt /\ x.seq = w.next_seq
  <2>1. x = [time |-> t, type |-> type, port |-> port, pkt |-> pkt, attempt |-> a,
             seq |-> w.next_seq]
    BY DEF Event
  <2> QED BY <2>1
<1>2. v = [w EXCEPT !.events = @ \cup {x}, !.next_seq = @ + 1]
  BY DEF Push
<1> HIDE DEF v, x
<1>3. /\ DOMAIN v = Fields /\ v.events = w.events \cup {x} /\ v.next_seq = w.next_seq + 1
      /\ v.port = w.port /\ v.injected = w.injected /\ v.received = w.received
      /\ v.dropped = w.dropped
  BY <1>2 DEF Shaped, Fields
<1>4. w.next_seq \in Nat /\ \A e \in w.events : e.seq \in Nat /\ e.seq < w.next_seq
  BY DEF Shaped
<1>5. x \notin w.events
  BY <1>1, <1>4
<1>6. IsFiniteSet(v.events)
  BY <1>3, FS_AddElement DEF Shaped
<1>7. /\ v.next_seq \in Nat
      /\ \A e \in v.events : /\ e.seq \in Nat /\ e.seq < v.next_seq
                             /\ e.type = "Arrive" => e.port \in Port /\ e.pkt \in Packet
  <2>1. \A e \in w.events : e.type = "Arrive" => e.port \in Port /\ e.pkt \in Packet
    BY DEF Shaped
  <2> QED BY <1>1, <1>3, <1>4, <2>1 DEF MayPush
<1>8. \A d, e \in v.events : d.seq = e.seq => d = e
  <2>1. \A d, e \in w.events : d.seq = e.seq => d = e
    BY DEF Shaped
  <2> QED BY <1>1, <1>3, <1>4, <2>1
<1>9. Shaped(v)
  BY <1>3, <1>6, <1>7, <1>8 DEF Shaped
<1>10. Pushed(w, v, x)
  BY <1>3, <1>5, <1>9 DEF Pushed
<1> QED BY <1>1, <1>10 DEF v, x

LEMMA PushBalances ==
  ASSUME NEW w, Shaped(w), NEW t, NEW type, NEW port, NEW pkt, NEW a, type # "Arrive"
  PROVE  Balanced(w, Push(w, Event(t, type, port, pkt, a)))
<1> DEFINE v == Push(w, Event(t, type, port, pkt, a))
           x == [Event(t, type, port, pkt, a) EXCEPT !.seq = w.next_seq]
<1>1. /\ Shaped(v) /\ v.port = w.port /\ v.injected = w.injected
      /\ v.received = w.received /\ v.dropped = w.dropped
      /\ v.events = w.events \cup {x} /\ x.type # "Arrive"
  <2>1. MayPush(type, port, pkt)
    BY DEF MayPush
  <2>2. Pushed(w, v, x) /\ x.type = type
    BY <2>1, PushShape
  <2> HIDE DEF v, x
  <2> QED BY <2>2 DEF Pushed
<1> HIDE DEF v, x
<1>2. Arrivals(v.events) = Arrivals(w.events)
  BY <1>1 DEF Arrivals
<1>3. InFab(v) = InFab(w)
  BY <1>1, <1>2, SameWire DEF InFab, AtPorts
<1>4. \A k \in Kind : Missing(v, k) = Missing(w, k)
  BY <1>1, <1>3 DEF Missing
<1>5. Balanced(w, v)
  BY <1>1, <1>4 DEF Balanced
<1> QED BY <1>5 DEF v

LEMMA PushGives ==
  ASSUME Settled, NEW w, Shaped(w), NEW t, NEW type, type = "Arrive",
         NEW port \in Port, NEW pkt \in Packet, NEW a
  PROVE  Gives(w, Push(w, Event(t, type, port, pkt, a)), pkt)
<1> DEFINE v == Push(w, Event(t, type, port, pkt, a))
           x == [Event(t, type, port, pkt, a) EXCEPT !.seq = w.next_seq]
<1>1. /\ Shaped(v) /\ v.port = w.port /\ v.injected = w.injected
      /\ v.received = w.received /\ v.dropped = w.dropped
      /\ v.events = w.events \cup {x} /\ x \notin w.events
      /\ x.type = "Arrive" /\ x.pkt = pkt
  <2>1. MayPush(type, port, pkt)
    BY DEF MayPush
  <2>2. Pushed(w, v, x) /\ x.type = type /\ x.pkt = pkt
    BY <2>1, PushShape
  <2> HIDE DEF v, x
  <2> QED BY <2>2 DEF Pushed
<1> HIDE DEF v, x
<1>2. ASSUME NEW k \in Kind
      PROVE  Missing(v, k) = Missing(w, k) - Bytes(k, pkt)
  <2>1. /\ Load(k, InFab(v)) = Load(k, InFab(w)) + Bytes(k, pkt)
        /\ Load(k, InFab(w)) \in Nat /\ Bytes(k, pkt) \in Nat
    BY <1>1, WireAdds
  <2>2. w.injected[k] \in Nat /\ w.received[k] \in Nat /\ w.dropped[k] \in Nat
    BY DEF Shaped
  <2> QED BY <1>1, <2>1, <2>2 DEF Missing
<1>3. Gives(w, v, pkt)
  BY <1>1, <1>2 DEF Gives
<1> QED BY <1>3 DEF v

(* v is w with the record of port p replaced. *)
Refitted(w, v, p, r) ==
  /\ DOMAIN v = Fields /\ v.port = [w.port EXCEPT ![p] = r]
  /\ v.events = w.events /\ v.next_seq = w.next_seq
  /\ v.injected = w.injected /\ v.received = w.received /\ v.dropped = w.dropped

LEMMA Refit ==
  ASSUME Settled, NEW w, Shaped(w), NEW p \in Port, NEW r \in PortState, NEW v, Refitted(w, v, p, r)
  PROVE  /\ Shaped(v) /\ v.port[p] = r
         /\ \A k \in Kind : /\ Missing(v, k) = Missing(w, k) + Held(k, p, w.port[p]) - Held(k, p, r)
                            /\ Held(k, p, w.port[p]) \in Nat /\ Held(k, p, r) \in Nat
<1>1. /\ v.port \in [Port -> PortState] /\ v.port[p] = r
      /\ \A q \in Port \ {p} : v.port[q] = w.port[q]
  BY DEF Refitted, Shaped
<1>2. Shaped(v)
  BY <1>1 DEF Shaped, Refitted
<1>3. Arrivals(v.events) = Arrivals(w.events)
  BY DEF Refitted
<1>4. ASSUME NEW k \in Kind
      PROVE  /\ Missing(v, k) = Missing(w, k) + Held(k, p, w.port[p]) - Held(k, p, r)
             /\ Held(k, p, w.port[p]) \in Nat /\ Held(k, p, r) \in Nat
  <2> DEFINE x == Held(k, p, w.port[p])
             y == Held(k, p, v.port[p])
             a == Load(k, InFab(w))
             b == Load(k, InFab(v))
  <2>1. b = (a - x) + y /\ x \in Nat /\ y \in Nat /\ a \in Nat
    BY <1>1, <1>2, <1>3, PortChanges
  <2>2. w.injected[k] \in Nat /\ w.received[k] \in Nat /\ w.dropped[k] \in Nat
    BY DEF Shaped
  <2>3. /\ Missing(w, k) = w.injected[k] - (w.received[k] + w.dropped[k] + a)
        /\ Missing(v, k) = w.injected[k] - (w.received[k] + w.dropped[k] + b)
    BY DEF Missing, Refitted
  <2> HIDE DEF x, y, a, b
  <2>4. Missing(v, k) = Missing(w, k) + x - y
    BY <2>1, <2>2, <2>3
  <2> QED BY <1>1, <2>1, <2>4 DEF x, y
<1> QED BY <1>1, <1>2, <1>4

LEMMA PortParts ==
  ASSUME NEW w, Shaped(w), NEW p \in Port
  PROVE  /\ w.port[p] \in PortState /\ w.port[p].waiting \in Seq(Packet)
         /\ w.port[p].in_flight \in Packet /\ w.port[p].busy \in BOOLEAN
BY DEF Shaped, PortState

LEMMA StartTxBooks ==
  ASSUME Settled, NEW w, Shaped(w), NEW p \in Port, w.port[p].waiting # <<>>
  PROVE  /\ Shaped(start_tx(w, p))
         /\ \A k \in Kind : Missing(start_tx(w, p), k) = Missing(w, k)
              + (IF w.port[p].busy THEN Bytes(k, w.port[p].in_flight) ELSE 0)
<1> DEFINE q == w.port[p].waiting
           pkt == Head(q)
           r == [w.port[p] EXCEPT !.waiting = Tail(q), !.busy = TRUE, !.in_flight = pkt]
           u == [w EXCEPT !.port[p].waiting = Tail(@), !.port[p].busy = TRUE,
                          !.port[p].in_flight = pkt]
           t == w.now + serialization_ns(pkt.bytes, link(p).rate)
           v == Push(u, Event(t, "TxComplete", p, NoPacket, 0))
<1>0. start_tx(w, p) = v
  BY DEF start_tx
<1>1. /\ w.port[p] \in PortState /\ q \in Seq(Packet) /\ q # <<>> /\ pkt \in Packet
      /\ Tail(q) \in Seq(Packet)
  BY PortParts
<1>2. r \in PortState /\ r.waiting = Tail(q) /\ r.busy /\ r.in_flight = pkt
  BY <1>1 DEF PortState
<1>3. Refitted(w, u, p, r)
  BY DEF Shaped, Fields, Refitted
<1>4. /\ Shaped(u)
      /\ \A k \in Kind : /\ Missing(u, k) = Missing(w, k) + Held(k, p, w.port[p]) - Held(k, p, r)
                         /\ Held(k, p, w.port[p]) \in Nat /\ Held(k, p, r) \in Nat
  <2> HIDE DEF u, r
  <2> QED BY <1>2, <1>3, Refit
<1> HIDE DEF u, r, t
<1>5. Balanced(u, v)
  BY <1>4, PushBalances
<1>6. ASSUME NEW k \in Kind
      PROVE  Missing(v, k) = Missing(w, k) + (IF w.port[p].busy THEN Bytes(k, w.port[p].in_flight) ELSE 0)
  <2> DEFINE a == Queued(k, p, q)
             b == Queued(k, p, Tail(q))
             c == IF w.port[p].busy THEN Bytes(k, w.port[p].in_flight) ELSE 0
             d == Bytes(k, pkt)
             x == Held(k, p, w.port[p])
             y == Held(k, p, r)
  <2>1. a = d + b /\ b \in Nat /\ d \in Nat
    BY <1>1, QueuedTail, QueuedType, BytesType
  <2>2. x = a + c /\ y = b + d
    BY <1>2 DEF Held
  <2>3. c \in Nat
    BY <1>1, ServedFacts
  <2>4. Missing(u, k) = Missing(w, k) + x - y /\ Missing(v, k) = Missing(u, k)
    BY <1>4, <1>5 DEF Balanced
  <2>5. Missing(w, k) \in Int
    BY MissingType
  <2> HIDE DEF a, b, c, d, x, y, v
  <2>6. Missing(v, k) = Missing(w, k) + c
    BY <2>1, <2>2, <2>3, <2>4, <2>5
  <2> QED BY <2>6 DEF c
<1>7. Shaped(v)
  BY <1>5 DEF Balanced
<1> QED BY <1>0, <1>6, <1>7

(* Only counters change. *)
LEMMA Recount ==
  ASSUME NEW w, Shaped(w), NEW v, DOMAIN v = Fields, v.port = w.port, v.events = w.events,
         v.next_seq = w.next_seq, v.injected \in [Kind -> Nat], v.received \in [Kind -> Nat],
         v.dropped \in [Kind -> Nat]
  PROVE  Shaped(v) /\ InFab(v) = InFab(w)
BY DEF Shaped, InFab, AtPorts

LEMMA DropGives ==
  ASSUME Settled, NEW w, Shaped(w), NEW p \in Port, NEW pkt \in Packet
  PROVE  Gives(w, Drop(w, p, pkt), pkt)
<1> DEFINE r == [w.port[p] EXCEPT !.dropped = @ + 1]
           u == [w EXCEPT !.port[p].dropped = @ + 1]
           v == Drop(w, p, pkt)
<1>1. w.port[p] \in PortState
  BY PortParts
<1>2. /\ r \in PortState /\ r.waiting = w.port[p].waiting /\ r.busy = w.port[p].busy
      /\ r.in_flight = w.port[p].in_flight
  BY <1>1 DEF PortState
<1>3. Refitted(w, u, p, r)
  BY DEF Shaped, Fields, Refitted
<1>4. /\ DOMAIN v = Fields /\ v.port = u.port /\ v.events = u.events /\ v.next_seq = u.next_seq
      /\ v.injected = u.injected /\ v.received = u.received
      /\ v.dropped = [u.dropped EXCEPT ![pkt.kind] = @ + pkt.bytes]
  BY DEF Drop, Shaped, Fields
<1> HIDE DEF u, v, r
<1>5. /\ Shaped(u)
      /\ \A k \in Kind : /\ Missing(u, k) = Missing(w, k) + Held(k, p, w.port[p]) - Held(k, p, r)
                         /\ Held(k, p, w.port[p]) \in Nat /\ Held(k, p, r) \in Nat
  BY <1>2, <1>3, Refit
<1>6. /\ pkt.kind \in Kind /\ pkt.bytes \in Nat
      /\ u.injected \in [Kind -> Nat] /\ u.received \in [Kind -> Nat] /\ u.dropped \in [Kind -> Nat]
  BY <1>5 DEF Packet, Shaped
<1>7. v.dropped \in [Kind -> Nat] /\ \A k \in Kind : v.dropped[k] = u.dropped[k] + Bytes(k, pkt)
  <2>1. v.dropped \in [Kind -> Nat]
    BY <1>4, <1>6
  <2>2. ASSUME NEW k \in Kind PROVE v.dropped[k] = u.dropped[k] + Bytes(k, pkt)
    BY <1>4, <1>6 DEF Bytes
  <2> QED BY <2>1, <2>2
<1>8. Shaped(v) /\ InFab(v) = InFab(u)
  BY <1>4, <1>5, <1>6, <1>7, Recount
<1>9. ASSUME NEW k \in Kind
      PROVE  Missing(v, k) = Missing(w, k) - Bytes(k, pkt)
  <2> DEFINE a == Load(k, InFab(u))
             x == Held(k, p, w.port[p])
             y == Held(k, p, r)
             b == Bytes(k, pkt)
  <2>1. a \in Nat /\ b \in Nat /\ x \in Nat
    BY <1>5, FabLoad, BytesType
  <2>2. x = y
    BY <1>2 DEF Held
  <2>3. Missing(u, k) = Missing(w, k) + x - y
    BY <1>5
  <2>4. Missing(w, k) \in Int
    BY MissingType
  <2>5. Missing(u, k) = Missing(w, k)
    <3> HIDE DEF x, y
    <3> QED BY <2>1, <2>2, <2>3, <2>4
  <2>6. /\ Missing(u, k) = u.injected[k] - (u.received[k] + u.dropped[k] + a)
        /\ Missing(v, k) = u.injected[k] - (u.received[k] + (u.dropped[k] + b) + a)
    BY <1>4, <1>7, <1>8 DEF Missing
  <2>7. u.injected[k] \in Nat /\ u.received[k] \in Nat /\ u.dropped[k] \in Nat
    BY <1>6
  <2> HIDE DEF a, b
  <2>8. Missing(v, k) = Missing(w, k) - b
    BY <2>1, <2>5, <2>6, <2>7
  <2> QED BY <2>8 DEF b
<1>10. Gives(w, v, pkt)
  BY <1>8, <1>9 DEF Gives
<1> QED BY <1>10 DEF v

LEMMA EnqueueGives ==
  ASSUME Settled, NEW w, Shaped(w), NEW p \in Port, NEW pkt \in Packet
  PROVE  Gives(w, enqueue(w, p, pkt), pkt)
<1>1. CASE Len(w.port[p].waiting) = link(p).queue_capacity_pkts
  BY <1>1, DropGives DEF enqueue
<1>2. CASE Len(w.port[p].waiting) # link(p).queue_capacity_pkts
  <2> DEFINE q == w.port[p].waiting
             s == Append(q, pkt)
             r == [w.port[p] EXCEPT !.waiting = s]
             u == [w EXCEPT !.port[p].waiting = Append(@, pkt)]
             v == StartIdle(u, p)
  <2>1. /\ w.port[p] \in PortState /\ q \in Seq(Packet) /\ s \in Seq(Packet) /\ s # <<>>
    BY PortParts
  <2>2. /\ r \in PortState /\ r.waiting = s /\ r.busy = w.port[p].busy
        /\ r.in_flight = w.port[p].in_flight
    BY <2>1 DEF PortState
  <2>3. Refitted(w, u, p, r)
    BY DEF Shaped, Fields, Refitted
  <2>4. enqueue(w, p, pkt) = v
    BY <1>2 DEF enqueue
  <2> HIDE DEF u, r
  <2>5. /\ Shaped(u) /\ u.port[p] = r
        /\ \A k \in Kind : /\ Missing(u, k) = Missing(w, k) + Held(k, p, w.port[p]) - Held(k, p, r)
                           /\ Held(k, p, w.port[p]) \in Nat /\ Held(k, p, r) \in Nat
    BY <2>2, <2>3, Refit
  <2>6. ASSUME NEW k \in Kind
        PROVE  Missing(u, k) = Missing(w, k) - Bytes(k, pkt) /\ Missing(u, k) \in Int
    <3> DEFINE a == Queued(k, p, q)
               c == IF w.port[p].busy THEN Bytes(k, w.port[p].in_flight) ELSE 0
               d == Bytes(k, pkt)
               x == Held(k, p, w.port[p])
               y == Held(k, p, r)
    <3>1. Queued(k, p, s) = a + d /\ a \in Nat /\ d \in Nat
      BY <2>1, QueuedAppend, QueuedType, BytesType
    <3>2. x = a + c /\ y = (a + d) + c
      BY <2>2, <3>1 DEF Held
    <3>3. c \in Nat
      BY <2>1, ServedFacts
    <3>4. Missing(u, k) = Missing(w, k) + x - y /\ Missing(w, k) \in Int
      BY <2>5, MissingType
    <3> HIDE DEF a, c, d, x, y
    <3>5. Missing(u, k) = Missing(w, k) - d /\ Missing(u, k) \in Int
      BY <3>1, <3>2, <3>3, <3>4
    <3> QED BY <3>5 DEF d
  <2>7. Balanced(u, v)
    <3>1. CASE r.busy
      <4>1. v = u
        BY <2>5, <3>1 DEF StartIdle
      <4> QED BY <2>5, <4>1 DEF Balanced
    <3>2. CASE ~r.busy
      <4>1. v = start_tx(u, p) /\ u.port[p].waiting # <<>>
        BY <2>1, <2>2, <2>5, <3>2 DEF StartIdle
      <4> HIDE DEF v
      <4>2. /\ Shaped(v)
            /\ \A k \in Kind : Missing(v, k) = Missing(u, k)
                 + (IF u.port[p].busy THEN Bytes(k, u.port[p].in_flight) ELSE 0)
        BY <2>5, <4>1, StartTxBooks
      <4>3. \A k \in Kind : Missing(v, k) = Missing(u, k)
        BY <2>5, <2>6, <3>2, <4>2
      <4> QED BY <4>2, <4>3 DEF Balanced
    <3> QED BY <3>1, <3>2
  <2> HIDE DEF v
  <2> QED BY <2>4, <2>6, <2>7 DEF Gives, Balanced
<1> QED BY <1>1, <1>2

LEMMA TxCompleteBalances ==
  ASSUME Settled, NEW w, Shaped(w), NEW e, e.port \in Port, w.port[e.port].busy
  PROVE  Balanced(w, on_tx_complete(w, e))
<1> DEFINE p == e.port
           r == [w.port[p] EXCEPT !.sent = @ + 1]
           pkt == w.port[p].in_flight
           u == [w EXCEPT !.port[p].sent = @ + 1]
           t == w.now + link(p).prop_delay_ns
           v == Push(u, Event(t, "Arrive", p, pkt, 0))
           x == IF v.port[p].waiting # <<>> THEN start_tx(v, p) ELSE [v EXCEPT !.port[p].busy = FALSE]
<1>0. on_tx_complete(w, e) = x
  BY DEF on_tx_complete
<1>1. p \in Port /\ w.port[p] \in PortState /\ pkt \in Packet
  BY PortParts
<1>2. /\ r \in PortState /\ r.waiting = w.port[p].waiting /\ r.busy = w.port[p].busy
      /\ r.in_flight = pkt
  <2> DEFINE y == w.port[p]
  <2> HIDE DEF y
  <2>1. y \in PortState
    BY <1>1 DEF y
  <2>2. LET z == [y EXCEPT !.sent = @ + 1]
        IN  z \in PortState /\ z.waiting = y.waiting /\ z.busy = y.busy /\ z.in_flight = y.in_flight
    BY <2>1 DEF PortState
  <2> QED BY <2>2 DEF y
<1>3. Refitted(w, u, p, r)
  BY DEF Shaped, Fields, Refitted
<1>4. v.port = u.port
  BY <1>3 DEF Push, Refitted, Fields
<1> HIDE DEF u, r, x, p, pkt
<1>5. /\ Shaped(u) /\ u.port[p] = r
      /\ \A k \in Kind : /\ Missing(u, k) = Missing(w, k) + Held(k, p, w.port[p]) - Held(k, p, r)
                         /\ Held(k, p, w.port[p]) \in Nat /\ Held(k, p, r) \in Nat
  BY <1>1, <1>2, <1>3, Refit
<1>6. \A k \in Kind : Missing(u, k) = Missing(w, k) /\ Missing(u, k) \in Int
  <2>1. ASSUME NEW k \in Kind
        PROVE  Missing(u, k) = Missing(w, k) /\ Missing(u, k) \in Int
    <3>1. Held(k, p, w.port[p]) = Held(k, p, r)
      BY <1>2 DEF Held, pkt
    <3>2. Missing(w, k) \in Int
      BY MissingType
    <3> QED BY <1>5, <3>1, <3>2
  <2> QED BY <2>1
<1>7. Gives(u, v, pkt)
  <2> HIDE DEF t
  <2>1. \A type : type = "Arrive" => Gives(u, Push(u, Event(t, type, p, pkt, 0)), pkt)
    BY <1>1, <1>5, PushGives
  <2> QED BY <2>1
<1>8. v.port[p].busy /\ v.port[p].in_flight = pkt
  BY <1>2, <1>4, <1>5 DEF p
<1> HIDE DEF v
<1>9. Shaped(v) /\ \A k \in Kind : Missing(v, k) = Missing(w, k) - Bytes(k, pkt)
  BY <1>6, <1>7 DEF Gives
<1>10. \A k \in Kind : Missing(w, k) \in Int /\ Bytes(k, pkt) \in Nat
  BY <1>1, MissingType, BytesType
<1>11. CASE v.port[p].waiting # <<>>
  <2>1. x = start_tx(v, p)
    BY <1>11 DEF x
  <2>2. /\ Shaped(x)
        /\ \A k \in Kind : Missing(x, k) = Missing(v, k)
             + (IF v.port[p].busy THEN Bytes(k, v.port[p].in_flight) ELSE 0)
    BY <1>1, <1>9, <1>11, <2>1, StartTxBooks
  <2>3. \A k \in Kind : Missing(x, k) = Missing(w, k)
    BY <1>8, <1>9, <1>10, <2>2
  <2> QED BY <1>0, <2>2, <2>3 DEF Balanced
<1>12. CASE v.port[p].waiting = <<>>
  <2> DEFINE s == [v.port[p] EXCEPT !.busy = FALSE]
  <2>1. x = [v EXCEPT !.port[p].busy = FALSE]
    BY <1>12 DEF x
  <2>2. v.port[p] \in PortState
    BY <1>1, <1>9, PortParts
  <2>3. s \in PortState /\ s.waiting = v.port[p].waiting /\ ~s.busy
    BY <2>2 DEF PortState
  <2>4. Refitted(v, x, p, s)
    BY <1>9, <2>1 DEF Shaped, Fields, Refitted
  <2> HIDE DEF s
  <2>5. /\ Shaped(x)
        /\ \A k \in Kind : /\ Missing(x, k) = Missing(v, k) + Held(k, p, v.port[p]) - Held(k, p, s)
                           /\ Held(k, p, v.port[p]) \in Nat /\ Held(k, p, s) \in Nat
    BY <1>1, <1>9, <2>3, <2>4, Refit
  <2>6. ASSUME NEW k \in Kind PROVE Missing(x, k) = Missing(w, k)
    <3> DEFINE a == Queued(k, p, v.port[p].waiting)
               b == Bytes(k, pkt)
    <3>1. a \in Nat /\ b \in Nat /\ Missing(w, k) \in Int
      BY <1>1, <1>9, <1>10, PortParts, QueuedType
    <3>2. Held(k, p, v.port[p]) = a + b /\ Held(k, p, s) = a + 0
      BY <1>8, <2>3 DEF Held
    <3>3. Missing(x, k) = Missing(v, k) + Held(k, p, v.port[p]) - Held(k, p, s)
          /\ Missing(v, k) = Missing(w, k) - b
      BY <1>9, <2>5
    <3> HIDE DEF a, b
    <3> QED BY <3>1, <3>2, <3>3
  <2> QED BY <1>0, <2>5, <2>6 DEF Balanced
<1> QED BY <1>11, <1>12

LEMMA BalancedTrans ==
  ASSUME NEW u, NEW v, NEW w, Balanced(u, v), Balanced(v, w)
  PROVE  Balanced(u, w)
BY DEF Balanced

(* What is taken and then given is found a place. *)
LEMMA TakesGives ==
  ASSUME Settled, NEW u, Shaped(u), NEW v, NEW w, NEW pkt \in Packet, Takes(u, v, pkt), Gives(v, w, pkt)
  PROVE  Balanced(u, w)
<1>1. ASSUME NEW k \in Kind PROVE Missing(w, k) = Missing(u, k)
  <2>1. Missing(u, k) \in Int /\ Bytes(k, pkt) \in Nat
    BY MissingType, BytesType
  <2>2. Missing(v, k) = Missing(u, k) + Bytes(k, pkt) /\ Missing(w, k) = Missing(v, k) - Bytes(k, pkt)
    BY DEF Takes, Gives
  <2> QED BY <2>1, <2>2
<1> QED BY <1>1 DEF Balanced, Gives

LEMMA BalancedTakes ==
  ASSUME NEW u, NEW v, NEW w, NEW pkt, Takes(u, v, pkt), Balanced(v, w)
  PROVE  Takes(u, w, pkt)
BY DEF Balanced, Takes

(* The bytes of a packet are counted as injected, or as received. *)
Counter(w, v, injected, received) ==
  /\ DOMAIN v = Fields /\ v.port = w.port /\ v.events = w.events /\ v.next_seq = w.next_seq
  /\ v.injected = injected /\ v.received = received /\ v.dropped = w.dropped

LEMMA InjectedTakes ==
  ASSUME Settled, NEW w, Shaped(w), NEW pkt \in Packet, NEW v,
         Counter(w, v, [w.injected EXCEPT ![pkt.kind] = @ + pkt.bytes], w.received)
  PROVE  Takes(w, v, pkt)
<1>1. /\ pkt.kind \in Kind /\ pkt.bytes \in Nat
      /\ w.injected \in [Kind -> Nat] /\ w.received \in [Kind -> Nat] /\ w.dropped \in [Kind -> Nat]
  BY DEF Packet, Shaped
<1>2. v.injected \in [Kind -> Nat] /\ \A k \in Kind : v.injected[k] = w.injected[k] + Bytes(k, pkt)
  BY <1>1 DEF Counter, Bytes
<1>3. Shaped(v) /\ InFab(v) = InFab(w)
  BY <1>1, <1>2, Recount DEF Counter
<1>4. ASSUME NEW k \in Kind PROVE Missing(v, k) = Missing(w, k) + Bytes(k, pkt)
  <2> DEFINE a == Load(k, InFab(w))
             b == Bytes(k, pkt)
  <2>1. a \in Nat /\ b \in Nat
    BY FabLoad, BytesType
  <2>2. w.injected[k] \in Nat /\ w.received[k] \in Nat /\ w.dropped[k] \in Nat
    BY <1>1
  <2>3. /\ Missing(w, k) = w.injected[k] - (w.received[k] + w.dropped[k] + a)
        /\ Missing(v, k) = (w.injected[k] + b) - (w.received[k] + w.dropped[k] + a)
    BY <1>2, <1>3 DEF Missing, Counter
  <2> HIDE DEF a, b
  <2>4. Missing(v, k) = Missing(w, k) + b
    BY <2>1, <2>2, <2>3
  <2> QED BY <2>4 DEF b
<1> QED BY <1>3, <1>4 DEF Takes

LEMMA ReceivedGives ==
  ASSUME Settled, NEW w, Shaped(w), NEW pkt \in Packet, NEW v,
         Counter(w, v, w.injected, [w.received EXCEPT ![pkt.kind] = @ + pkt.bytes])
  PROVE  Gives(w, v, pkt)
<1>1. /\ pkt.kind \in Kind /\ pkt.bytes \in Nat
      /\ w.injected \in [Kind -> Nat] /\ w.received \in [Kind -> Nat] /\ w.dropped \in [Kind -> Nat]
  BY DEF Packet, Shaped
<1>2. v.received \in [Kind -> Nat] /\ \A k \in Kind : v.received[k] = w.received[k] + Bytes(k, pkt)
  BY <1>1 DEF Counter, Bytes
<1>3. Shaped(v) /\ InFab(v) = InFab(w)
  BY <1>1, <1>2, Recount DEF Counter
<1>4. ASSUME NEW k \in Kind PROVE Missing(v, k) = Missing(w, k) - Bytes(k, pkt)
  <2> DEFINE a == Load(k, InFab(w))
             b == Bytes(k, pkt)
  <2>1. a \in Nat /\ b \in Nat
    BY FabLoad, BytesType
  <2>2. w.injected[k] \in Nat /\ w.received[k] \in Nat /\ w.dropped[k] \in Nat
    BY <1>1
  <2>3. /\ Missing(w, k) = w.injected[k] - (w.received[k] + w.dropped[k] + a)
        /\ Missing(v, k) = w.injected[k] - ((w.received[k] + b) + w.dropped[k] + a)
    BY <1>2, <1>3 DEF Missing, Counter
  <2> HIDE DEF a, b
  <2>4. Missing(v, k) = Missing(w, k) - b
    BY <2>1, <2>2, <2>3
  <2> QED BY <2>4 DEF b
<1> QED BY <1>3, <1>4 DEF Gives

(* What a turn of the send loop needs to know of its sender. *)
TxFields == {"next_seq", "in_flight", "retx", "next_send_ns", "send_scheduled", "failed"}

Sourced(w, f) ==
  /\ f \in DOMAIN w.tx /\ DOMAIN w.tx[f] = TxFields
  /\ w.tx[f].retx \in Seq(Index(f)) /\ w.tx[f].next_seq \in Nat

LEMMA PushTx ==
  ASSUME NEW w, DOMAIN w = Fields, NEW e
  PROVE  Push(w, e).tx = w.tx /\ DOMAIN Push(w, e) = Fields
BY DEF Push, Fields

LEMMA StartTxTx ==
  ASSUME NEW w, DOMAIN w = Fields, NEW p
  PROVE  start_tx(w, p).tx = w.tx
<1> DEFINE u == [w EXCEPT !.port[p].waiting = Tail(@), !.port[p].busy = TRUE,
                          !.port[p].in_flight = Head(w.port[p].waiting)]
<1>1. u.tx = w.tx /\ DOMAIN u = Fields
  BY DEF Fields
<1> HIDE DEF u
<1>2. \A e : Push(u, e).tx = w.tx
  BY <1>1, PushTx
<1> QED BY <1>2 DEF start_tx, u

LEMMA EnqueueTx ==
  ASSUME NEW w, DOMAIN w = Fields, NEW p, NEW pkt
  PROVE  enqueue(w, p, pkt).tx = w.tx
<1> DEFINE u == [w EXCEPT !.port[p].waiting = Append(@, pkt)]
<1>1. u.tx = w.tx /\ DOMAIN u = Fields
  BY DEF Fields
<1>2. Drop(w, p, pkt).tx = w.tx
  BY DEF Drop, Fields
<1> HIDE DEF u
<1>3. StartIdle(u, p).tx = w.tx
  BY <1>1, StartTxTx DEF StartIdle
<1> QED BY <1>2, <1>3 DEF enqueue, u

LEMMA SendBalances ==
  ASSUME Settled, NEW w, Shaped(w), NEW f \in Flow, Sourced(w, f), NEW i \in Index(f)
  PROVE  Balanced(w, send_packet(w, f, i)) /\ Sourced(send_packet(w, f, i), f)
<1> DEFINE pkt == DataPacket(f, i)
           again == IF w.attempt[f][i] > 0 THEN 1 ELSE 0
           v == [w EXCEPT !.flying[f] = @ \cup {i},
                     !.tx[f].in_flight = @ + 1,
                     !.tx[f].next_send_ns = w.now + period_ns(f),
                     !.injected["Data"] = @ + pkt.bytes,
                     !.result[f].packets_retransmitted = @ + again]
           u == SetTimer(v, f, i)
           p == nic(spec[f].src)
           x == enqueue(u, p, pkt)
<1>1. send_packet(w, f, i) = x
  BY DEF send_packet
<1>2. p \in Port /\ pkt \in Packet /\ pkt.kind = "Data"
  <2>1. IsPacket(pkt) /\ p \in Port
    BY SendFacts
  <2> QED BY <2>1, IsPacketTyped DEF DataPacket
<1>3. DOMAIN w = Fields
  BY DEF Shaped
<1>4. /\ Counter(w, v, [w.injected EXCEPT !["Data"] = @ + pkt.bytes], w.received)
      /\ v.tx = [w.tx EXCEPT ![f].in_flight = @ + 1, ![f].next_send_ns = w.now + period_ns(f)]
  BY <1>3 DEF Counter, Fields
<1>5. Sourced(v, f)
  BY <1>4 DEF Sourced, TxFields
<1> HIDE DEF v, p, pkt
<1>6. Takes(w, v, pkt)
  BY <1>2, <1>4, InjectedTakes
<1>7. Balanced(v, u)
  <2>1. Shaped(v)
    BY <1>6 DEF Takes
  <2> QED BY <2>1, PushBalances DEF SetTimer
<1>8. u.tx = v.tx
  BY <1>4, PushTx DEF Counter, SetTimer
<1> HIDE DEF u, x
<1>9. Takes(w, u, pkt) /\ Shaped(u)
  BY <1>6, <1>7, BalancedTakes DEF Balanced
<1>10. Gives(u, x, pkt)
  BY <1>2, <1>9, EnqueueGives DEF x
<1>11. Balanced(w, x)
  BY <1>2, <1>9, <1>10, TakesGives
<1>12. x.tx = v.tx
  BY <1>8, <1>9, EnqueueTx DEF x, Shaped
<1> QED BY <1>1, <1>5, <1>11, <1>12 DEF Sourced

(* w with the ring and the next index of f replaced is as good a source. *)
LEMMA RepointedSource ==
  ASSUME NEW w, Shaped(w), NEW f, Sourced(w, f), NEW ring \in Seq(Index(f)), NEW next \in Nat,
         NEW v, Repointed(w, v, f, ring, next)
  PROVE  Balanced(w, v) /\ Sourced(v, f)
<1>1. SameBooks(w, v)
  BY DEF Repointed, SameBooks
<1>2. Sourced(v, f)
  BY DEF Repointed, Sourced, TxFields
<1> QED BY <1>1, <1>2, SameBooksBalance

LEMMA TurnBalances ==
  ASSUME Settled, NEW w, Shaped(w), NEW f \in Flow, Sourced(w, f)
  PROVE  Balanced(w, Turn(w, f)) /\ Sourced(Turn(w, f), f)
<1> DEFINE t == w.tx[f]
           live == {k \in 1 .. Len(t.retx) : t.retx[k] \notin w.acked[f]}
           j == Min(live)
           a == [w EXCEPT !.tx[f].send_scheduled = TRUE]
           b == [w EXCEPT !.tx[f].retx = SubSeq(@, j + 1, Len(@))]
           c == [w EXCEPT !.tx[f].retx = <<>>]
           d == [w EXCEPT !.tx[f].retx = <<>>, !.tx[f].next_seq = @ + 1]
           v == Turn(w, f)
<1>0. SUFFICES Balanced(w, v) /\ Sourced(v, f)
  OBVIOUS
<1>1. DOMAIN w = Fields
  BY DEF Shaped
<1>2. /\ f \in DOMAIN w.tx /\ DOMAIN t = TxFields
      /\ t.retx \in Seq(Index(f)) /\ t.next_seq \in Nat
  BY DEF Sourced
<1>3. Balanced(w, w)
  BY DEF Balanced
<1>4. CASE v = w
  BY <1>3, <1>4
<1>5. CASE v = Push(a, Inject(t.next_send_ns, f))
  <2>1. SameBooks(w, a) /\ Sourced(a, f)
    BY <1>1, <1>2 DEF SameBooks, Sourced, Fields, TxFields
  <2> HIDE DEF a, v
  <2>2. Balanced(w, a)
    BY <2>1, SameBooksBalance
  <2>3. Balanced(a, v)
    BY <1>5, <2>2, PushBalances DEF Inject, Balanced
  <2>4. v.tx = a.tx
    BY <1>5, <2>1, PushTx DEF SameBooks
  <2> QED BY <2>1, <2>2, <2>3, <2>4, BalancedTrans DEF Sourced
<1>6. CASE live # {} /\ v = send_packet(b, f, t.retx[j])
  <2>1. Len(t.retx) \in Nat /\ live \subseteq Nat
    BY <1>2
  <2>2. j \in live
    <3> HIDE DEF live
    <3> QED BY <1>6, <2>1, NatMinimum
  <2>3. j \in 1 .. Len(t.retx)
    BY <2>2
  <2> HIDE DEF j
  <2>4. t.retx[j] \in Index(f)
    BY <1>2, <2>3
  <2> DEFINE s == SubSeq(t.retx, j + 1, Len(t.retx))
  <2>5. s \in Seq(Index(f))
    <3>1. \A k \in j + 1 .. Len(t.retx) : k \in 1 .. Len(t.retx)
      BY <2>1, <2>3
    <3>2. \A k \in j + 1 .. Len(t.retx) : t.retx[k] \in Index(f)
      BY <1>2, <3>1
    <3> QED BY <1>2, <2>3, SubSeqProperties
  <2> HIDE DEF s
  <2>6. b = [w EXCEPT !.tx[f].retx = s]
    BY DEF s
  <2> HIDE DEF b, v
  <2>7. SameBooks(w, b) /\ Sourced(b, f)
    BY <1>1, <1>2, <2>5, <2>6 DEF SameBooks, Sourced, Fields, TxFields
  <2>8. Balanced(w, b)
    BY <2>7, SameBooksBalance
  <2>9. Balanced(b, v) /\ Sourced(v, f)
    BY <1>6, <2>4, <2>7, <2>8, SendBalances DEF Balanced
  <2> QED BY <2>8, <2>9, BalancedTrans
<1>7. CASE v = c
  <2>1. SameBooks(w, c) /\ Sourced(c, f)
    BY <1>1, <1>2 DEF SameBooks, Sourced, Fields, TxFields
  <2> HIDE DEF c, v
  <2> QED BY <1>7, <2>1, SameBooksBalance
<1>8. CASE ~(t.next_seq >= Packets(f)) /\ v = send_packet(d, f, t.next_seq)
  <2>1. t.next_seq \in Index(f)
    <3>1. Packets(f) \in Nat
      BY PacketsFacts
    <3> QED BY <1>2, <1>8, <3>1 DEF Index
  <2>2. SameBooks(w, d) /\ Sourced(d, f)
    BY <1>1, <1>2 DEF SameBooks, Sourced, Fields, TxFields
  <2> HIDE DEF d, v
  <2>3. Balanced(w, d)
    BY <2>2, SameBooksBalance
  <2>4. Balanced(d, v) /\ Sourced(v, f)
    BY <1>8, <2>1, <2>2, <2>3, SendBalances DEF Balanced
  <2> QED BY <2>3, <2>4, BalancedTrans
<1>9. \/ v = w \/ v = Push(a, Inject(t.next_send_ns, f))
      \/ live # {} /\ v = send_packet(b, f, t.retx[j])
      \/ v = c
      \/ ~(t.next_seq >= Packets(f)) /\ v = send_packet(d, f, t.next_seq)
  BY DEF Turn
<1> HIDE DEF v
<1> QED BY <1>4, <1>5, <1>6, <1>7, <1>8, <1>9

LEMMA SendLoopBalances ==
  ASSUME Settled, NEW w, Shaped(w), NEW f \in Flow, Sourced(w, f)
  PROVE  Balanced(w, SendLoop(w, f)) /\ Sourced(SendLoop(w, f), f)
<1>1. PICK N : N = Window(f)
  OBVIOUS
<1>2. N \in Nat /\ \E t : IsLoop("send", f, w, N, t) /\ SendLoop(w, f) = t[N]
  BY <1>1, SendLoopIs DEF SendLoopShape
<1>3. PICK t : IsLoop("send", f, w, N, t) /\ SendLoop(w, f) = t[N]
  BY <1>2
<1>4. t[0] = w /\ \A n \in 1 .. N : t[n] = Turn(t[n - 1], f)
  <2>1. 0 \in 0 .. N /\ \A n \in 1 .. N : n \in 0 .. N /\ n # 0
    BY <1>2
  <2> QED BY <1>3, <2>1 DEF IsLoop, LoopBody
<1> DEFINE Q(n) == Balanced(w, t[n]) /\ Sourced(t[n], f)
           T == {n \in 0 .. N : ~Q(n)}
<1>5. T = {}
  <2>1. SUFFICES ASSUME T # {} PROVE FALSE
    OBVIOUS
  <2> DEFINE m == Min(T)
  <2>2. m \in T /\ \A n \in T : m <= n
    <3>1. T \subseteq Nat
      BY <1>2
    <3> HIDE DEF T
    <3> QED BY <2>1, <3>1, NatMinimum
  <2>3. m \in 0 .. N /\ ~Q(m)
    BY <2>2
  <2> HIDE DEF m
  <2>4. Q(0)
    BY <1>4 DEF Balanced
  <2>5. m \in 1 .. N /\ m - 1 \in 0 .. N /\ m - 1 \notin T
    <3>1. m # 0
      BY <2>3, <2>4
    <3> HIDE DEF T
    <3> QED BY <1>2, <2>2, <2>3, <3>1
  <2>6. Balanced(w, t[m - 1]) /\ Sourced(t[m - 1], f)
    BY <2>5
  <2>7. t[m] = Turn(t[m - 1], f)
    BY <1>4, <2>5
  <2>8. Balanced(t[m - 1], t[m]) /\ Sourced(t[m], f)
    BY <2>6, <2>7, TurnBalances DEF Balanced
  <2> QED BY <2>3, <2>6, <2>8, BalancedTrans
<1> QED BY <1>2, <1>3, <1>5

LEMMA TrySendBalances ==
  ASSUME Settled, NEW w, Shaped(w), NEW f \in Flow, Sourced(w, f)
  PROVE  Balanced(w, try_send(w, f))
<1>1. Balanced(w, w)
  BY DEF Balanced
<1> QED BY <1>1, SendLoopBalances DEF try_send

LEMMA WindowedSourced ==
  ASSUME Settled, NEW w, Typed(w), NEW f \in Flow, Windowed(w, f)
  PROVE  Sourced(w, f)
<1> DEFINE t == w.tx[f]
           r == t.retx
<1>1. t \in TxState /\ f \in DOMAIN w.tx
  BY FlowTyped DEF Typed
<1>2. /\ DOMAIN t = TxFields /\ t.next_seq \in Nat /\ r \in Seq(Nat)
  BY <1>1 DEF TxState, TxFields
<1>3. t.next_seq <= Packets(f) /\ InRing(t) \subseteq 0 .. t.next_seq - 1
  BY DEF Windowed
<1>4. Packets(f) \in Nat
  BY PacketsFacts
<1>5. \A k \in 1 .. Len(r) : r[k] \in Index(f)
  <2>1. \A k \in 1 .. Len(r) : r[k] \in 0 .. t.next_seq - 1
    BY <1>3 DEF InRing
  <2>2. \A x \in 0 .. t.next_seq - 1 : x \in 0 .. Packets(f) - 1
    <3> DEFINE n == t.next_seq
               m == Packets(f)
    <3>1. n \in Nat /\ m \in Nat /\ n <= m
      BY <1>2, <1>3, <1>4
    <3> HIDE DEF n, m
    <3>2. \A x \in 0 .. n - 1 : x \in 0 .. m - 1
      BY <3>1
    <3> QED BY <3>2 DEF n, m
  <2> QED BY <2>1, <2>2 DEF Index
<1> HIDE DEF r
<1>6. r \in Seq(Index(f))
  <2>1. Len(r) \in Nat /\ r = [k \in 1 .. Len(r) |-> r[k]]
    BY <1>2
  <2> QED BY <1>5, <2>1
<1> QED BY <1>1, <1>2, <1>6 DEF Sourced, r

LEMMA SameTxSourced ==
  ASSUME NEW w, NEW f, Sourced(w, f), NEW v, v.tx = w.tx
  PROVE  Sourced(v, f)
BY DEF Sourced

LEMMA LandBooks ==
  ASSUME NEW w, Shaped(w), NEW f, Sourced(w, f), NEW i
  PROVE  LET v == Land(w, f, i) IN SameBooks(w, v) /\ Sourced(v, f)
<1> DEFINE v == [w EXCEPT !.flying[f] = @ \ {i}, !.tx[f].in_flight = @ - 1]
<1>1. DOMAIN w = Fields
  BY DEF Shaped
<1>2. SameBooks(w, v) /\ Sourced(v, f)
  BY <1>1 DEF SameBooks, Sourced, Fields, TxFields
<1>3. SameBooks(w, w)
  BY <1>1 DEF SameBooks
<1> HIDE DEF v
<1> QED BY <1>2, <1>3 DEF Land, v

(* An event taken off the queue: what arrives is owed a place. *)
PopsTo(w, v, e) ==
  IF e.type = "Arrive" THEN Takes(w, v, e.pkt) ELSE Balanced(w, v)

LEMMA PoppedBooks ==
  ASSUME Settled, NEW w, Shaped(w), NEW e \in w.events
  PROVE  PopsTo(w, Popped(w, e), e) /\ Shaped(Popped(w, e))
<1> DEFINE v == Popped(w, e)
<1>1. /\ DOMAIN v = Fields /\ v.events = w.events \ {e} /\ v.next_seq = w.next_seq
      /\ v.port = w.port /\ v.injected = w.injected /\ v.received = w.received
      /\ v.dropped = w.dropped
  BY DEF Popped, Shaped, Fields
<1> HIDE DEF v
<1>2. IsFiniteSet(v.events)
  BY <1>1, FS_Subset DEF Shaped
<1>3. Shaped(v)
  BY <1>1, <1>2 DEF Shaped
<1>4. CASE e.type = "Arrive"
  <2>1. e \notin v.events /\ w.events = v.events \cup {e}
    BY <1>1
  <2>2. ASSUME NEW k \in Kind
        PROVE  Missing(v, k) = Missing(w, k) + Bytes(k, e.pkt)
    <3> DEFINE a == Load(k, InFab(v))
               b == Bytes(k, e.pkt)
    <3>1. /\ Load(k, InFab(w)) = a + b /\ a \in Nat /\ b \in Nat
      <4>1. w.port = v.port
        BY <1>1
      <4> QED BY ONLY Settled, Shaped(w), <1>3, <1>4, <2>1, <4>1, WireAdds, Z3
    <3>2. w.injected[k] \in Nat /\ w.received[k] \in Nat /\ w.dropped[k] \in Nat
      BY DEF Shaped
    <3>3. /\ Missing(w, k) = w.injected[k] - (w.received[k] + w.dropped[k] + Load(k, InFab(w)))
          /\ Missing(v, k) = w.injected[k] - (w.received[k] + w.dropped[k] + a)
      BY <1>1 DEF Missing
    <3> HIDE DEF a, b
    <3>4. Missing(v, k) = Missing(w, k) + b
      BY <3>1, <3>2, <3>3
    <3> QED BY <3>4 DEF b
  <2>3. Takes(w, v, e.pkt)
    BY <1>3, <2>2 DEF Takes
  <2> QED BY <1>3, <1>4, <2>3 DEF PopsTo, v
<1>5. CASE e.type # "Arrive"
  <2>1. Arrivals(v.events) = Arrivals(w.events)
    BY <1>1, <1>5 DEF Arrivals
  <2>2. InFab(v) = InFab(w)
    BY <1>1, <2>1, SameWire DEF InFab, AtPorts
  <2>3. Balanced(w, v)
    BY <1>1, <1>3, <2>2 DEF Balanced, Missing
  <2> QED BY <1>3, <1>5, <2>3 DEF PopsTo, v
<1> QED BY <1>4, <1>5

-----------------------------------------------------------------------------
(* The handlers *)

LEMMA OnInjectBalances ==
  ASSUME Settled, NEW w, Shaped(w), NEW e, e.pkt.flow \in Flow, Sourced(w, e.pkt.flow)
  PROVE  Balanced(w, on_inject(w, e))
<1> DEFINE f == e.pkt.flow
           v == [w EXCEPT !.tx[f].send_scheduled = FALSE]
<1>1. SameBooks(w, v) /\ Sourced(v, f)
  BY DEF Shaped, SameBooks, Sourced, Fields, TxFields
<1>2. on_inject(w, e) = try_send(v, f)
  BY DEF on_inject
<1> HIDE DEF v
<1>3. Balanced(w, v)
  BY <1>1, SameBooksBalance
<1>4. Balanced(v, try_send(v, f))
  BY <1>1, <1>3, TrySendBalances DEF Balanced
<1> QED BY <1>2, <1>3, <1>4, BalancedTrans

LEMMA OnAckBalances ==
  ASSUME Settled, NEW w, Shaped(w), NEW f \in Flow, Sourced(w, f), NEW i
  PROVE  Balanced(w, on_ack(w, f, i))
<1> DEFINE a == [w EXCEPT !.acked[f] = @ \cup {i}]
           v == Land(a, f, i)
<1>1. CASE i \in w.acked[f]
  BY <1>1 DEF on_ack, Balanced
<1>2. CASE i \notin w.acked[f]
  <2>1. SameBooks(w, a) /\ a.tx = w.tx
    BY DEF Shaped, SameBooks, Fields
  <2>2. on_ack(w, f, i) = try_send(v, f)
    BY <1>2 DEF on_ack
  <2> HIDE DEF a
  <2>3. Balanced(w, a) /\ Sourced(a, f)
    BY <2>1, SameBooksBalance, SameTxSourced
  <2>4. SameBooks(a, v) /\ Sourced(v, f)
    BY <2>3, LandBooks DEF Balanced
  <2> HIDE DEF v
  <2>5. Balanced(a, v)
    BY <2>3, <2>4, SameBooksBalance DEF Balanced
  <2>6. Balanced(v, try_send(v, f))
    BY <2>4, <2>5, TrySendBalances DEF Balanced
  <2> QED BY <2>2, <2>3, <2>5, <2>6, BalancedTrans
<1> QED BY <1>1, <1>2

LEMMA OnTimeoutBalances ==
  ASSUME Settled, NEW w, Shaped(w), NEW e, e.pkt.flow \in Flow, Sourced(w, e.pkt.flow),
         e.pkt.index \in Index(e.pkt.flow)
  PROVE  Balanced(w, on_timeout(w, e))
<1> DEFINE f == e.pkt.flow
           i == e.pkt.index
           v == Land(w, f, i)
           a == [v EXCEPT !.tx[f].failed = TRUE, !.result[f].failed = TRUE]
           b == [v EXCEPT !.attempt[f][i] = @ + 1, !.tx[f].retx = Append(@, i)]
           x == on_timeout(w, e)
<1>1. x = w \/ x = a \/ x = try_send(b, f)
  BY DEF on_timeout
<1>2. SameBooks(w, v) /\ Sourced(v, f)
  BY LandBooks
<1> HIDE DEF v, x
<1>3. SameBooks(w, a)
  BY <1>2 DEF SameBooks, Fields
<1>4. SameBooks(w, b)
  BY <1>2 DEF SameBooks, Fields
<1>5. Sourced(b, f)
  <2>1. DOMAIN v = Fields
    BY <1>2 DEF SameBooks
  <2>2. b.tx = [v.tx EXCEPT ![f].retx = Append(v.tx[f].retx, i)]
    BY <2>1 DEF Fields
  <2>3. f \in DOMAIN v.tx /\ DOMAIN v.tx[f] = TxFields /\ v.tx[f].next_seq \in Nat
        /\ v.tx[f].retx \in Seq(Index(f)) /\ i \in Index(f)
    BY <1>2 DEF Sourced
  <2>4. Append(v.tx[f].retx, i) \in Seq(Index(f))
    BY <2>3
  <2> DEFINE s == Append(v.tx[f].retx, i)
  <2> HIDE DEF s, b
  <2> QED BY <2>2, <2>3, <2>4 DEF Sourced, TxFields, s
<1> HIDE DEF a, b
<1>6. Balanced(w, a) /\ Balanced(w, b) /\ Balanced(w, w)
  BY <1>3, <1>4, SameBooksBalance DEF Balanced
<1>7. Balanced(b, try_send(b, f))
  BY <1>5, <1>6, TrySendBalances DEF Balanced
<1>8. Balanced(w, try_send(b, f))
  BY <1>6, <1>7, BalancedTrans
<1>9. Balanced(w, x)
  BY <1>1, <1>6, <1>8
<1> QED BY <1>9 DEF x

LEMMA ReleaseBalances ==
  ASSUME NEW w, Shaped(w), NEW d
  PROVE  Balanced(w, release_flow(w, d)) /\ Balanced(w, PushStart(w, d))
<1> DEFINE v == [w EXCEPT !.result[d].start_ns = w.now, !.tx[d].next_send_ns = w.now]
<1>1. SameBooks(w, v)
  BY DEF Shaped, SameBooks, Fields
<1>2. release_flow(w, d) = Push(v, Inject(w.now, d))
  BY DEF release_flow
<1> HIDE DEF v
<1>3. Balanced(w, v)
  BY <1>1, SameBooksBalance
<1>4. Balanced(v, Push(v, Inject(w.now, d)))
  BY <1>3, PushBalances DEF Inject, Balanced
<1>5. Balanced(w, w) /\ Balanced(w, Push(w, Inject(spec[d].start_ns, d)))
  BY PushBalances DEF Inject, Balanced
<1> QED BY <1>2, <1>3, <1>4, <1>5, BalancedTrans DEF PushStart

(* Any loop of pushes. *)
Quiet(loop) == loop \in {"release", "begin"}

LEMMA LoopBalances ==
  ASSUME NEW loop, Quiet(loop), NEW f, NEW w, Shaped(w), NEW N \in Nat, NEW t, IsLoop(loop, f, w, N, t)
  PROVE  Balanced(w, t[N])
<1>1. t[0] = w /\ \A n \in 1 .. N : t[n] = LoopBody(loop, f, t[n - 1], n)
  <2>1. 0 \in 0 .. N /\ \A n \in 1 .. N : n \in 0 .. N /\ n # 0
    OBVIOUS
  <2> QED BY <2>1 DEF IsLoop
<1> DEFINE T == {n \in 0 .. N : ~Balanced(w, t[n])}
<1>2. T = {}
  <2>1. SUFFICES ASSUME T # {} PROVE FALSE
    OBVIOUS
  <2> DEFINE m == Min(T)
  <2>2. m \in T /\ \A n \in T : m <= n
    <3>1. T \subseteq Nat
      OBVIOUS
    <3> HIDE DEF T
    <3> QED BY <2>1, <3>1, NatMinimum
  <2>3. m \in 0 .. N /\ ~Balanced(w, t[m])
    BY <2>2
  <2> HIDE DEF m
  <2>4. Balanced(w, t[0])
    BY <1>1 DEF Balanced
  <2>5. m \in 1 .. N /\ m - 1 \in 0 .. N /\ m - 1 \notin T
    <3>1. m # 0
      BY <2>3, <2>4
    <3> HIDE DEF T
    <3> QED BY <2>2, <2>3, <3>1
  <2>6. Balanced(w, t[m - 1])
    BY <2>5
  <2>7. t[m] = LoopBody(loop, f, t[m - 1], m)
    BY <1>1, <2>5
  <2>8. LoopBody(loop, f, t[m - 1], m) \in
          {release_flow(t[m - 1], Dependents(f)[m]), PushStart(t[m - 1], m)}
    BY DEF LoopBody, Quiet
  <2>9. Balanced(t[m - 1], t[m])
    BY <2>6, <2>7, <2>8, ReleaseBalances DEF Balanced
  <2> QED BY <2>3, <2>6, <2>9, BalancedTrans
<1> QED BY <1>2

LEMMA CompleteBalances ==
  ASSUME Settled, NEW w, Shaped(w), NEW f \in Flow
  PROVE  Balanced(w, complete_flow(w, f))
<1>1. PICK N : N = Len(Dependents(f))
  OBVIOUS
<1>2. N \in Nat /\ \E t : IsLoop("release", f, Completed(w, f), N, t) /\ complete_flow(w, f) = t[N]
  BY <1>1, CompleteIs DEF CompleteShape
<1>3. SameBooks(w, Completed(w, f))
  BY DEF Completed, SameBooks, Shaped, Fields
<1>4. Balanced(w, Completed(w, f))
  BY <1>3, SameBooksBalance
<1>5. Balanced(Completed(w, f), complete_flow(w, f))
  BY <1>2, <1>4, LoopBalances DEF Balanced, Quiet
<1> QED BY <1>4, <1>5, BalancedTrans

LEMMA DeliverBalances ==
  ASSUME Settled, NEW w, Shaped(w), NEW f \in Flow, NEW i, NEW bytes
  PROVE  Balanced(w, Deliver(w, f, i, bytes))
<1> DEFINE v == [w EXCEPT !.delivered[f] = @ \cup {i},
                     !.result[f].packets_delivered = @ + 1,
                     !.result[f].delivered_bytes = @ + bytes]
<1>1. SameBooks(w, v)
  BY DEF Shaped, SameBooks, Fields
<1>2. Deliver(w, f, i, bytes) \in {w, v, complete_flow(v, f)}
  BY DEF Deliver
<1> HIDE DEF v
<1>3. Balanced(w, v) /\ Balanced(w, w)
  BY <1>1, SameBooksBalance DEF Balanced
<1>4. Balanced(v, complete_flow(v, f))
  BY <1>3, CompleteBalances DEF Balanced
<1> QED BY <1>2, <1>3, <1>4, BalancedTrans

LEMMA BalancedGives ==
  ASSUME NEW u, NEW v, NEW w, NEW pkt, Gives(u, v, pkt), Balanced(v, w)
  PROVE  Gives(u, w, pkt)
BY DEF Balanced, Gives

(* A packet of data is received, and its ack injected. *)
LEMMA DataArrivalGives ==
  ASSUME Settled, NEW w, Shaped(w), NEW f \in Flow, NEW i \in Index(f),
         NEW pkt \in Packet, pkt.kind = "Data"
  PROVE  Gives(w, on_data_arrival(w, f, i, pkt.bytes), pkt)
<1> DEFINE v == [w EXCEPT !.received["Data"] = @ + pkt.bytes]
           u == Deliver(v, f, i, pkt.bytes)
           x == [u EXCEPT !.injected["Ack"] = @ + ack_bytes]
           p == nic(spec[f].dst)
           ack == AckPacket(f, i)
           y == enqueue(x, p, ack)
<1>1. on_data_arrival(w, f, i, pkt.bytes) = y
  BY DEF on_data_arrival
<1>2. p \in Port /\ ack \in Packet /\ ack.kind = "Ack" /\ ack.bytes = ack_bytes
  <2>1. IsPacket(ack) /\ p \in Port
    BY SendFacts
  <2> QED BY <2>1, IsPacketTyped DEF AckPacket
<1>3. Counter(w, v, w.injected, [w.received EXCEPT !["Data"] = @ + pkt.bytes])
  BY DEF Counter, Shaped, Fields
<1> HIDE DEF v, p, ack
<1>4. Gives(w, v, pkt) /\ Shaped(v)
  BY <1>3, ReceivedGives DEF Gives
<1>5. Balanced(v, u)
  BY <1>4, DeliverBalances
<1> HIDE DEF u
<1>6. Shaped(u)
  BY <1>5 DEF Balanced
<1>7. Counter(u, x, [u.injected EXCEPT !["Ack"] = @ + ack_bytes], u.received)
  BY <1>6 DEF Counter, Shaped, Fields
<1> HIDE DEF x
<1>8. Takes(u, x, ack) /\ Shaped(x)
  BY <1>2, <1>6, <1>7, InjectedTakes DEF Takes
<1>9. Gives(x, y, ack)
  BY <1>2, <1>8, EnqueueGives
<1> HIDE DEF y
<1>10. Balanced(u, y)
  BY <1>2, <1>6, <1>8, <1>9, TakesGives
<1>11. Balanced(v, y)
  BY <1>5, <1>10, BalancedTrans
<1> QED BY <1>1, <1>4, <1>11, BalancedGives

(* What arrives is queued again, or received. *)
LEMMA OnArriveGives ==
  ASSUME Settled, NEW w, Shaped(w), NEW e, IsPacket(e.pkt), Sourced(w, e.pkt.flow)
  PROVE  Gives(w, on_arrive(w, e), e.pkt)
<1> DEFINE at == e.port[2]
           pkt == e.pkt
           f == pkt.flow
           x == on_arrive(w, e)
<1>1. pkt \in Packet /\ f \in Flow /\ pkt.index \in Index(f) /\ pkt.kind \in Kind
  BY IsPacketTyped DEF IsPacket
<1>2. CASE ~is_host(at)
  <2>1. x = enqueue(w, select(pkt, at), pkt)
    BY <1>2 DEF on_arrive
  <2>2. select(pkt, at) \in Port
    BY <1>2, SelectFacts
  <2> QED BY <1>1, <2>1, <2>2, EnqueueGives
<1>3. CASE is_host(at) /\ pkt.kind = "Ack"
  <2> DEFINE v == [w EXCEPT !.received["Ack"] = @ + pkt.bytes]
  <2>1. x = on_ack(v, f, pkt.index)
    BY <1>3 DEF on_arrive
  <2>2. Counter(w, v, w.injected, [w.received EXCEPT !["Ack"] = @ + pkt.bytes]) /\ v.tx = w.tx
    BY DEF Counter, Shaped, Fields
  <2> HIDE DEF v, x
  <2>3. Gives(w, v, pkt) /\ Shaped(v)
    BY <1>1, <1>3, <2>2, ReceivedGives DEF Gives
  <2>4. Balanced(v, x)
    BY <1>1, <2>1, <2>2, <2>3, SameTxSourced, OnAckBalances
  <2> QED BY <2>3, <2>4, BalancedGives DEF x
<1>4. CASE is_host(at) /\ pkt.kind # "Ack"
  <2>1. x = on_data_arrival(w, f, pkt.index, pkt.bytes) /\ pkt.kind = "Data"
    BY <1>1, <1>4 DEF on_arrive, Kind
  <2> QED BY <1>1, <2>1, DataArrivalGives
<1> QED BY <1>2, <1>3, <1>4

-----------------------------------------------------------------------------
(* The books are balanced *)

Books(w) == Shaped(w) /\ \A k \in Kind : Missing(w, k) = 0

LEMMA BooksKept ==
  ASSUME NEW w, Books(w), NEW v, Balanced(w, v)
  PROVE  Books(v)
BY DEF Books, Balanced

LEMMA FreshBooks ==
  ASSUME Settled
  PROVE  Books(Fresh)
<1> DEFINE c == Fresh
           r == [waiting |-> <<>>, busy |-> FALSE, in_flight |-> NoPacket, sent |-> 0, dropped |-> 0]
<1>1. /\ DOMAIN c = Fields /\ c.events = {} /\ c.next_seq = 0
      /\ c.port = [p \in Port |-> r]
      /\ c.injected = [k \in Kind |-> 0] /\ c.received = [k \in Kind |-> 0]
      /\ c.dropped = [k \in Kind |-> 0]
  BY DEF Fresh, Fields
<1>2. r \in PortState
  <2>1. NoPacket \in Packet /\ <<>> \in Seq(Packet)
    BY DEF NoPacket, Packet, Kind
  <2> QED BY <2>1 DEF PortState
<1>3. r.waiting = <<>> /\ ~r.busy /\ Len(r.waiting) = 0
  OBVIOUS
<1> HIDE DEF c, r
<1>4. Shaped(c)
  <2>1. IsFiniteSet(c.events)
    BY <1>1, FS_EmptySet
  <2>2. c.port \in [Port -> PortState]
    BY <1>1, <1>2
  <2>3. c.injected \in [Kind -> Nat] /\ c.received \in [Kind -> Nat] /\ c.dropped \in [Kind -> Nat]
    BY <1>1
  <2>4. \A e \in c.events : FALSE
    BY <1>1
  <2> QED BY <1>1, <2>1, <2>2, <2>3, <2>4 DEF Shaped
<1>5. InFab(c) = {}
  <2>1. \A p \in Port : AtPort(p, c.port[p]) = {}
    <3>1. \A p \in Port : c.port[p] = r
      BY <1>1
    <3>2. \A p : AtPort(p, r) = {}
      <4>1. \A p : FirstOf(p, r.waiting, 0) = {}
        BY DEF FirstOf
      <4>2. \A p : Served(p, r) = {}
        BY <1>3 DEF Served
      <4> QED BY <1>3, <4>1, <4>2 DEF AtPort
    <3> QED BY <3>1, <3>2
  <2>2. AtPorts(c, Port) = {}
    BY <2>1 DEF AtPorts
  <2>3. OnWire(c.events) = {}
    BY <1>1 DEF OnWire
  <2> QED BY <2>2, <2>3 DEF InFab
<1>6. \A k \in Kind : Missing(c, k) = 0
  <2>1. \A k \in Kind : Load(k, InFab(c)) = 0
    BY <1>5, LoadStep, FS_EmptySet
  <2>2. \A k \in Kind : c.injected[k] = 0 /\ c.received[k] = 0 /\ c.dropped[k] = 0
    BY <1>1
  <2> QED BY <2>1, <2>2 DEF Missing
<1>7. Books(c)
  BY <1>4, <1>6 DEF Books
<1> QED BY <1>7 DEF c

LEMMA BeginBooks ==
  ASSUME Settled, NEW w, DOMAIN w = Fields
  PROVE  Books(begin_run(w))
<1>1. PICK N, c : N = Len(spec) /\ c = Fresh
  OBVIOUS
<1>2. N \in Nat /\ \E t : IsLoop("begin", 0, c, N, t) /\ begin_run(Fresh) = t[N]
  BY <1>1, BeginIs DEF BeginShape
<1>3. begin_run(w) = begin_run(Fresh)
  BY BeginGood
<1>4. Books(c)
  BY <1>1, FreshBooks
<1>5. Balanced(c, begin_run(Fresh))
  BY <1>2, <1>4, LoopBalances DEF Books, Quiet
<1> QED BY <1>3, <1>4, <1>5, BooksKept

LEMMA DispatchBooks ==
  ASSUME Settled, Good(sim), Books(sim), Dispatch
  PROVE  Books(sim')
<1>1. PICK e \in sim.events :
        LET w == [sim EXCEPT !.events = @ \ {e}]
        IN  \/ e.type = "Inject"     /\ sim' = on_inject(w, e)
            \/ e.type = "TxComplete" /\ sim' = on_tx_complete(w, e)
            \/ e.type = "Arrive"     /\ sim' = on_arrive(w, e)
            \/ e.type = "Timeout"    /\ sim' = on_timeout(w, e)
  BY DEF Dispatch
<1> DEFINE w == Popped(sim, e)
           f == e.pkt.flow
<1>2. \/ e.type = "Inject"     /\ sim' = on_inject(w, e)
      \/ e.type = "TxComplete" /\ sim' = on_tx_complete(w, e)
      \/ e.type = "Arrive"     /\ sim' = on_arrive(w, e)
      \/ e.type = "Timeout"    /\ sim' = on_timeout(w, e)
  BY <1>1 DEF Popped
<1>3. Shaped(sim) /\ PopsTo(sim, w, e) /\ Shaped(w)
  BY PoppedBooks DEF Books
<1>4. /\ Typed(w) /\ w.port = sim.port /\ \A g \in Flow : Windowed(w, g)
      /\ EventSound(sim, e)
  BY PoppedFacts
<1> HIDE DEF w
<1>5. \A g \in Flow : Sourced(w, g)
  BY <1>4, WindowedSourced
<1>6. CASE e.type = "Inject" /\ sim' = on_inject(w, e)
  <2>1. f \in Flow /\ Balanced(sim, w)
    BY <1>3, <1>4, <1>6 DEF EventSound, PopsTo
  <2> QED BY <1>3, <1>5, <1>6, <2>1, OnInjectBalances, BooksKept
<1>7. CASE e.type = "TxComplete" /\ sim' = on_tx_complete(w, e)
  <2>1. e.port \in Port /\ w.port[e.port].busy /\ Balanced(sim, w)
    BY <1>3, <1>4, <1>7 DEF EventSound, PopsTo
  <2> QED BY <1>3, <1>7, <2>1, TxCompleteBalances, BooksKept
<1>8. CASE e.type = "Arrive" /\ sim' = on_arrive(w, e)
  <2>1. IsPacket(e.pkt) /\ f \in Flow /\ Takes(sim, w, e.pkt)
    BY <1>3, <1>4, <1>8 DEF EventSound, PopsTo, Homeward, Carried, IsPacket
  <2>2. Gives(w, sim', e.pkt)
    BY <1>3, <1>5, <1>8, <2>1, OnArriveGives
  <2>3. Balanced(sim, sim')
    BY <1>3, <2>1, <2>2, IsPacketTyped, TakesGives
  <2> QED BY <2>3, BooksKept
<1>9. CASE e.type = "Timeout" /\ sim' = on_timeout(w, e)
  <2>1. f \in Flow /\ e.pkt.index \in Index(f) /\ Balanced(sim, w)
    BY <1>3, <1>4, <1>9 DEF EventSound, PopsTo
  <2> QED BY <1>3, <1>5, <1>9, <2>1, OnTimeoutBalances, BooksKept
<1> QED BY <1>2, <1>6, <1>7, <1>8, <1>9

LEMMA BooksPrimed ==
  ASSUME setting' = setting, Books(sim')
  PROVE  Books(sim)'
<1>1. Port' = Port
  BY SameSetting
<1>2. Shaped(sim)'
  BY <1>1 DEF Books, Shaped, PortState
<1>3. InFab(sim)' = InFab(sim')
  BY <1>1 DEF InFab, AtPorts
<1>4. (\A k \in Kind : Missing(sim, k) = 0)'
  BY <1>3 DEF Books, Missing
<1> QED BY <1>2, <1>4 DEF Books

BooksInv == IInv /\ Books(sim)

LEMMA InitBooks == Init => BooksInv
<1> SUFFICES ASSUME Init PROVE BooksInv
  OBVIOUS
<1>1. IInv
  BY InitIInv
<1>2. DOMAIN Built = Fields /\ sim = begin_run(Built) /\ Settled
  BY <1>1 DEF Built, Fields, Init, IInv
<1> QED BY <1>1, <1>2, BeginBooks DEF BooksInv

LEMMA StepBooks == BooksInv /\ [Next]_vars => BooksInv'
<1> SUFFICES ASSUME BooksInv, [Next]_vars PROVE BooksInv'
  OBVIOUS
<1>1. IInv /\ IInv' /\ Settled /\ Good(sim) /\ Books(sim) /\ setting' = setting
  BY StepIInv DEF BooksInv, IInv, Next, AdvanceClock, Dispatch, Rerun, Stop, vars
<1>2. Books(sim')
  <2>1. CASE AdvanceClock
    <3>1. SameBooks(sim, sim')
      BY <1>1, <2>1 DEF AdvanceClock, SameBooks, Books, Shaped, Fields
    <3> QED BY <1>1, <3>1, SameBooksBalance, BooksKept DEF Books
  <2>2. CASE Dispatch
    BY <1>1, <2>2, DispatchBooks
  <2>3. CASE Rerun
    BY <1>1, <2>3, BeginBooks DEF Rerun, Books, Shaped
  <2>4. CASE UNCHANGED vars
    BY <1>1, <2>4 DEF vars
  <2> QED BY <2>1, <2>2, <2>3, <2>4 DEF Next, Stop
<1> QED BY <1>1, <1>2, BooksPrimed DEF BooksInv

LEMMA BooksConserve == BooksInv => Conserved
<1> SUFFICES ASSUME BooksInv, NEW k \in Kind
             PROVE  sim.injected[k] = sim.received[k] + sim.dropped[k] + BytesInFabric(k)
  BY DEF Conserved
<1>1. Settled /\ Shaped(sim) /\ Missing(sim, k) = 0
  BY DEF BooksInv, IInv, Books
<1>2. InFabric = InFab(sim)
  <2>2. AtPorts(sim, Port) =
          (UNION {{[pkt |-> sim.port[p].waiting[j], at |-> <<p, "queue", j>>]
                     : j \in 1 .. Len(sim.port[p].waiting)} : p \in Port})
          \cup {[pkt |-> sim.port[p].in_flight, at |-> <<p, "service", 0>>]
                  : p \in {q \in Port : sim.port[q].busy}}
    <3> DEFINE queued(p) == FirstOf(p, sim.port[p].waiting, Len(sim.port[p].waiting))
               served(p) == Place(sim.port[p].in_flight, p, "service", 0)
    <3>1. \A p : AtPort(p, sim.port[p]) =
                 queued(p) \cup (IF sim.port[p].busy THEN {served(p)} ELSE {})
      BY DEF AtPort, Served
    <3> HIDE DEF queued, served
    <3>2. AtPorts(sim, Port) =
            (UNION {queued(p) : p \in Port}) \cup {served(p) : p \in {q \in Port : sim.port[q].busy}}
      <4> DEFINE L == AtPorts(sim, Port)
                 A == UNION {queued(p) : p \in Port}
                 B == {served(p) : p \in {q \in Port : sim.port[q].busy}}
      <4>1. \A x : x \in L <=> \E p \in Port : x \in AtPort(p, sim.port[p])
        BY DEF AtPorts
      <4>2. \A x : x \in A <=> \E p \in Port : x \in queued(p)
        OBVIOUS
      <4>3. \A x : x \in B <=> \E p \in Port : sim.port[p].busy /\ x = served(p)
        OBVIOUS
      <4>4. \A x, p : x \in AtPort(p, sim.port[p]) <=>
                         x \in queued(p) \/ (sim.port[p].busy /\ x = served(p))
        BY <3>1
      <4> HIDE DEF L, A, B
      <4>5. \A x : x \in L <=> x \in A \/ x \in B
        BY <4>1, <4>2, <4>3, <4>4
      <4>6. L = A \cup B
        BY <4>5
      <4> QED BY <4>6 DEF L, A, B
    <3>3. {queued(p) : p \in Port} =
            {{[pkt |-> sim.port[p].waiting[j], at |-> <<p, "queue", j>>]
                : j \in 1 .. Len(sim.port[p].waiting)} : p \in Port}
      BY DEF queued, FirstOf, Place
    <3>4. \A p : served(p) = [pkt |-> sim.port[p].in_flight, at |-> <<p, "service", 0>>]
      BY DEF served, Place
    <3> QED BY <3>2, <3>3, <3>4
  <2>3. OnWire(sim.events) =
          {[pkt |-> e.pkt, at |-> <<e.port, "wire", e.seq>>]
             : e \in {x \in sim.events : x.type = "Arrive"}}
    BY DEF OnWire, Place
  <2> QED BY <2>2, <2>3 DEF InFabric, InFab
<1>3. BytesInFabric(k) = Load(k, InFab(sim))
  BY <1>2 DEF BytesInFabric, Load
<1>4. sim.injected[k] \in Nat /\ sim.received[k] \in Nat /\ sim.dropped[k] \in Nat
      /\ Load(k, InFab(sim)) \in Nat
  BY <1>1, FabLoad DEF Shaped
<1>5. sim.injected[k] - (sim.received[k] + sim.dropped[k] + Load(k, InFab(sim))) = 0
  BY <1>1 DEF Missing
<1> DEFINE a == sim.injected[k]
           b == sim.received[k]
           c == sim.dropped[k]
           d == Load(k, InFab(sim))
<1> HIDE DEF a, b, c, d
<1>6. a = b + c + d
  BY <1>4, <1>5 DEF a, b, c, d
<1> QED BY <1>3, <1>6 DEF a, b, c, d

(* Every byte injected is delivered, dropped or still somewhere in the     *)
(* fabric, at every instant of every run of every scenario: each handler   *)
(* finds a place for every packet it takes from another.                   *)
THEOREM BytesConserved == Spec => []Conserved
<1>1. BooksInv /\ [Next]_vars => BooksInv'
  BY StepBooks
<1> QED BY InitBooks, <1>1, BooksConserve, PTL DEF Spec
=============================================================================
