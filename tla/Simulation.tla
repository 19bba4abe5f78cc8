----------------------------- MODULE Simulation -----------------------------
(***************************************************************************)
(* The discrete-event core: the event loop over a fabric of output ports,  *)
(* with every handler of simulation.cpp, in virtual time.                  *)
(*                                                                         *)
(* A handler is an operator from simulator states to simulator states, so  *)
(* that a chain of calls in the code is the same chain of operators here.  *)
(* The event queue is the set of events Agenda promises (EventQueue proves *)
(* it) and a port's ring the sequence DropTailLink promises (OutputPort    *)
(* proves it).  The run is deterministic: everything that varies is chosen *)
(* by Init, in setting.  A scenario may come from Harness, or be made up.     *)
(***************************************************************************)
EXTENDS Units, Routing, FiniteSets, FiniteSetsExt, SequencesExt

CONSTANT Scenarios   \* what may be run: see ScenariosAssumption

VARIABLES setting,   \* this run's index in Scenarios
          sim,       \* the Simulation object
          first      \* outcome of the first run, once there is one

vars == <<setting, sim, first>>

Kind == {"Data", "Ack"}

cfg == Scenarios[setting]

(* FlowSpecs, by FlowId; depends_on is 0 for a flow that waits for none.   *)
spec == cfg.flows
Flow == DOMAIN spec

Port == cfg.fabric.port   \* directed links <<owner, peer>>
is_host(u) == u \notin cfg.fabric.switch
nic(h) == cfg.fabric.nic[h]
candidates(at, dst) == cfg.fabric.candidates[<<at, dst>>]

link(p) == IF is_host(p[1]) \/ is_host(p[2]) THEN cfg.host_link ELSE cfg.fabric_link

rto_ns       == cfg.transport.rto_ns
ack_bytes    == cfg.transport.ack_bytes
max_attempts == cfg.transport.max_attempts

Packets(f) == (spec[f].size_bytes + spec[f].mtu_bytes - 1) \div spec[f].mtu_bytes

Window(f) == Max({1, Min({spec[f].window_pkts, Packets(f)})})

Index(f) == 0 .. Packets(f) - 1

period_ns(f) == (serialization_ns(spec[f].mtu_bytes, link(nic(spec[f].src)).rate) * 1000)
                \div spec[f].load_permille

host_index(fab, h) == SelectInSeq(fab.hosts, LAMBDA x : x = h) - 1

(* The key flow f of configuration c is hashed by; that of its acks is     *)
(* reversed.                                                               *)
fwd_key(c, f) ==
  LET s == c.flows[f]
  IN  FlowKey(host_index(c.fabric, s.src), host_index(c.fabric, s.dst), s.src_port, s.dst_port)

(* A table that Forwarding's NeverStrays is true of: every switch has a    *)
(* candidate for every host, a port of its own, and the first host on the  *)
(* way is the host.                                                        *)
IsRouted(fab) ==
  LET hosts == ToSet(fab.hosts)
  IN  /\ IsFiniteSet(fab.port)
      /\ hosts \cap fab.switch = {}
      /\ \A p \in fab.port : p[1] # p[2]
      /\ \A h \in hosts : /\ fab.nic[h] \in fab.port
                          /\ fab.nic[h][1] = h /\ fab.nic[h][2] \in fab.switch
      /\ \A u \in fab.switch, h \in hosts :
           /\ fab.candidates[<<u, h>>] \in Seq(fab.port) \ {<<>>}
           /\ \A p \in ToSet(fab.candidates[<<u, h>>]) :
                p[1] = u /\ p[2] \in fab.switch \cup {h}

IsLink(l) == /\ l.rate \in Nat \ {0}
             /\ l.prop_delay_ns \in Nat /\ l.queue_capacity_pkts \in Nat

(* What add_flow asserts of flow f of configuration c, and the unsigned    *)
(* types; with ECMP every switch has a hash for its keys.                  *)
IsFlow(c, f) ==
  LET s == c.flows[f]
  IN  /\ {s.mtu_bytes, s.size_bytes} \subseteq Nat \ {0}
      /\ {s.start_ns, s.window_pkts} \subseteq Nat
      /\ {s.src, s.dst} \subseteq ToSet(c.fabric.hosts) /\ s.src # s.dst
      /\ s.load_permille \in 1 .. 1000
      /\ s.depends_on \in 0 .. f - 1
      /\ c.routing = "Ecmp" =>
           \A u \in c.fabric.switch, key \in {fwd_key(c, f), Reversed(fwd_key(c, f))} :
             c.hash[<<u, key>>] \in 0 .. HashRange - 1

(* The same of the transport, and how often the object is run.             *)
IsScenario(c) ==
  /\ IsRouted(c.fabric) /\ IsLink(c.host_link) /\ IsLink(c.fabric_link)
  /\ {c.transport.rto_ns, c.transport.max_attempts, c.transport.ack_bytes} \subseteq Nat \ {0}
  /\ c.routing \in RoutingAlgorithm
  /\ c.runs \in {1, 2}
  /\ Len(c.flows) \in Nat /\ DOMAIN c.flows = 1 .. Len(c.flows)
  /\ \A f \in DOMAIN c.flows : IsFlow(c, f)

ASSUME ScenariosAssumption == \A i \in DOMAIN Scenarios : IsScenario(Scenarios[i])

(* Where a packet of kind k is going, and the key it is hashed by. *)
Home(f, k) == IF k = "Ack" THEN spec[f].src ELSE spec[f].dst

Key(f, k) == IF k = "Ack" THEN Reversed(fwd_key(cfg, f)) ELSE fwd_key(cfg, f)

SelectSprayed(pkt, at) ==   \* mutated: every packet takes its own path
  LET cand == candidates(at, Home(pkt.flow, pkt.kind))
  IN  cand[1 + (pkt.index % Len(cand))]

(* run_with_routing: the policy is chosen once, by the configuration, and  *)
(* selects the port at every switch.                                       *)
select(pkt, at) ==
  LET cand == candidates(at, Home(pkt.flow, pkt.kind))
  IN  IF cfg.routing = "StaticFirst" THEN StaticFirstPolicy(cand)
      ELSE EcmpPolicy(cfg.hash[<<at, Key(pkt.flow, pkt.kind)>>], cand)

DataPacket(f, i) ==
  [flow |-> f, index |-> i, kind |-> "Data",
   bytes |-> Min({spec[f].size_bytes - i * spec[f].mtu_bytes, spec[f].mtu_bytes})]

AckPacket(f, i) == [flow |-> f, index |-> i, kind |-> "Ack", bytes |-> ack_bytes]

NoPacket == [flow |-> 0, index |-> 0, kind |-> "Data", bytes |-> 0]

-----------------------------------------------------------------------------
(* Events: what a handler reads of one is its port, its packet and its     *)
(* attempt.                                                                *)

Event(t, type, port, pkt, a) ==
  [time |-> t, type |-> type, port |-> port, pkt |-> pkt, attempt |-> a, seq |-> 0]

(* The queue numbers what is pushed. *)
Push(w, e) == [w EXCEPT !.events = @ \cup {[e EXCEPT !.seq = w.next_seq]},
                        !.next_seq = @ + 1]

Inject(t, f) == Event(t, "Inject", <<>>, [NoPacket EXCEPT !.flow = f], 0)

-----------------------------------------------------------------------------
(* Ports *)

start_tx(w, p) ==
  LET pkt == Head(w.port[p].waiting)
  IN  Push([w EXCEPT !.port[p].waiting = Tail(@), !.port[p].busy = TRUE,
                     !.port[p].in_flight = pkt],
           Event(w.now + serialization_ns(pkt.bytes, link(p).rate),
                 "TxComplete", p, NoPacket, 0))

DropUncounted(w, p, pkt) ==   \* mutated: an ack's bytes are not counted
  IF pkt.kind = "Ack" THEN [w EXCEPT !.port[p].dropped = @ + 1]
  ELSE [w EXCEPT !.port[p].dropped = @ + 1, !.dropped[pkt.kind] = @ + pkt.bytes,
                 !.result[pkt.flow].packets_dropped = @ + 1]

Drop(w, p, pkt) ==
  [w EXCEPT !.port[p].dropped = @ + 1,
            !.dropped[pkt.kind] = @ + pkt.bytes,
            !.result[pkt.flow].packets_dropped = IF pkt.kind = "Ack" THEN @ ELSE @ + 1]

StartNever(w, p) == w   \* mutated: a queued packet waits for a TxComplete

StartIdle(w, p) == IF w.port[p].busy THEN w ELSE start_tx(w, p)

enqueue(w, p, pkt) ==
  IF Len(w.port[p].waiting) = link(p).queue_capacity_pkts THEN Drop(w, p, pkt)
  ELSE StartIdle([w EXCEPT !.port[p].waiting = Append(@, pkt)], p)

on_tx_complete(w, e) ==
  LET v == Push([w EXCEPT !.port[e.port].sent = @ + 1],
                Event(w.now + link(e.port).prop_delay_ns, "Arrive", e.port,
                      w.port[e.port].in_flight, 0))
  IN  IF v.port[e.port].waiting # <<>> THEN start_tx(v, e.port)
      ELSE [v EXCEPT !.port[e.port].busy = FALSE]

-----------------------------------------------------------------------------
(* The sender *)

SetTimerOnce(w, f, i) ==   \* mutated: a retransmission gets no timer
  IF w.attempt[f][i] > 0 THEN w
  ELSE Push(w, Event(w.now + rto_ns, "Timeout", <<>>, DataPacket(f, i), 0))

SetTimer(w, f, i) ==
  Push(w, Event(w.now + rto_ns, "Timeout", <<>>, DataPacket(f, i),
                w.attempt[f][i]))

send_packet(w, f, i) ==
  LET pkt == DataPacket(f, i)
      again == IF w.attempt[f][i] > 0 THEN 1 ELSE 0
      v == [w EXCEPT !.flying[f] = @ \cup {i},
                     !.tx[f].in_flight = @ + 1,
                     !.tx[f].next_send_ns = w.now + period_ns(f),
                     !.injected["Data"] = @ + pkt.bytes,
                     !.result[f].packets_retransmitted = @ + again]
  IN  enqueue(SetTimer(v, f, i), nic(spec[f].src), pkt)

(* One turn of the loop sends one packet: the first entry of the ring that *)
(* is not acked, entries before it being dropped, or else the next index.  *)
Turn(w, f) ==
  LET t == w.tx[f]
      live == {k \in 1 .. Len(t.retx) : t.retx[k] \notin w.acked[f]}
  IN  IF t.in_flight >= Window(f) THEN w
      ELSE IF w.now < t.next_send_ns THEN
        IF t.send_scheduled THEN w
        ELSE Push([w EXCEPT !.tx[f].send_scheduled = TRUE], Inject(t.next_send_ns, f))
      ELSE IF live # {} THEN
        send_packet([w EXCEPT !.tx[f].retx = SubSeq(@, Min(live) + 1, Len(@))],
                    f, t.retx[Min(live)])
      ELSE IF t.next_seq >= Packets(f) THEN [w EXCEPT !.tx[f].retx = <<>>]
      ELSE send_packet([w EXCEPT !.tx[f].retx = <<>>, !.tx[f].next_seq = @ + 1],
                       f, t.next_seq)

(* Every turn but the last fills a slot of the window, and a turn too many *)
(* changes nothing.                                                        *)
SendLoop(w, f) ==
  LET after[n \in 0 .. Window(f)] == IF n = 0 THEN w ELSE Turn(after[n - 1], f)
  IN  after[Window(f)]

try_send(w, f) == IF w.tx[f].failed THEN w ELSE SendLoop(w, f)

on_inject(w, e) ==
  try_send([w EXCEPT !.tx[e.pkt.flow].send_scheduled = FALSE], e.pkt.flow)

(* Packet i of flow f stops counting against the window. *)
Land(w, f, i) ==
  IF i \in w.flying[f]
  THEN [w EXCEPT !.flying[f] = @ \ {i}, !.tx[f].in_flight = @ - 1]
  ELSE w

on_ack(w, f, i) ==
  IF i \in w.acked[f] THEN w
  ELSE try_send(Land([w EXCEPT !.acked[f] = @ \cup {i}], f, i), f)

GivesUpLate(n) == n >= max_attempts   \* mutated: one attempt too many

GivesUp(n) == n + 1 >= max_attempts

on_timeout(w, e) ==
  LET f == e.pkt.flow
      i == e.pkt.index
      v == Land(w, f, i)
  IN  IF i \in w.acked[f] \/ w.attempt[f][i] # e.attempt \/ w.tx[f].failed THEN w
      ELSE IF GivesUp(w.attempt[f][i])
      THEN [v EXCEPT !.tx[f].failed = TRUE, !.result[f].failed = TRUE]
      ELSE try_send([v EXCEPT !.attempt[f][i] = @ + 1,
                              !.tx[f].retx = Append(@, i)], f)

-----------------------------------------------------------------------------
(* The receiver, and the flows that wait for this one *)

(* build_dependents counts the flows that wait for an earlier flow than f, *)
(* and gives each flow that waits the next slot of the flow it waits for:  *)
(* a flow's dependents are a run of slots.                                 *)
dependents_offset(f) == Cardinality({d \in Flow : spec[d].depends_on \in 1 .. f - 1})

slot(d) ==
  LET f == spec[d].depends_on
  IN  dependents_offset(f) + Cardinality({c \in 1 .. d : spec[c].depends_on = f})

dependents ==
  [k \in 1 .. dependents_offset(Len(spec) + 1) |->
     CHOOSE d \in Flow : spec[d].depends_on # 0 /\ slot(d) = k]

Dependents(f) == SubSeq(dependents, dependents_offset(f) + 1, dependents_offset(f + 1))

ReleaseAtNominal(w, d) ==   \* mutated: the Inject is pushed at start_ns
  Push([w EXCEPT !.result[d].start_ns = w.now, !.tx[d].next_send_ns = w.now],
       Inject(spec[d].start_ns, d))

release_flow(w, d) ==
  Push([w EXCEPT !.result[d].start_ns = w.now, !.tx[d].next_send_ns = w.now],
       Inject(w.now, d))

complete_flow(w, f) ==
  LET v == [w EXCEPT !.result[f].finish_ns = w.now, !.result[f].complete = TRUE]
      waiting == Dependents(f)
      after[n \in 0 .. Len(waiting)] ==
        IF n = 0 THEN v ELSE release_flow(after[n - 1], waiting[n])
  IN  after[Len(waiting)]

Deliver(w, f, i, bytes) ==
  LET v == [w EXCEPT !.delivered[f] = @ \cup {i},
                     !.result[f].packets_delivered = @ + 1,
                     !.result[f].delivered_bytes = @ + bytes]
  IN  IF i \in w.delivered[f] THEN w
      ELSE IF v.result[f].packets_delivered = Packets(f) THEN complete_flow(v, f)
      ELSE v

on_data_arrival(w, f, i, bytes) ==
  LET v == [w EXCEPT !.received["Data"] = @ + bytes]
      u == [Deliver(v, f, i, bytes) EXCEPT !.injected["Ack"] = @ + ack_bytes]
  IN  enqueue(u, nic(spec[f].dst), AckPacket(f, i))

on_arrive(w, e) ==
  LET at == e.port[2]
      pkt == e.pkt
  IN  IF ~is_host(at) THEN enqueue(w, select(pkt, at), pkt)
      ELSE IF pkt.kind = "Ack"
      THEN on_ack([w EXCEPT !.received["Ack"] = @ + pkt.bytes], pkt.flow, pkt.index)
      ELSE on_data_arrival(w, pkt.flow, pkt.index, pkt.bytes)

-----------------------------------------------------------------------------
(* Runs *)

StartsAtOnceAll(f) == TRUE   \* mutated: dependent flows start by the clock too

(* Dependent flows are released by the flow they wait on. *)
StartsAtOnce(f) == spec[f].depends_on = 0

PushStart(w, f) == IF StartsAtOnce(f) THEN Push(w, Inject(spec[f].start_ns, f)) ELSE w

ClearDirty(w) ==   \* mutated: the attempt counters survive into the next run
  [w EXCEPT !.flying = [f \in Flow |-> {}], !.acked = [f \in Flow |-> {}],
            !.delivered = [f \in Flow |-> {}]]

ClearPackets(w) ==
  [w EXCEPT !.flying = [f \in Flow |-> {}], !.acked = [f \in Flow |-> {}],
            !.delivered = [f \in Flow |-> {}],
            !.attempt = [f \in Flow |-> [i \in Index(f) |-> 0]]]

Cleared(w) ==
  ClearPackets(
    [w EXCEPT
       !.events = {}, !.next_seq = 0, !.now = 0,
       !.port = [p \in Port |-> [waiting |-> <<>>, busy |-> FALSE,
                                 in_flight |-> NoPacket, sent |-> 0, dropped |-> 0]],
       !.tx = [f \in Flow |-> [next_seq |-> 0, in_flight |-> 0, retx |-> <<>>,
                               next_send_ns |-> 0, send_scheduled |-> FALSE,
                               failed |-> FALSE]],
       !.result = [f \in Flow |->
          [start_ns |-> spec[f].start_ns, finish_ns |-> 0,
           delivered_bytes |-> 0, packets_delivered |-> 0,
           packets_dropped |-> 0, packets_retransmitted |-> 0,
           complete |-> FALSE, failed |-> FALSE]],
       !.injected = [k \in Kind |-> 0], !.received = [k \in Kind |-> 0],
       !.dropped = [k \in Kind |-> 0]])

begin_run(w) ==
  LET after[n \in 0 .. Len(spec)] ==
        IF n = 0 THEN Cleared(w) ELSE PushStart(after[n - 1], n)
  IN  after[Len(spec)]

(* The object as the constructor and add_flow leave it. *)
Built == [events |-> {}, next_seq |-> 0, now |-> 0, port |-> <<>>, tx |-> <<>>,
          flying |-> <<>>, acked |-> <<>>, delivered |-> <<>>,
          attempt |-> [f \in Flow |-> [i \in Index(f) |-> 0]], result |-> <<>>,
          injected |-> <<>>, received |-> <<>>, dropped |-> <<>>]

Init == /\ setting \in DOMAIN Scenarios
        /\ sim = begin_run(Built)
        /\ first = <<>>

Before(x, y) == x.time < y.time \/ (x.time = y.time /\ x.seq < y.seq)

(* One turn of the loop is two steps: the clock moves to the next event's  *)
(* time, and the event is handled.                                         *)
AdvanceClock ==
  /\ sim.events # {}
  /\ \A e \in sim.events : e.time > sim.now
  /\ sim' = [sim EXCEPT !.now = Min({e.time : e \in sim.events})]
  /\ UNCHANGED <<setting, first>>

Dispatch ==
  \E e \in sim.events :
    /\ e.time <= sim.now
    /\ \A x \in sim.events \ {e} : Before(e, x)
    /\ LET w == [sim EXCEPT !.events = @ \ {e}]
       IN  \/ e.type = "Inject"     /\ sim' = on_inject(w, e)
           \/ e.type = "TxComplete" /\ sim' = on_tx_complete(w, e)
           \/ e.type = "Arrive"     /\ sim' = on_arrive(w, e)
           \/ e.type = "Timeout"    /\ sim' = on_timeout(w, e)
    /\ UNCHANGED <<setting, first>>

Drained == sim.events = {}

(* What RunStats adds to the byte counts when the queue is empty. *)
end_run ==
  [virtual_end_ns   |-> sim.now,
   flows_complete   |-> Cardinality({f \in Flow : sim.result[f].complete}),
   flows_incomplete |-> Cardinality({f \in Flow : ~sim.result[f].complete}),
   flows_failed     |-> Cardinality({f \in Flow : sim.result[f].failed})]

(* What result_digest covers, and RunStats. *)
Outcome == <<sim.result, end_run, sim.injected, sim.received, sim.dropped>>

(* The same object is run again. *)
Rerun == /\ Drained /\ first = <<>> /\ cfg.runs = 2
         /\ first' = Outcome
         /\ sim' = begin_run(sim)
         /\ UNCHANGED setting

(* The caller is done with the object. *)
Stop == Drained /\ UNCHANGED vars

Next == AdvanceClock \/ Dispatch \/ Rerun \/ Stop

Spec == Init /\ [][Next]_vars

-----------------------------------------------------------------------------
(* Properties *)

(* The packets in the fabric: queued, in service, or on the wire. *)
InFabric ==
  (UNION {{[pkt |-> sim.port[p].waiting[k], at |-> <<p, "queue", k>>]
             : k \in 1 .. Len(sim.port[p].waiting)} : p \in Port})
  \cup {[pkt |-> sim.port[p].in_flight, at |-> <<p, "service", 0>>]
           : p \in {q \in Port : sim.port[q].busy}}
  \cup {[pkt |-> e.pkt, at |-> <<e.port, "wire", e.seq>>]
           : e \in {x \in sim.events : x.type = "Arrive"}}

BytesInFabric(k) == MapThenSumSet(LAMBDA c : IF c.pkt.kind = k THEN c.pkt.bytes ELSE 0, InFabric)

(* Every byte injected, of data and of acks apart, is delivered, dropped   *)
(* or still somewhere in the fabric, at every instant; so injected =       *)
(* delivered + dropped when the queue drains.                              *)
Conserved ==
  \A k \in Kind :
    sim.injected[k] = sim.received[k] + sim.dropped[k] + BytesInFabric(k)

(* The assertions of the event loop: no event is pending from before the   *)
(* clock, and a packet that reaches a host has reached its own.            *)
RunAsserts ==
  \A e \in sim.events :
    /\ e.time >= sim.now
    /\ e.type = "Arrive" /\ is_host(e.port[2])
         => e.port[2] = Home(e.pkt.flow, e.pkt.kind)

(* A dependent flow does nothing before the flow it waits on completes,    *)
(* and its completion time is counted from that instant.                   *)
WaitsForDependency ==
  \A d \in {f \in Flow : spec[f].depends_on # 0} :
    LET r == sim.result[spec[d].depends_on]
    IN  IF r.complete THEN sim.result[d].start_ns = r.finish_ns
        ELSE /\ sim.tx[d].next_seq = 0
             /\ \A e \in sim.events : e.pkt.flow # d

(* Every packet of a flow takes one path, so a flow that lost and resent   *)
(* nothing is received in order (the claim of EcmpPolicy).                 *)
InOrder ==
  \A f \in Flow :
    LET r == sim.result[f]
    IN  r.packets_dropped = 0 /\ r.packets_retransmitted = 0
          => sim.delivered[f] = 0 .. r.packets_delivered - 1

(* When the queue drains every flow is complete with all its packets       *)
(* acked, reported failed, or waiting on a flow that did not complete.     *)
EndsSettled ==
  Drained =>
    \A f \in Flow :
      \/ sim.tx[f].failed
      \/ sim.result[f].complete /\ sim.acked[f] = Index(f)
      \/ spec[f].depends_on # 0 /\ ~sim.result[spec[f].depends_on].complete

(* Re-running the same object reproduces the run: begin_run clears all the *)
(* state that matters.                                                     *)
RunsRepeat == first # <<>> /\ Drained => Outcome = first

(* What docs/validation.md says of a drop: it leaves its flow permanently  *)
(* incomplete.                                                             *)
DropIsFinal ==
  Drained => \A f \in Flow : sim.result[f].packets_dropped > 0 => ~sim.result[f].complete

-----------------------------------------------------------------------------
(* The events of S in the order they will be handled. *)
Line(S) == [k \in 1 .. Cardinality(S) |->
              CHOOSE e \in S : Cardinality({x \in S : Before(x, e)}) = k - 1]

(* One port of the simulator: its wire is the Arrive events it has pushed. *)
Wire(p) ==
  LET arrivals == Line({e \in sim.events : e.type = "Arrive" /\ e.port = p})
  IN  [i \in DOMAIN arrivals |-> arrivals[i].pkt]

Serving(p) == IF sim.port[p].busy THEN <<sim.port[p].in_flight>> ELSE <<>>

Link(p, pkts, q) == INSTANCE DropTailLink WITH
  Packet <- pkts, capacity <- q,
  waiting <- sim.port[p].waiting, serving <- Serving(p), wire <- Wire(p),
  sent <- sim.port[p].sent, dropped <- sim.port[p].dropped

(* A packet the port has newly taken is the last it holds; one it refuses  *)
(* is anyone.                                                              *)
Newest(p) == {Last(<<NoPacket>> \o Serving(p) \o sim.port[p].waiting)}

(* Each of the ports shared by all the flows is, all the while, the        *)
(* drop-tail link that OutputPort is proved to be when it is alone.        *)
PortsAreLinks ==
  /\ \A p \in Port : \E q \in {link(p).queue_capacity_pkts} : Link(p, {}, q)!Init
  /\ [][\A p \in Port : \E q \in {link(p).queue_capacity_pkts}, pkts \in {Newest(p)'} :
           Link(p, pkts, q)!Next \/ UNCHANGED Link(p, pkts, q)!vars]_vars

-----------------------------------------------------------------------------
(* One flow of the simulator, its fabric seen as two bags of copies.       *)
Pending(f, type) == {e \in sim.events : e.type = type /\ e.pkt.flow = f}

CopiesOf(f, k) == [i \in Index(f) |->
  Cardinality({c \in InFabric : c.pkt.flow = f /\ c.pkt.index = i /\ c.pkt.kind = k})]

(* The constants Transport has for a flow. *)
Shape(f) == [packets |-> Packets(f), window |-> spec[f].window_pkts,
             attempts |-> max_attempts, paced |-> period_ns(f) > 0]

Sender(f, s) == INSTANCE Transport WITH
  packets_total <- s.packets, window_pkts <- s.window, max_attempts <- s.attempts,
  Paced <- s.paced,
  tx <- [next_seq |-> sim.tx[f].next_seq, in_flight |-> sim.tx[f].in_flight,
         retx |-> sim.tx[f].retx, gated |-> sim.now < sim.tx[f].next_send_ns,
         send_scheduled |-> sim.tx[f].send_scheduled, failed |-> sim.tx[f].failed],
  flying <- sim.flying[f], acked <- sim.acked[f], delivered <- sim.delivered[f],
  attempt <- sim.attempt[f], packets_delivered <- sim.result[f].packets_delivered,
  complete <- sim.result[f].complete,
  released <- spec[f].depends_on = 0 \/ sim.result[spec[f].depends_on].complete,
  injects <- Cardinality(Pending(f, "Inject")),
  timers <- [i \in Index(f) |-> [a \in 0 .. max_attempts - 1 |->
     Cardinality({e \in Pending(f, "Timeout") : e.pkt.index = i /\ e.attempt = a})]],
  data <- CopiesOf(f, "Data"), acks <- CopiesOf(f, "Ack")

(* Each flow starts as Transport's Init allows, and every step of a run is *)
(* for each flow a step of Transport or no step at all.                    *)
SendersAreTransports ==
  /\ \A f \in Flow : \E s \in {Shape(f)} : Sender(f, s)!Init
  /\ [][\/ Rerun
        \/ \A f \in Flow : \E s \in {Shape(f)} :
              Sender(f, s)!Next \/ UNCHANGED Sender(f, s)!vars]_vars
=============================================================================
