----------------------------- MODULE Validation -----------------------------
(***************************************************************************)
(* The scenarios of the harness run by the simulator and read by the       *)
(* metrics: whether the harness's formulas describe what happens.          *)
(***************************************************************************)
EXTENDS Simulation, Harness, Metrics

CONSTANT Claims   \* Claims[setting]: the scenario the simulation is from

ASSUME ClaimsAssumption ==
  /\ DOMAIN Claims = DOMAIN Scenarios
  /\ \A i \in DOMAIN Claims : Claims[i].sim = Scenarios[i]

claim == Claims[setting]

(* The formulas speak of links that are all alike and of whole packets. *)
InScope ==
  /\ Homogeneous(cfg)
  /\ \A f \in Flow : spec[f].size_bytes % spec[f].mtu_bytes = 0

(* No flow completes before its closed form, whatever the traffic and the
   routing; and where the harness calls the analytical time exact, the measured
   one, of the flow or of the whole collective, is equal to it. *)
ClosedForms ==
  /\ InScope =>
       \A f \in Flow : sim.result[f].complete => fct_ns(sim.result[f]) >= claim.least_ns[f]
  /\ Drained /\ claim.analytical_exact =>
       /\ claim.kind = "smoke" => /\ sim.result[1].complete
                                  /\ fct_ns(sim.result[1]) = claim.analytical_ns
       /\ claim.kind = "all_reduce" => collective_time_ns(sim.result) = claim.analytical_ns

(* A timer that would resend or give up. *)
Live(e) == /\ e.pkt.index \notin sim.acked[e.pkt.flow]
           /\ e.attempt = sim.attempt[e.pkt.flow][e.pkt.index]
           /\ ~sim.result[e.pkt.flow].failed

(* With the timeout the harness computes, a timer that is due and live means a
   loss: no copy of its packet and no ack of it is queued or under way anywhere,
   however full the buffers are. *)
TimeoutMeansLoss ==
  InScope =>
    \A e \in sim.events :
      e.type = "Timeout" /\ e.time <= sim.now /\ Live(e) =>
        \A c \in InFabric : c.pkt.flow # e.pkt.flow \/ c.pkt.index # e.pkt.index

(* When a run is over, a percentile is the least completion time that so many of
   the complete flows do not exceed, and every flow left out is accounted for:
   what is reported can only flatter a router by as many flows as it admits to
   have stranded. *)
NearestRank ==
  Drained =>
    LET s    == summarize_fct(sim.result)
        done == {f \in Flow : sim.result[f].complete}
        AtMost(v) == Cardinality({f \in done : fct_ns(sim.result[f]) <= v})
        Percentile(v, permille) ==
          /\ AtMost(v) * 1000 >= permille * Cardinality(done)
          /\ AtMost(v - 1) * 1000 < permille * Cardinality(done)
    IN  /\ s.flows_incomplete = end_run.flows_incomplete
        /\ s.flows_incomplete + Cardinality(done) = s.flows_total
        /\ done # {} => /\ Percentile(s.p50_ns, 500)
                        /\ Percentile(s.p90_ns, 900)
                        /\ Percentile(s.p99_ns, 990)
                        /\ AtMost(s.max_ns) = Cardinality(done)

(* What the harness (scenario.cpp:172) and the command line say of a collective
   whose hops differ: the analytical figure is the optimistic case, a bound. *)
RingBound ==
  Drained /\ claim.kind = "all_reduce" /\ InScope
    /\ (\A f \in Flow : sim.result[f].complete) =>
      collective_time_ns(sim.result) >= claim.analytical_ns
=============================================================================
