---------------------------- MODULE MCSimulation ----------------------------
(***************************************************************************)
(* Simulation on a leaf-spine fabric of two leaves and two spines.  Flows  *)
(* 1 and 2 share the way down to host 6; flow 3 goes back the other way    *)
(* once flow 1 is complete, and its packets of eight bytes delay the acks  *)
(* of flow 2 at host 6.  In other settings flows 4 and 5 wait for flow 1,  *)
(* flow 3 for flow 2 and flow 6 for flow 3.  Sizes are in bytes and rates  *)
(* in Gb/s, so that a packet takes up to eight nanoseconds and an ack one  *)
(* or none.  Each object is run twice.                                     *)
(***************************************************************************)
EXTENDS Simulation, Clos

FlowOf(s, d, bytes, mtu, w, load, t, port, dep) ==
  [src |-> s, dst |-> d, size_bytes |-> bytes, mtu_bytes |-> mtu, window_pkts |-> w,
   load_permille |-> load, start_ns |-> t, src_port |-> port, dst_port |-> 9,
   depends_on |-> dep]

Specs(start, load) ==
  <<FlowOf(4, 6, 5, 2, 2, load, 3, 1, 0), FlowOf(5, 6, 13, 6, 5, load, start, 2, 0),
    FlowOf(6, 4, 10, 8, 1, load, 0, 3, 1)>>

(* Two flows wait for the first and one for the second, a chain follows, and
   the slots of the dependents are not in the order of the flows. *)
Dependent(load) ==
  <<FlowOf(4, 6, 5, 2, 2, load, 3, 1, 0), FlowOf(5, 6, 13, 6, 5, load, 0, 2, 0),
    FlowOf(6, 4, 3, 2, 1, load, 0, 3, 2), FlowOf(4, 7, 4, 2, 1, load, 0, 4, 1),
    FlowOf(7, 5, 2, 2, 1, load, 0, 5, 1), FlowOf(4, 6, 2, 2, 1, load, 0, 6, 3)>>

(* The keys of flows by host index, data and ack apart. *)
Keys(flows) ==
  UNION {LET s == flows[f]
         IN  {<<s.src - 4, s.dst - 4, s.src_port, s.dst_port>>,
              <<s.dst - 4, s.src - 4, s.dst_port, s.src_port>>} : f \in DOMAIN flows}

(* The keys hashed to the first candidate: none, the data of flow 1, or the
   acks of flow 2 and the data of flow 3. *)
Vias == {{}, {<<0, 2, 1, 9>>}, {<<2, 1, 9, 2>>, <<2, 0, 3, 9>>}}

Fab == built(LeafSpine(2, 2, 2))

Links(rate, prop, capacity) ==
  [rate |-> rate, prop_delay_ns |-> prop, queue_capacity_pkts |-> capacity]

Setting(room, rate, rto, flows, via, routing) ==
  [fabric |-> Fab, host_link |-> Links(rate, 1, room[1]),
   fabric_link |-> Links(8, 1, room[2]),
   transport |-> [rto_ns |-> rto, ack_bytes |-> 1, max_attempts |-> 2],
   flows |-> flows, routing |-> routing, runs |-> 2,
   hash |-> [x \in Fab.switch \X Keys(flows) |-> IF x[2] \in via THEN 0 ELSE HashRange - 1]]

(* Rings of no, one and several slots; a timeout shorter than a round trip *)
(* and two that are longer.                                                *)
AllScenarios ==
  [x \in ({<<1, 1>>, <<3, 1>>, <<3, 3>>} \X {9, 30, 60} \X {0, 8} \X Vias)
           \cup {<<<<0, 0>>, 9, 0, {}>>} |->
     IF x[3] = 0 THEN Setting(x[1], 8, x[2], Specs(0, 1000), x[4], "Ecmp")
     ELSE Setting(x[1], 10, x[2], Specs(8, 600), x[4],
                  IF x[4] = {} THEN "StaticFirst" ELSE "Ecmp")]
  @@ [x \in {<<1, 1>>, <<3, 3>>} \X {9, 60} \X {"dependents"} |->
        Setting(x[1], 8, x[2], Dependent(1000), {}, "Ecmp")]

(* TLC evaluates a definition without parameters once, but one that a
   configuration puts in place of a constant at every use of it. *)
MCScenarios == LET all == AllScenarios IN all
=============================================================================
