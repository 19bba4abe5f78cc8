----------------------------- MODULE OutputPort -----------------------------
(***************************************************************************)
(* One directed link: the PacketRing of a Port, its busy flag and packet   *)
(* in service, its counters, and the TxComplete and Arrive events pending  *)
(* for it.  Simulation::enqueue, start_tx and on_tx_complete drive it;     *)
(* Fabric::reset_state clears it before a run.                             *)
(*                                                                         *)
(* Only the order of the events of one port matters here.  Its propagation *)
(* delay is constant and TxComplete events do not overlap, so Arrive       *)
(* events come in the order they were pushed: a sequence.  EventQueue is   *)
(* the heap that keeps that order.                                         *)
(***************************************************************************)
EXTENDS Naturals, Sequences

CONSTANTS Packet,     \* packets offered to the port
          Blank,      \* the default Packet{} an unused slot holds
          capacity    \* LinkParams::queue_capacity_pkts

ASSUME PortAssumption == capacity \in Nat /\ Blank \notin Packet

VARIABLES queue,            \* PacketRing: buf_, head_, count_
          busy,
          in_flight,        \* packet in service; stale when the port is idle
          packets_sent,
          packets_dropped,
          completions,      \* pending TxComplete events of this port
          wire              \* pending Arrive events of this port, in order

vars == <<queue, busy, in_flight, packets_sent, packets_dropped, completions, wire>>

Slots == 0 .. capacity - 1

-----------------------------------------------------------------------------
(* PacketRing *)

Cleared == [buf |-> [s \in Slots |-> Blank], head |-> 0, count |-> 0]

FullEarly(q) == q.count + 1 >= capacity   \* mutated: a slot is kept free

full(q) == q.count = capacity

(* A slot number one lap at most past the end, brought back into the buffer. *)
Wrap(n) == IF n >= capacity THEN n - capacity ELSE n

Push(q, p) == [buf |-> [q.buf EXCEPT ![Wrap(q.head + q.count)] = p],
               head |-> q.head, count |-> q.count + 1]

PopUnwrapped(q) == [buf |-> q.buf, head |-> q.head + 1, count |-> q.count - 1]  \* mutated

Pop(q) == [buf |-> q.buf, head |-> Wrap(q.head + 1), count |-> q.count - 1]

-----------------------------------------------------------------------------
Init == /\ queue = Cleared
        /\ busy = FALSE
        /\ in_flight = Blank
        /\ packets_sent = 0 /\ packets_dropped = 0
        /\ completions = 0
        /\ wire = <<>>

(* start_tx on a port whose ring is q and whose pending TxComplete events  *)
(* number n.                                                               *)
start_tx(q, n) == /\ in_flight' = q.buf[q.head]
                  /\ queue' = Pop(q)
                  /\ busy' = TRUE
                  /\ completions' = n + 1

drop(p) == /\ full(queue)
           /\ packets_dropped' = packets_dropped + 1
           /\ UNCHANGED <<queue, busy, in_flight, packets_sent, completions, wire>>

StartsAnyway(q) == TRUE   \* mutated: a busy port is started again

(* An idle port starts at once; a busy one gets to the packet later. *)
Starts(q) == ~busy

accept(p) ==
  /\ ~full(queue)
  /\ LET q == Push(queue, p)
     IN  IF Starts(q) THEN start_tx(q, completions)
         ELSE queue' = q /\ UNCHANGED <<busy, in_flight, completions>>
  /\ UNCHANGED <<packets_sent, packets_dropped, wire>>

enqueue(p) == drop(p) \/ accept(p)

on_tx_complete ==
  /\ completions > 0
  /\ packets_sent' = packets_sent + 1
  /\ wire' = Append(wire, in_flight)
  /\ IF queue.count > 0 THEN start_tx(queue, completions - 1)
     ELSE /\ busy' = FALSE /\ completions' = completions - 1
          /\ UNCHANGED <<queue, in_flight>>
  /\ UNCHANGED packets_dropped

(* The far end takes the oldest packet off the wire. *)
arrive == /\ wire # <<>>
          /\ wire' = Tail(wire)
          /\ UNCHANGED <<queue, busy, in_flight, packets_sent, packets_dropped,
                         completions>>

(* A run ends with no event pending; the next begin_run clears the port. *)
reset_state ==
  /\ completions = 0 /\ wire = <<>>
  /\ queue' = Cleared /\ busy' = FALSE /\ in_flight' = Blank
  /\ packets_sent' = 0 /\ packets_dropped' = 0
  /\ UNCHANGED <<completions, wire>>

Next == \/ \E p \in Packet : enqueue(p)
        \/ on_tx_complete \/ arrive \/ reset_state

Spec == Init /\ [][Next]_vars

-----------------------------------------------------------------------------
(* Properties *)

Ring == [buf : [Slots -> Packet \cup {Blank}], head : Nat, count : 0 .. capacity]

(* The head never leaves the buffer, and the count never exceeds it. *)
TypeOK == /\ queue \in Ring
          /\ queue.head < capacity \/ queue.head = 0
          /\ busy \in BOOLEAN
          /\ in_flight \in Packet \cup {Blank}
          /\ packets_sent \in Nat /\ packets_dropped \in Nat
          /\ completions \in Nat
          /\ wire \in Seq(Packet \cup {Blank})

(* A port is busy exactly while one TxComplete is pending for it, and only *)
(* a busy port has packets queued: no packet is stranded in a queue nobody *)
(* will look at again, and none is overwritten in service.                 *)
OneServer == /\ completions = IF busy THEN 1 ELSE 0
             /\ queue.count > 0 => busy

(* The packets queued, oldest first. *)
Contents(q) == [k \in 1 .. q.count |-> q.buf[Wrap(q.head + k - 1)]]

(* The port implements the drop-tail link: what it accepts leaves in the   *)
(* order it came, nothing is duplicated, and only a full ring drops.       *)
Link == INSTANCE DropTailLink WITH
          waiting <- Contents(queue),
          serving <- IF busy THEN <<in_flight>> ELSE <<>>,
          sent <- packets_sent, dropped <- packets_dropped

IsDropTailLink == Link!Spec
=============================================================================
