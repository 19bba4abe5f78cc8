---------------------------- MODULE SlidingWindow ----------------------------
(***************************************************************************)
(* What one flow of the simulator promises, with no timers, no attempts,   *)
(* no retransmission ring and no network: a fixed window over packets      *)
(* 0 .. packets_total-1.  Transport implements it.                         *)
(*                                                                         *)
(* A packet is outstanding from its first transmission until the sender    *)
(* sees its first ack.  The contract of FlowSpec::window_pkts is that at   *)
(* most Window packets are ever outstanding.  Completion belongs to the    *)
(* receiver and failure to the sender, so the two are independent.         *)
(***************************************************************************)
EXTENDS Naturals, FiniteSets

CONSTANTS packets_total, Window

VARIABLES next_seq,    \* lowest index never sent
          delivered,   \* indices the receiver holds
          acked,       \* indices the sender saw an ack for
          complete,    \* FlowResult::complete
          failed       \* FlowResult::failed

vars == <<next_seq, delivered, acked, complete, failed>>

Sent == 0 .. next_seq - 1
All  == 0 .. packets_total - 1

Outstanding(n, A) == Cardinality((0 .. n - 1) \ A)

Init ==
  /\ next_seq = 0
  /\ delivered = {}
  /\ acked = {}
  /\ complete = FALSE
  /\ failed = FALSE

(* The sender moves from acked set acked to A, and may use the room that   *)
(* leaves in the window for packets it has never sent.                     *)
Advance(A) ==
  /\ acked' = A
  /\ next_seq' \in next_seq .. packets_total
  /\ next_seq' > next_seq => ~failed /\ Outstanding(next_seq', A) <= Window

Send == Advance(acked) /\ UNCHANGED <<delivered, complete, failed>>

Ack == /\ \E i \in delivered \ acked : Advance(acked \cup {i})
       /\ UNCHANGED <<delivered, complete, failed>>

Deliver ==
  /\ \E i \in Sent \ delivered : delivered' = delivered \cup {i}
  /\ complete' = (delivered' = All)
  /\ UNCHANGED <<next_seq, acked, failed>>

GiveUp ==
  /\ acked # All
  /\ ~failed
  /\ failed' = TRUE
  /\ UNCHANGED <<next_seq, delivered, acked, complete>>

Next == Send \/ Ack \/ Deliver \/ GiveUp

Spec == Init /\ [][Next]_vars
=============================================================================
