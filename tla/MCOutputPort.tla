---------------------------- MODULE MCOutputPort ----------------------------
(***************************************************************************)
(* OutputPort offered at most MaxOffers packets between two resets.        *)
(***************************************************************************)
EXTENDS OutputPort

CONSTANT MaxOffers

Offered == packets_sent + packets_dropped + queue.count

MCNext == \/ Offered < MaxOffers /\ \E p \in Packet : enqueue(p)
          \/ on_tx_complete \/ arrive \/ reset_state

MCSpec == Init /\ [][MCNext]_vars
=============================================================================
