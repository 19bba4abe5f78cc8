---------------------------- MODULE MCEventQueue ----------------------------
(***************************************************************************)
(* EventQueue with at most MaxPushes events in a run.  Seven events make a *)
(* heap of three levels, where both sifts take several turns.              *)
(***************************************************************************)
EXTENDS EventQueue

CONSTANT MaxPushes

MCNext == \/ next_seq < MaxPushes /\ \E t \in Time : push(t)
          \/ sift_up \/ pop \/ sift_down \/ clear

MCSpec == Init /\ [][MCNext]_vars

=============================================================================
