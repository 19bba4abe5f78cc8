---------------------------- MODULE MCTopologies ----------------------------
(***************************************************************************)
(* The two fat-trees and three leaf-spines small enough to be walked from  *)
(* every host to every other along every candidate; and, for the search    *)
(* and the table alone, every way to link three switches and two hosts,    *)
(* the hosts numbered between the switches: disconnected nodes, cycles and *)
(* hosts that are transit nodes included.  Of two more graphs one has      *)
(* parallel links and one no host.                                         *)
(***************************************************************************)
EXTENDS Topologies

Tuples == {<<2, 2, 2>>, <<3, 2, 1>>, <<1, 3, 2>>}

Two == <<FALSE, TRUE, FALSE, FALSE, TRUE>>

AllLinks == <<<<1, 0>>, <<2, 0>>, <<3, 0>>, <<4, 0>>, <<2, 1>>,
              <<3, 1>>, <<4, 1>>, <<3, 2>>, <<4, 2>>, <<4, 3>>>>

Graphs ==
  {[is_host |-> Two, edges |-> SelectSeq(AllLinks, LAMBDA e : e \in E)] :
      E \in SUBSET ToSet(AllLinks)}
    \cup {[is_host |-> Two, edges |-> <<<<1, 0>>, <<0, 4>>, <<0, 1>>, <<4, 0>>>>],
          [is_host |-> <<FALSE, FALSE>>, edges |-> <<<<0, 1>>>>]}

Fabrics == Graphs \cup Configured

(* No packet is sent on the graphs: a host may have no port there, or be a *)
(* transit node.                                                           *)
Finished == pc = "done" /\ plan \in Graphs /\ UNCHANGED vars

MCNext == \/ plan \in Configured /\ Next
          \/ TableNext /\ UNCHANGED trip
          \/ Finished

MCSpec == Init /\ [][MCNext]_vars
=============================================================================
