----------------------------- MODULE AllReduce ------------------------------
(***************************************************************************)
(* make_ring_all_reduce: the flows of a ring all-reduce, chained by        *)
(* depends_on, as Simulation runs them.  A flow is its number,             *)
(* step * gpus + rank.  A flow starts the moment the flow it depends on    *)
(* completes and completes some time later, or never when its sender gives *)
(* up.  The program carries sizes only; the buffers the chunks belong to   *)
(* are kept here to say what the chain of dependencies is for.             *)
(***************************************************************************)
EXTENDS Workloads

CONSTANT Rings   \* numbers of ranks

ASSUME RingsAssumption == Rings \subseteq Nat \ {0, 1}

VARIABLES gpus,       \* ranks of this collective
          started,    \* flows whose sender has been told to start
          complete,   \* flows whose last byte has arrived
          payload,    \* what a started flow carries
          buffer      \* rank -> chunk -> how often each rank's part is in it

vars == <<gpus, started, complete, payload, buffer>>

Ranks == 0 .. gpus - 1
Flows == 0 .. steps(gpus) * gpus - 1

Step(f) == step(gpus, f)
From(f) == rank(gpus, f)
To(f)   == dst(gpus, f)
Waits(f) == depends_on(gpus, f)

-----------------------------------------------------------------------------
(* The collective: the first half of the steps adds chunks up, the second
   half passes the sums on. *)
Chunk(f) == (From(f) + steps(gpus) * gpus - Step(f)) % gpus

Own(r) == [c \in Ranks |-> [q \in Ranks |-> IF q = r THEN 1 ELSE 0]]

Everyone == [q \in Ranks |-> 1]

Added(x, y) == [q \in Ranks |-> x[q] + y[q]]

Received(f) ==
  [buffer EXCEPT ![To(f)][Chunk(f)] =
     IF Step(f) < gpus - 1 THEN Added(@, payload[f]) ELSE payload[f]]

-----------------------------------------------------------------------------
Init == /\ gpus \in Rings
        /\ started = {f \in Flows : Waits(f) = {}}
        /\ complete = {}
        /\ buffer = [r \in Ranks |-> Own(r)]
        /\ payload = [f \in started |-> buffer[From(f)][Chunk(f)]]

complete_flow(f) ==
  /\ f \in started \ complete
  /\ complete' = complete \cup {f}
  /\ buffer' = Received(f)
  /\ started' = started \cup {g \in Flows : f \in Waits(g)}
  /\ payload' = [g \in started' |-> IF g \in started THEN payload[g]
                                    ELSE buffer'[From(g)][Chunk(g)]]
  /\ UNCHANGED gpus

AllDone == complete = Flows /\ UNCHANGED vars

Next == (\E f \in Flows : complete_flow(f)) \/ AllDone

Spec == Init /\ [][Next]_vars

-----------------------------------------------------------------------------
(* A rank that has received a chunk of the second half, or the last of the
   first, holds every rank's part of it exactly once, although no rank waits
   for its own sends and the steps of different chunks are in no order. *)
Reduced ==
  \A f \in complete : Step(f) >= gpus - 2 => buffer[To(f)][Chunk(f)] = Everyone

(* Nothing arrives in a chunk while a flow is still sending it: the one
   dependency of each flow is all the synchronisation the ring needs. *)
StableWhileSent ==
  \A f \in started \ complete : buffer[From(f)][Chunk(f)] = payload[f]
=============================================================================
