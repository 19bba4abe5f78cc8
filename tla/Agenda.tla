------------------------------- MODULE Agenda -------------------------------
(***************************************************************************)
(* What the event queue promises the event loop: the pending events are a  *)
(* set, and the next one dispatched is the earliest of them, the one       *)
(* scheduled first among those of equal time.  Virtual time is the time of *)
(* the event last dispatched.  EventQueue implements it with a binary heap.*)
(***************************************************************************)
EXTENDS Naturals

CONSTANT Time

VARIABLES pending,   \* scheduled and not yet dispatched
          popped,    \* the event last dispatched, as a set of at most one
          now,       \* virtual time
          next_seq   \* events scheduled in this run

vars == <<pending, popped, now, next_seq>>

Before(x, y) == x.time < y.time \/ (x.time = y.time /\ x.seq < y.seq)

Init == pending = {} /\ popped = {} /\ now = 0 /\ next_seq = 0

Schedule(t) == /\ pending' = pending \cup {[time |-> t, seq |-> next_seq]}
               /\ next_seq' = next_seq + 1
               /\ UNCHANGED <<popped, now>>

Dispatch == \E e \in pending :
              /\ \A f \in pending \ {e} : Before(e, f)
              /\ pending' = pending \ {e}
              /\ popped' = {e}
              /\ now' = e.time
              /\ UNCHANGED next_seq

(* A run starts over once nothing is pending. *)
Restart == /\ pending = {}
           /\ popped' = {} /\ now' = 0 /\ next_seq' = 0
           /\ UNCHANGED pending

Next == (\E t \in Time : t >= now /\ Schedule(t)) \/ Dispatch \/ Restart

Spec == Init /\ [][Next]_vars
=============================================================================
