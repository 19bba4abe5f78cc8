----------------------------- MODULE EventQueue -----------------------------
(***************************************************************************)
(* The binary min-heap of events: push, pop and clear, with one step for   *)
(* each turn of the loops of sift_up and sift_down, and the event loop's   *)
(* clock.  Between the steps of a sift the heap has a hole at i, and held  *)
(* is the event that will fill it.                                         *)
(*                                                                         *)
(* The program is single threaded: while a sift is under way (pc is not    *)
(* "idle") nothing else happens.  An event is its time and its seq; what   *)
(* it carries is never compared.  The array is a function on indices, of   *)
(* which those below size are live.                                        *)
(***************************************************************************)
EXTENDS Naturals

CONSTANT Time   \* the times events are scheduled for

ASSUME TimeAssumption == Time \subseteq Nat

VARIABLES heap, size,   \* heap_
          next_seq,     \* next_seq_
          pc, i, held,  \* the sift under way: "idle", "up" or "down"
          popped,       \* what the last pop returned, as a set of at most one
          now           \* Simulation::now_

vars == <<heap, size, next_seq, pc, i, held, popped, now>>

(* What held is when no sift is under way. *)
None == [time |-> 0, seq |-> 0]

EarlierUntied(x, y) == x.time < y.time   \* mutated: ties are left to the heap

earlier(x, y) == IF x.time # y.time THEN x.time < y.time ELSE x.seq < y.seq

Parent(k) == (k - 1) \div 2
Left(k)   == 2 * k + 1
Right(k)  == Left(k) + 1

Init == /\ heap = [k \in {} |-> None] /\ size = 0
        /\ next_seq = 0
        /\ pc = "idle" /\ i = 0 /\ held = None
        /\ popped = {}
        /\ now = 0

-----------------------------------------------------------------------------
(* push: the loop's handlers only schedule from now on. *)
push(t) ==
  LET e == [time |-> t, seq |-> next_seq]
  IN  /\ pc = "idle"
      /\ t >= now
      /\ heap' = [k \in 0 .. size |-> IF k = size THEN e ELSE heap[k]]
      /\ size' = size + 1
      /\ next_seq' = next_seq + 1
      /\ pc' = "up" /\ i' = size /\ held' = e
      /\ UNCHANGED <<popped, now>>

(* The hole at k has a parent that held must pass. *)
Rises(k) == k > 0 /\ earlier(held, heap[Parent(k)])

(* What each turn of a sift leaves: the hole moves to k, or held fills it. *)
MoveHole(k) == /\ heap' = [heap EXCEPT ![i] = heap[k]]
               /\ i' = k
               /\ UNCHANGED <<pc, held>>

LeaveHole == /\ heap' = heap   \* mutated: held is not written back
             /\ pc' = "idle" /\ i' = 0 /\ held' = None

FillHole == /\ heap' = [heap EXCEPT ![i] = held]
            /\ pc' = "idle" /\ i' = 0 /\ held' = None

sift_up ==
  /\ pc = "up"
  /\ IF Rises(i) THEN MoveHole(Parent(i)) ELSE FillHole
  /\ UNCHANGED <<size, next_seq, popped, now>>

-----------------------------------------------------------------------------
RemainsAny == size > 0   \* mutated: the array is not tested for emptiness

Remains == size > 1

(* pop: the last event is moved to the root and sifted down, unless it was *)
(* the root.  The event loop sets its clock to the popped event's time.    *)
pop ==
  /\ pc = "idle" /\ size > 0
  /\ popped' = {heap[0]}
  /\ now' = heap[0].time
  /\ heap' = [k \in 0 .. size - 2 |-> IF k = 0 THEN heap[size - 1] ELSE heap[k]]
  /\ size' = size - 1
  /\ IF Remains THEN pc' = "down" /\ i' = 0 /\ held' = heap[size - 1]
     ELSE UNCHANGED <<pc, i, held>>
  /\ UNCHANGED next_seq

(* The earlier child of the hole. *)
LeftChild(k) == Left(k)   \* mutated: the right child is not looked at

Child(k) == IF Right(k) < size /\ earlier(heap[Right(k)], heap[Left(k)])
            THEN Right(k) ELSE Left(k)

Sinks(k) == Left(k) < size /\ earlier(heap[Child(k)], held)

sift_down ==
  /\ pc = "down"
  /\ IF Sinks(i) THEN MoveHole(Child(i)) ELSE FillHole
  /\ UNCHANGED <<size, next_seq, popped, now>>

(* begin_run, after a run that has drained the queue. *)
clear ==
  /\ pc = "idle" /\ size = 0
  /\ next_seq' = 0 /\ now' = 0 /\ popped' = {}
  /\ UNCHANGED <<heap, size, pc, i, held>>

Next == (\E t \in Time : push(t)) \/ sift_up \/ pop \/ sift_down \/ clear

Spec == Init /\ [][Next]_vars

-----------------------------------------------------------------------------
(* Properties *)

Event == [time : Nat, seq : Nat]
Live  == 0 .. size - 1
Hole  == IF pc = "idle" THEN {} ELSE {i}

TypeOK == /\ size \in Nat /\ next_seq \in Nat /\ now \in Nat
          /\ heap \in [Live -> Event]
          /\ pc \in {"idle", "up", "down"}
          /\ i \in Nat /\ Hole \subseteq Live
          /\ held \in Event
          /\ popped \subseteq Event

(* The event at index k, the hole counting as filled. *)
At(k) == IF k \in Hole THEN held ELSE heap[k]

(* No event is earlier than its parent: everywhere when the heap is idle,  *)
(* everywhere but across the hole during a sift, and the hole's children   *)
(* never come before the hole's parent, so filling it is always possible.  *)
HeapOrdered ==
  /\ \A k \in Live \ {0} :
       \/ ~earlier(At(k), At(Parent(k)))
       \/ pc = "up" /\ k = i
       \/ pc = "down" /\ Parent(k) = i
  /\ \A k \in Live \ {0} :
       pc # "idle" /\ Parent(k) = i /\ i > 0 => ~earlier(heap[k], heap[Parent(i)])

(* Every event scheduled is in the heap once, and nothing in the heap is   *)
(* earlier than the clock: no event is lost or doubled by a sift, and      *)
(* virtual time never goes back (the assertion in Simulation::run) as long *)
(* as nothing is pushed for an earlier time, which is RunAsserts.          *)
NothingLost ==
  /\ \A j, k \in Live : At(j).seq = At(k).seq => j = k
  /\ \A k \in Live : At(k).seq < next_seq /\ At(k).time >= now

(* The heap is an agenda: it returns the earliest event, and the one       *)
(* scheduled first among events of equal time.                             *)
Schedule == INSTANCE Agenda WITH pending <- {At(k) : k \in Live}

IsAgenda == Schedule!Spec
=============================================================================
