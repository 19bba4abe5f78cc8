-------------------------- MODULE EventQueueProofs --------------------------
(***************************************************************************)
(* The binary heap of EventQueue, for heaps and times of any size.  The    *)
(* invariant speaks of At, the heap with the hole of a sift filled: a turn *)
(* of a sift only exchanges two places of At, so no event is lost, and the *)
(* order is broken at most across the hole.  That the root is the earliest *)
(* event follows from the order along its ancestors: the lowest index that *)
(* beat the root would have a parent that beats it too.                    *)
(***************************************************************************)
EXTENDS EventQueue, TLAPS, NaturalsInduction, WellFoundedInduction

USE TimeAssumption

IInv == TypeOK /\ HeapOrdered /\ NothingLost

-----------------------------------------------------------------------------
(* Indices *)

LEMMA ParentFacts ==
  \A k \in Nat \ {0} : /\ Parent(k) \in Nat /\ Parent(k) < k
                       /\ k = Left(Parent(k)) \/ k = Right(Parent(k))
  BY DEF Parent, Left, Right

LEMMA ChildFacts ==
  \A k \in Nat : /\ Left(k) \in Nat \ {0} /\ Right(k) \in Nat \ {0}
                 /\ Parent(Left(k)) = k /\ Parent(Right(k)) = k
                 /\ k < Left(k) /\ Left(k) < Right(k)
  BY DEF Parent, Left, Right

LEMMA NatMinimum ==
  ASSUME NEW T, T \subseteq Nat, T # {}
  PROVE  \E m \in T : \A n \in T : ~(n < m)
<1>1. \E m \in T : \A n \in T : <<n, m>> \notin OpToRel(<, Nat)
  BY NatLessThanWellFounded, WFMin
<1>2. \A m, n \in Nat : n < m => <<n, m>> \in OpToRel(<, Nat)
  BY DEF OpToRel
<1> QED BY <1>1, <1>2

-----------------------------------------------------------------------------
(* The order of events *)

LEMMA EarlierOrder ==
  ASSUME NEW x \in Event, NEW y \in Event, NEW z \in Event
  PROVE  /\ earlier(x, y) => ~earlier(y, x)
         /\ ~earlier(x, y) /\ ~earlier(y, z) => ~earlier(x, z)
         /\ ~earlier(y, x) /\ x.seq # y.seq => earlier(x, y)
         /\ ~earlier(x, y) => y.time <= x.time
  BY DEF Event, earlier

(* At most one place of an order is broken; the heap as it would be.       *)
LEMMA AtType == TypeOK => \A k \in Live : At(k) \in Event
  BY DEF TypeOK, At, Live

LEMMA RootFirst ==
  ASSUME TypeOK, HeapOrdered, pc = "idle"
  PROVE  \A k \in Live : ~earlier(heap[k], heap[0])
<1> DEFINE T == {k \in Live : earlier(heap[k], heap[0])}
<1>1. SUFFICES ASSUME T # {} PROVE FALSE
  OBVIOUS
<1>2. T \subseteq Nat
  BY DEF Live, TypeOK
<1>3. PICK m \in T : \A n \in T : ~(n < m)
  BY <1>1, <1>2, NatMinimum
<1>4. /\ m \in Live /\ heap[m] \in Event /\ heap[0] \in Event /\ 0 \in Live
      /\ earlier(heap[m], heap[0])
  BY <1>3 DEF TypeOK, Live
<1>5. m # 0
  BY <1>4, EarlierOrder
<1>6. Parent(m) \in Live /\ Parent(m) < m
  BY <1>4, <1>5, ParentFacts DEF Live, TypeOK
<1>7. ~earlier(heap[m], heap[Parent(m)])
  BY <1>4, <1>5 DEF HeapOrdered, At, Hole
<1>8. Parent(m) \notin T
  BY <1>3, <1>6
<1>9. ~earlier(heap[Parent(m)], heap[0])
  BY <1>6, <1>8
<1>10. heap[Parent(m)] \in Event
  BY <1>6 DEF TypeOK
<1> QED BY <1>4, <1>7, <1>9, <1>10, EarlierOrder

-----------------------------------------------------------------------------
(* What the turns of the sifts do to At. *)
Swap(a, b, k) == IF k = a THEN b ELSE IF k = b THEN a ELSE k

LEMMA MoveHoleSwaps ==
  ASSUME TypeOK, pc # "idle", NEW c \in Live, c # i, MoveHole(c), size' = size
  PROVE  /\ Live' = Live /\ Hole' = {c}
         /\ heap' \in [Live -> Event] /\ i' = c /\ i \in Live /\ pc' = pc
         /\ \A k \in Live : At(k)' = At(Swap(i, c, k))
         /\ \A k \in Live \ {i} : heap'[k] = heap[k]
         /\ heap'[i] = heap[c]
<1>1. i \in Live /\ heap \in [Live -> Event]
  BY DEF TypeOK, Hole
<1>2. /\ Live' = Live /\ pc' = pc /\ i' = c /\ held' = held
      /\ heap' = [heap EXCEPT ![i] = heap[c]]
  BY DEF Live, MoveHole
<1>3. Hole' = {c} /\ Hole = {i}
  BY <1>2 DEF Hole
<1>4. heap' \in [Live -> Event] /\ heap'[i] = heap[c]
      /\ \A k \in Live \ {i} : heap'[k] = heap[k]
  BY <1>1, <1>2
<1>5. \A k \in Live : At(k)' = At(Swap(i, c, k))
  BY <1>1, <1>2, <1>3, <1>4 DEF At, Swap
<1> QED BY <1>1, <1>2, <1>3, <1>4, <1>5

LEMMA FillHoleKeeps ==
  ASSUME TypeOK, pc # "idle", FillHole, size' = size
  PROVE  /\ Live' = Live /\ Hole' = {} /\ pc' = "idle" /\ i' = 0 /\ held' = None
         /\ heap' \in [Live -> Event]
         /\ \A k \in Live : At(k)' = At(k)
<1>1. i \in Live /\ heap \in [Live -> Event] /\ held \in Event /\ Hole = {i}
  BY DEF TypeOK, Hole
<1>2. Live' = Live /\ pc' = "idle" /\ heap' = [heap EXCEPT ![i] = held] /\ i' = 0 /\ held' = None
  BY DEF Live, FillHole
<1>3. Hole' = {}
  BY <1>2 DEF Hole
<1>4. \A k \in Live : At(k)' = At(k)
  BY <1>1, <1>2, <1>3 DEF At
<1> QED BY <1>1, <1>2, <1>3, <1>4

(* Where the sifts find the next hole, and that it is the one to take.     *)
LEMMA ParentOfHole ==
  ASSUME TypeOK, pc = "up", Rises(i)
  PROVE  Parent(i) \in Live /\ Parent(i) # i /\ i > 0 /\ earlier(held, heap[Parent(i)])
<1>1. i \in Live /\ i > 0 /\ earlier(held, heap[Parent(i)])
  BY DEF TypeOK, Hole, Rises
<1> QED BY <1>1, ParentFacts DEF Live, TypeOK

LEMMA ChildOfHole ==
  ASSUME TypeOK, pc = "down", Left(i) < size
  PROVE  /\ Child(i) \in Live \ {0} /\ Child(i) # i /\ Parent(Child(i)) = i
         /\ \A k \in Live \ {0} : Parent(k) = i => ~earlier(heap[k], heap[Child(i)])
<1>1. i \in Nat /\ heap \in [Live -> Event] /\ size \in Nat
  BY DEF TypeOK
<1>2. \A k \in Live \ {0} : Parent(k) = i => k = Left(i) \/ (k = Right(i) /\ Right(i) < size)
  BY <1>1, ParentFacts DEF Live
<1>3. Left(i) \in Live \ {0} /\ (Right(i) < size => Right(i) \in Live \ {0})
  <2>1. Left(i) \in Nat \ {0} /\ Right(i) \in Nat \ {0}
    BY <1>1, ChildFacts
  <2>2. \A k \in Nat \ {0} : k < size => k \in Live \ {0}
    BY <1>1 DEF Live
  <2> QED BY <2>1, <2>2
<1>4. CASE Right(i) < size /\ earlier(heap[Right(i)], heap[Left(i)])
  <2>1. Child(i) = Right(i)
    BY <1>4 DEF Child
  <2> QED BY <1>1, <1>2, <1>3, <1>4, <2>1, ChildFacts, EarlierOrder
<1>5. CASE ~(Right(i) < size /\ earlier(heap[Right(i)], heap[Left(i)]))
  <2>1. Child(i) = Left(i)
    BY <1>5 DEF Child
  <2> QED BY <1>1, <1>2, <1>3, <1>5, <2>1, ChildFacts, EarlierOrder
<1> QED BY <1>4, <1>5
-----------------------------------------------------------------------------
(* Every step keeps the types. *)
LEMMA StepTypes == TypeOK /\ [Next]_vars => TypeOK'
<1> SUFFICES ASSUME TypeOK, [Next]_vars PROVE TypeOK'
  OBVIOUS
<1>0. /\ size \in Nat /\ next_seq \in Nat /\ now \in Nat /\ i \in Nat
      /\ heap \in [Live -> Event] /\ held \in Event /\ popped \subseteq Event
  BY DEF TypeOK
<1>00. None \in Event
  BY DEF None, Event
<1>1. ASSUME NEW t \in Time, push(t) PROVE TypeOK'
  <2> DEFINE e == [time |-> t, seq |-> next_seq]
  <2>1. /\ heap' = [k \in 0 .. size |-> IF k = size THEN e ELSE heap[k]]
        /\ size' = size + 1 /\ next_seq' = next_seq + 1
        /\ pc' = "up" /\ i' = size /\ held' = e /\ popped' = popped /\ now' = now
    BY <1>1 DEF push
  <2>2. e \in Event
    BY <1>0 DEF Event
  <2>3. Live' = 0 .. size /\ Hole' = {size}
    BY <1>0, <2>1 DEF Live, Hole
  <2>4. \A k \in 0 .. size : k = size \/ k \in Live
    BY <1>0 DEF Live
  <2>5. heap' \in [Live' -> Event]
    BY <1>0, <2>1, <2>2, <2>3, <2>4
  <2> QED BY <1>0, <2>1, <2>2, <2>3, <2>5 DEF TypeOK
<1>2. ASSUME sift_up PROVE TypeOK'
  <2>1. pc = "up" /\ size' = size /\ UNCHANGED <<next_seq, popped, now>>
    BY <1>2 DEF sift_up
  <2>2. CASE Rises(i)
    <3>1. MoveHole(Parent(i))
      BY <1>2, <2>2 DEF sift_up
    <3>2. held' = held
      BY <3>1 DEF MoveHole
    <3> QED BY <1>0, <2>1, <2>2, <3>1, <3>2, ParentOfHole, MoveHoleSwaps DEF TypeOK, Live
  <2>3. CASE ~Rises(i)
    <3>1. FillHole
      BY <1>2, <2>3 DEF sift_up
    <3> QED BY <1>0, <1>00, <2>1, <3>1, FillHoleKeeps DEF TypeOK
  <2> QED BY <2>2, <2>3
<1>3. ASSUME pop PROVE TypeOK'
  <2>1. /\ pc = "idle" /\ size > 0 /\ size' = size - 1
        /\ popped' = {heap[0]} /\ now' = heap[0].time /\ next_seq' = next_seq
        /\ heap' = [k \in 0 .. size - 2 |-> IF k = 0 THEN heap[size - 1] ELSE heap[k]]
    BY <1>3 DEF pop
  <2>2. heap[0] \in Event /\ heap[size - 1] \in Event /\ heap[0].time \in Nat
    BY <1>0, <2>1 DEF Live, Event
  <2>3. Live' = 0 .. size - 2 /\ size' \in Nat /\ \A k \in 0 .. size - 2 : k \in Live
    BY <1>0, <2>1 DEF Live
  <2>4. heap' \in [Live' -> Event]
    BY <1>0, <2>1, <2>2, <2>3
  <2>5. CASE size > 1
    <3>1. pc' = "down" /\ i' = 0 /\ held' = heap[size - 1]
      BY <1>3, <2>5 DEF pop, Remains
    <3>2. Hole' \subseteq Live'
      BY <1>0, <2>3, <2>5, <3>1 DEF Hole
    <3> QED BY <1>0, <2>1, <2>2, <2>3, <2>4, <3>1, <3>2 DEF TypeOK
  <2>6. CASE ~(size > 1)
    <3>1. UNCHANGED <<pc, i, held>>
      BY <1>3, <2>6 DEF pop, Remains
    <3>2. Hole' = {}
      BY <2>1, <3>1 DEF Hole
    <3> QED BY <1>0, <2>1, <2>2, <2>3, <2>4, <3>1, <3>2 DEF TypeOK
  <2> QED BY <2>5, <2>6
<1>4. ASSUME sift_down PROVE TypeOK'
  <2>1. pc = "down" /\ size' = size /\ UNCHANGED <<next_seq, popped, now>>
    BY <1>4 DEF sift_down
  <2>2. CASE Sinks(i)
    <3>1. MoveHole(Child(i)) /\ Left(i) < size
      BY <1>4, <2>2 DEF sift_down, Sinks
    <3>2. held' = held
      BY <3>1 DEF MoveHole
    <3> QED BY <1>0, <2>1, <3>1, <3>2, ChildOfHole, MoveHoleSwaps DEF TypeOK, Live
  <2>3. CASE ~Sinks(i)
    <3>1. FillHole
      BY <1>4, <2>3 DEF sift_down
    <3> QED BY <1>0, <1>00, <2>1, <3>1, FillHoleKeeps DEF TypeOK
  <2> QED BY <2>2, <2>3
<1>5. ASSUME clear PROVE TypeOK'
  BY <1>0, <1>5 DEF clear, TypeOK, Hole, Live
<1>6. ASSUME UNCHANGED vars PROVE TypeOK'
  BY <1>0, <1>6 DEF vars, TypeOK, Hole, Live
<1> QED BY <1>1, <1>2, <1>3, <1>4, <1>5, <1>6 DEF Next
-----------------------------------------------------------------------------
(* Every step keeps the heap's order. *)

LEMMA SiftUpOrders == TypeOK /\ HeapOrdered /\ sift_up => HeapOrdered'
<1> SUFFICES ASSUME TypeOK, HeapOrdered, sift_up PROVE HeapOrdered'
  OBVIOUS
<1>1. pc = "up" /\ size' = size /\ i \in Live /\ Hole = {i} /\ Live \subseteq Nat
  BY DEF sift_up, TypeOK, Hole, Live
<1>2. /\ \A k \in Live \ {0} : k # i => ~earlier(At(k), At(Parent(k)))
      /\ \A k \in Live \ {0} : Parent(k) = i /\ i > 0 => ~earlier(heap[k], heap[Parent(i)])
      /\ \A k \in Live : At(k) \in Event
      /\ \A k \in Live \ {i} : At(k) = heap[k]
      /\ At(i) = held
  BY <1>1, AtType DEF HeapOrdered, At
<1>3. \A k \in Live \ {0} : Parent(k) \in Live /\ Parent(k) < k /\ Parent(k) # k
  <2>1. \A k \in Live \ {0} : Parent(k) \in Nat /\ Parent(k) < k /\ k \in Nat
    BY <1>1, ParentFacts
  <2> QED BY <2>1 DEF Live, TypeOK
<1>4. CASE Rises(i)
  <2> DEFINE p == Parent(i)
  <2>1. p \in Live /\ p # i /\ i > 0 /\ earlier(held, heap[p]) /\ MoveHole(p)
    BY <1>1, <1>4, ParentOfHole DEF sift_up
  <2>2. /\ Live' = Live /\ Hole' = {p} /\ i' = p /\ pc' = pc
        /\ \A k \in Live : At(k)' = At(Swap(i, p, k))
        /\ \A k \in Live \ {i} : heap'[k] = heap[k]
        /\ heap'[i] = heap[p]
    BY <1>1, <2>1, MoveHoleSwaps
  <2>3. \A k \in Live : At(k)' = IF k = p THEN held ELSE IF k = i THEN heap[p] ELSE heap[k]
    BY <1>1, <1>2, <2>1, <2>2 DEF Swap
  <2>4. ASSUME NEW k \in Live \ {0}, k # p PROVE ~earlier(At(k)', At(Parent(k))')
    <3>1. heap[k] \in Event \/ k = i
      BY <1>1, <1>2
    <3>2. heap[p] \in Event /\ held \in Event
      BY <1>1, <1>2, <2>1
    <3>3. CASE k = i
      BY <2>1, <2>3, <3>2, <3>3, EarlierOrder
    <3>4. CASE k # i /\ Parent(k) = p
      <4>1. At(k)' = heap[k] /\ At(Parent(k))' = held
        BY <2>1, <2>3, <2>4, <3>4
      <4>2. ~earlier(heap[k], heap[p])
        BY <1>2, <2>1, <2>4, <3>4
      <4> QED BY <2>1, <3>1, <3>2, <3>4, <4>1, <4>2, EarlierOrder
    <3>5. CASE k # i /\ Parent(k) = i
      <4>1. At(k)' = heap[k] /\ At(Parent(k))' = heap[p]
        BY <1>1, <2>1, <2>3, <2>4, <3>5
      <4> QED BY <1>2, <2>1, <2>4, <3>5, <4>1
    <3>6. CASE k # i /\ Parent(k) # p /\ Parent(k) # i
      <4>1. At(k)' = heap[k] /\ At(Parent(k))' = heap[Parent(k)]
        BY <1>3, <2>3, <2>4, <3>6
      <4>2. At(k) = heap[k] /\ At(Parent(k)) = heap[Parent(k)]
        BY <1>2, <1>3, <2>4, <3>6
      <4> QED BY <1>2, <2>4, <3>6, <4>1, <4>2
    <3> QED BY <3>3, <3>4, <3>5, <3>6
  <2>5. ASSUME NEW k \in Live \ {0}, Parent(k) = p, p > 0
        PROVE  ~earlier(heap'[k], heap'[Parent(p)])
    <3>1. Parent(p) \in Live /\ Parent(p) < p /\ p < i /\ p \in Live \ {0} /\ p # i /\ i # 0
      <4>1. i \in Live \ {0} /\ p \in Live \ {0} /\ p # i /\ i # 0
        BY <1>1, <2>1, <2>5
      <4> QED BY <1>3, <4>1
    <3>2. Parent(p) # i /\ Parent(p) # p
      <4>1. i \in Nat /\ p \in Nat /\ Parent(p) \in Nat
        BY <1>1, <3>1
      <4> QED BY <3>1, <4>1
    <3>3. heap'[Parent(p)] = heap[Parent(p)] /\ At(Parent(p)) = heap[Parent(p)]
      BY <1>2, <2>2, <3>1, <3>2
    <3>4. ~earlier(heap[p], heap[Parent(p)])
      BY <1>2, <3>1, <3>3
    <3>5. CASE k = i
      BY <2>2, <3>3, <3>4, <3>5
    <3>6. CASE k # i
      <4>1. heap'[k] = heap[k] /\ ~earlier(heap[k], heap[p])
        BY <1>2, <2>1, <2>2, <2>5, <3>6
      <4>2. heap[k] \in Event /\ heap[p] \in Event /\ heap[Parent(p)] \in Event
        BY <1>2, <2>1, <2>5, <3>1, <3>2, <3>6
      <4> QED BY <3>3, <3>4, <4>1, <4>2, EarlierOrder
    <3> QED BY <3>5, <3>6
  <2> QED BY <1>1, <2>2, <2>4, <2>5 DEF HeapOrdered
<1>5. CASE ~Rises(i)
  <2>1. FillHole
    BY <1>1, <1>5 DEF sift_up
  <2>2. Live' = Live /\ pc' = "idle" /\ \A k \in Live : At(k)' = At(k)
    BY <1>1, <2>1, FillHoleKeeps
  <2>3. ASSUME NEW k \in Live \ {0} PROVE ~earlier(At(k), At(Parent(k)))
    <3>1. CASE k = i
      <4>1. ~earlier(held, heap[Parent(i)])
        BY <1>1, <1>5, <2>3, <3>1 DEF Rises
      <4> QED BY <1>1, <1>2, <1>3, <2>3, <3>1, <4>1
    <3> QED BY <1>2, <2>3, <3>1
  <2> QED BY <1>3, <2>2, <2>3 DEF HeapOrdered
<1> QED BY <1>4, <1>5

LEMMA SiftDownOrders == TypeOK /\ HeapOrdered /\ sift_down => HeapOrdered'
<1> SUFFICES ASSUME TypeOK, HeapOrdered, sift_down PROVE HeapOrdered'
  OBVIOUS
<1>1. pc = "down" /\ size' = size /\ i \in Live /\ Hole = {i} /\ Live \subseteq Nat
  BY DEF sift_down, TypeOK, Hole, Live
<1>2. /\ \A k \in Live \ {0} : Parent(k) # i => ~earlier(At(k), At(Parent(k)))
      /\ \A k \in Live \ {0} : Parent(k) = i /\ i > 0 => ~earlier(heap[k], heap[Parent(i)])
      /\ \A k \in Live : At(k) \in Event
      /\ \A k \in Live \ {i} : At(k) = heap[k]
      /\ At(i) = held
  BY <1>1, AtType DEF HeapOrdered, At
<1>3. \A k \in Live \ {0} : Parent(k) \in Live /\ Parent(k) < k /\ Parent(k) # k
  <2>1. \A k \in Live \ {0} : Parent(k) \in Nat /\ Parent(k) < k /\ k \in Nat
    BY <1>1, ParentFacts
  <2> QED BY <2>1 DEF Live, TypeOK
<1>4. CASE Sinks(i)
  <2> DEFINE c == Child(i)
  <2>1. /\ c \in Live \ {0} /\ c # i /\ Parent(c) = i /\ earlier(heap[c], held) /\ MoveHole(c)
        /\ \A k \in Live \ {0} : Parent(k) = i => ~earlier(heap[k], heap[c])
    BY <1>1, <1>4, ChildOfHole DEF sift_down, Sinks
  <2>2. /\ Live' = Live /\ Hole' = {c} /\ i' = c /\ pc' = pc
        /\ \A k \in Live : At(k)' = At(Swap(i, c, k))
        /\ \A k \in Live \ {i} : heap'[k] = heap[k]
        /\ heap'[i] = heap[c]
    BY <1>1, <2>1, MoveHoleSwaps
  <2>3. \A k \in Live : At(k)' = IF k = c THEN held ELSE IF k = i THEN heap[c] ELSE heap[k]
    BY <1>1, <1>2, <2>1, <2>2 DEF Swap
  <2>4. ASSUME NEW k \in Live \ {0}, Parent(k) # c PROVE ~earlier(At(k)', At(Parent(k))')
    <3>1. heap[c] \in Event /\ held \in Event
      BY <1>1, <1>2, <2>1
    <3>2. CASE k = c
      <4>1. At(k)' = held /\ At(Parent(k))' = heap[c]
        BY <1>1, <2>1, <2>3, <2>4, <3>2
      <4> QED BY <2>1, <3>1, <4>1, EarlierOrder
    <3>3. CASE k = i
      <4>1. At(k)' = heap[c] /\ Parent(k) # i /\ i > 0
        <5>1. i # c /\ i # 0 /\ i \in Nat
          BY <1>1, <2>1, <2>4, <3>3
        <5>2. Parent(k) # i
          BY <1>3, <2>4, <3>3
        <5> QED BY <1>1, <2>3, <3>3, <5>1, <5>2
      <4>2. At(Parent(k))' = heap[Parent(i)]
        BY <1>3, <2>3, <2>4, <3>3, <4>1
      <4> QED BY <1>2, <2>1, <3>3, <4>1, <4>2
    <3>4. CASE k # c /\ k # i /\ Parent(k) = i
      <4>1. At(k)' = heap[k] /\ At(Parent(k))' = heap[c]
        BY <1>1, <2>1, <2>3, <2>4, <3>4
      <4> QED BY <2>1, <2>4, <3>4, <4>1
    <3>5. CASE k # c /\ k # i /\ Parent(k) # i
      <4>1. At(k)' = heap[k] /\ At(Parent(k))' = heap[Parent(k)]
        BY <1>3, <2>3, <2>4, <3>5
      <4>2. At(k) = heap[k] /\ At(Parent(k)) = heap[Parent(k)]
        BY <1>2, <1>3, <2>4, <3>5
      <4> QED BY <1>2, <2>4, <3>5, <4>1, <4>2
    <3> QED BY <3>2, <3>3, <3>4, <3>5
  <2>5. ASSUME NEW k \in Live \ {0}, Parent(k) = c PROVE ~earlier(heap'[k], heap'[Parent(c)])
    <3>1. heap'[Parent(c)] = heap[c]
      BY <2>1, <2>2
    <3>2. c # i /\ k # i /\ k # c
      <4>1. Parent(k) # k /\ c # i
        BY <1>3, <2>1, <2>5
      <4>2. Parent(c) < c /\ c < k /\ i = Parent(c)
        BY <1>3, <2>1, <2>5
      <4>3. c \in Nat /\ k \in Nat /\ i \in Nat
        BY <1>1, <2>1, <2>5
      <4> QED BY <2>5, <4>1, <4>2, <4>3
    <3>3. ~earlier(At(k), At(c)) /\ At(k) = heap[k] /\ At(c) = heap[c] /\ heap'[k] = heap[k]
      BY <1>2, <2>1, <2>2, <2>5, <3>2
    <3> QED BY <3>1, <3>3
  <2> QED BY <1>1, <2>2, <2>4, <2>5 DEF HeapOrdered
<1>5. CASE ~Sinks(i)
  <2>1. FillHole
    BY <1>1, <1>5 DEF sift_down
  <2>2. Live' = Live /\ pc' = "idle" /\ \A k \in Live : At(k)' = At(k)
    BY <1>1, <2>1, FillHoleKeeps
  <2>3. ASSUME NEW k \in Live \ {0} PROVE ~earlier(At(k), At(Parent(k)))
    <3>1. CASE Parent(k) = i
      <4>1. k # i /\ At(k) = heap[k] /\ At(Parent(k)) = held
        BY <1>1, <1>2, <1>3, <2>3, <3>1
      <4>2. Left(i) < size
        <5>1. k = Left(i) \/ k = Right(i)
          BY <1>1, <2>3, <3>1, ParentFacts
        <5>2. k < size /\ k \in Nat /\ size \in Nat /\ i \in Nat
          BY <1>1, <2>3 DEF Live, TypeOK
        <5>3. Left(i) \in Nat /\ Right(i) \in Nat /\ Left(i) < Right(i)
          BY <5>2, ChildFacts
        <5> QED BY <5>1, <5>2, <5>3
      <4>3. /\ Child(i) \in Live \ {i} /\ ~earlier(heap[k], heap[Child(i)])
            /\ ~earlier(heap[Child(i)], held)
        BY <1>1, <1>5, <2>3, <3>1, <4>2, ChildOfHole DEF Sinks
      <4>4. heap[Child(i)] \in Event /\ heap[k] \in Event /\ held \in Event
        BY <1>1, <1>2, <2>3, <4>1, <4>3
      <4> QED BY <4>1, <4>3, <4>4, EarlierOrder
    <3> QED BY <1>2, <2>3, <3>1
  <2> QED BY <1>3, <2>2, <2>3 DEF HeapOrdered
<1> QED BY <1>4, <1>5

(* push leaves the heap alone but for the hole at its end. *)
LEMMA PushExtends ==
  ASSUME TypeOK, NEW t \in Time, push(t)
  PROVE  /\ Live' = 0 .. size /\ pc' = "up" /\ i' = size /\ size \in Nat
         /\ \A k \in Live : At(k)' = At(k) /\ At(k) = heap[k] /\ k # size
         /\ \A k \in 0 .. size : k = size => At(k)' = [time |-> t, seq |-> next_seq]
         /\ \A k \in 0 .. size : k = size \/ k \in Live
<1> DEFINE e == [time |-> t, seq |-> next_seq]
<1>1. /\ heap' = [k \in 0 .. size |-> IF k = size THEN e ELSE heap[k]]
      /\ size' = size + 1 /\ pc' = "up" /\ i' = size /\ held' = e
      /\ pc = "idle" /\ size \in Nat
  BY DEF push, TypeOK
<1>2. Live' = 0 .. size /\ Hole' = {size} /\ Hole = {}
  BY <1>1 DEF Live, Hole
<1>3. \A k \in Live : k \in 0 .. size /\ k # size
  BY <1>1 DEF Live
<1>4. \A k \in Live : At(k)' = At(k) /\ At(k) = heap[k]
  BY <1>1, <1>2, <1>3 DEF At
<1>5. \A k \in 0 .. size : k = size => At(k)' = e
  BY <1>1, <1>2 DEF At
<1>6. \A k \in 0 .. size : k = size \/ k \in Live
  BY <1>1 DEF Live
<1> QED BY <1>1, <1>2, <1>3, <1>4, <1>5, <1>6

(* pop takes the root away and puts the last event in its place. *)
LEMMA PopMoves ==
  ASSUME TypeOK, pop
  PROVE  /\ Live' = 0 .. size - 2 /\ pc = "idle" /\ size \in Nat /\ size > 0
         /\ size > 1 => pc' = "down" /\ i' = 0
         /\ \A k \in Live : At(k) = heap[k] /\ heap[k] \in Event
         /\ \A k \in Live' : k \in Live /\ size > 1
         /\ \A k \in Live' : At(k)' = heap[IF k = 0 THEN size - 1 ELSE k]
<1>1. /\ pc = "idle" /\ size > 0 /\ size' = size - 1
      /\ heap' = [k \in 0 .. size - 2 |-> IF k = 0 THEN heap[size - 1] ELSE heap[k]]
      /\ size > 1 => pc' = "down" /\ i' = 0 /\ held' = heap[size - 1]
      /\ size \in Nat /\ heap \in [Live -> Event]
  BY DEF pop, Remains, TypeOK
<1>2. Live' = 0 .. size - 2
  BY <1>1 DEF Live
<1>3. \A k \in Live' : k \in Live /\ size > 1 /\ k \in 0 .. size - 2
  BY <1>1, <1>2 DEF Live
<1>4. \A k \in Live : At(k) = heap[k] /\ heap[k] \in Event
  BY <1>1 DEF At, Hole
<1>5. \A k \in Live' : At(k)' = heap[IF k = 0 THEN size - 1 ELSE k]
  <2> SUFFICES ASSUME NEW k \in Live' PROVE At(k)' = heap[IF k = 0 THEN size - 1 ELSE k]
    OBVIOUS
  <2>1. Hole' = {0}
    BY <1>1, <1>3 DEF Hole
  <2> QED BY <1>1, <1>3, <2>1 DEF At
<1> QED BY <1>1, <1>2, <1>3, <1>4, <1>5

LEMMA StepOrders == TypeOK /\ HeapOrdered /\ [Next]_vars => HeapOrdered'
<1> SUFFICES ASSUME TypeOK, HeapOrdered, [Next]_vars PROVE HeapOrdered'
  OBVIOUS
<1>0. \A k \in Live \ {0} : Parent(k) \in Live /\ k # 0
  <2>1. \A k \in Live \ {0} : Parent(k) \in Nat /\ Parent(k) < k /\ k \in Nat
    BY ParentFacts DEF Live, TypeOK
  <2> QED BY <2>1 DEF Live, TypeOK
<1>1. ASSUME NEW t \in Time, push(t) PROVE HeapOrdered'
  <2>1. /\ Live' = 0 .. size /\ pc' = "up" /\ i' = size /\ size \in Nat /\ pc = "idle"
        /\ \A k \in Live : At(k)' = At(k) /\ k # size
        /\ \A k \in 0 .. size : k = size \/ k \in Live
    BY <1>1, PushExtends DEF push
  <2>2. \A k \in Live' \ {0} : k # size => ~earlier(At(k)', At(Parent(k))')
    BY <1>0, <2>1 DEF HeapOrdered
  <2>3. \A k \in Live' \ {0} : Parent(k) # size
    <3>1. \A k \in Live' \ {0} : k \in Nat \ {0} /\ k <= size
      BY <2>1
    <3> QED BY <2>1, <3>1, ParentFacts
  <2> QED BY <2>1, <2>2, <2>3 DEF HeapOrdered
<1>2. ASSUME pop PROVE HeapOrdered'
  <2>1. /\ Live' = 0 .. size - 2 /\ pc = "idle" /\ size \in Nat
        /\ \A k \in Live : At(k) = heap[k]
        /\ \A k \in Live' : k \in Live /\ size > 1 /\ pc' = "down" /\ i' = 0
        /\ \A k \in Live' : At(k)' = heap[IF k = 0 THEN size - 1 ELSE k]
    BY <1>2, PopMoves
  <2>2. ASSUME NEW k \in Live' \ {0}, Parent(k) # 0 PROVE ~earlier(At(k)', At(Parent(k))')
    <3>1. k \in Nat \ {0} /\ k <= size - 2 /\ k \in Live \ {0}
      BY <2>1, <2>2
    <3>2. Parent(k) \in Live'
      <4>1. Parent(k) \in Nat /\ Parent(k) < k
        BY <3>1, ParentFacts
      <4> QED BY <2>1, <3>1, <4>1
    <3>3. At(k)' = heap[k] /\ At(Parent(k))' = heap[Parent(k)]
      BY <2>1, <2>2, <3>2
    <3>4. At(k) = heap[k] /\ At(Parent(k)) = heap[Parent(k)]
      BY <1>0, <2>1, <3>1
    <3> QED BY <2>1, <3>1, <3>3, <3>4 DEF HeapOrdered
  <2>3. \A k \in Live' : pc' = "down" /\ i' = 0
    BY <2>1
  <2> QED BY <2>2, <2>3 DEF HeapOrdered
<1>3. ASSUME clear PROVE HeapOrdered'
  BY <1>3 DEF clear, HeapOrdered, Live
<1>4. ASSUME UNCHANGED vars PROVE HeapOrdered'
  BY <1>4 DEF vars, HeapOrdered, Live, At, Hole
<1> QED BY <1>1, <1>2, <1>3, <1>4, SiftUpOrders, SiftDownOrders DEF Next

-----------------------------------------------------------------------------
(* Every step keeps the events apart and not before the clock. *)

(* A turn of a sift permutes the places of At. *)
LEMMA SiftPermutes ==
  ASSUME TypeOK, sift_up \/ sift_down
  PROVE  /\ Live' = Live /\ UNCHANGED <<next_seq, now, popped>>
         /\ \E a, b \in Live : \A k \in Live : At(k)' = At(Swap(a, b, k))
<1>1. UNCHANGED <<next_seq, now, popped, size>> /\ pc # "idle" /\ i \in Live
  BY DEF sift_up, sift_down, TypeOK, Hole
<1>2. \/ FillHole
      \/ \E c \in Live : c # i /\ MoveHole(c)
  <2>1. CASE sift_up
    BY <2>1, ParentOfHole DEF sift_up
  <2>2. CASE sift_down
    BY <2>2, ChildOfHole DEF sift_down, Sinks
  <2> QED BY <2>1, <2>2
<1>3. CASE FillHole
  <2>1. Live' = Live /\ \A k \in Live : At(k)' = At(k)
    BY <1>1, <1>3, FillHoleKeeps
  <2>2. \A k \in Live : Swap(i, i, k) = k
    BY DEF Swap
  <2> QED BY <1>1, <2>1, <2>2
<1>4. ASSUME NEW c \in Live, c # i, MoveHole(c)
      PROVE  Live' = Live /\ \A k \in Live : At(k)' = At(Swap(i, c, k))
  BY <1>1, <1>4, MoveHoleSwaps
<1> QED BY <1>1, <1>2, <1>3, <1>4

LEMMA StepLoses == IInv /\ [Next]_vars => NothingLost'
<1> SUFFICES ASSUME IInv, [Next]_vars PROVE NothingLost'
  OBVIOUS
<1>0. /\ \A j, k \in Live : At(j).seq = At(k).seq => j = k
      /\ \A k \in Live : At(k).seq < next_seq /\ At(k).time >= now
      /\ \A k \in Live : At(k) \in Event
      /\ next_seq \in Nat /\ now \in Nat
  BY AtType DEF IInv, NothingLost, TypeOK
<1>1. ASSUME NEW t \in Time, push(t) PROVE NothingLost'
  <2>1. /\ Live' = 0 .. size
        /\ \A k \in Live : At(k)' = At(k) /\ k # size
        /\ \A k \in 0 .. size : k = size => At(k)' = [time |-> t, seq |-> next_seq]
        /\ \A k \in 0 .. size : k = size \/ k \in Live
        /\ next_seq' = next_seq + 1 /\ now' = now /\ t >= now /\ t \in Nat
    BY <1>1, PushExtends DEF IInv, push
  <2>2. \A k \in Live' : k = size => At(k)'.seq = next_seq /\ At(k)'.time = t
    BY <2>1
  <2>3. \A k \in Live' : k # size => k \in Live /\ At(k)'.seq = At(k).seq /\ At(k)'.time = At(k).time
    BY <2>1
  <2>4. \A k \in Live' : At(k)'.seq < next_seq' /\ At(k)'.time >= now'
    <3> SUFFICES ASSUME NEW k \in Live' PROVE At(k)'.seq < next_seq' /\ At(k)'.time >= now'
      OBVIOUS
    <3>1. CASE k = size
      BY <1>0, <2>1, <2>2, <3>1
    <3>2. CASE k # size
      <4>1. At(k).seq \in Nat /\ At(k).seq < next_seq
        BY <1>0, <2>3, <3>2 DEF Event
      <4> QED BY <1>0, <2>1, <2>3, <3>2, <4>1
    <3> QED BY <3>1, <3>2
  <2>5. \A j, k \in Live' : At(j)'.seq = At(k)'.seq => j = k
    <3>1. \A k \in Live : At(k).seq # next_seq
      <4>1. \A k \in Live : At(k).seq \in Nat /\ At(k).seq < next_seq
        BY <1>0 DEF Event
      <4> QED BY <1>0, <4>1
    <3> QED BY <1>0, <2>2, <2>3, <3>1
  <2> QED BY <2>4, <2>5 DEF NothingLost
<1>2. ASSUME pop PROVE NothingLost'
  <2>1. /\ Live' = 0 .. size - 2 /\ size \in Nat /\ pc = "idle" /\ size > 0
        /\ \A k \in Live : At(k) = heap[k] /\ heap[k] \in Event
        /\ \A k \in Live' : k \in Live
        /\ \A k \in Live' : At(k)' = heap[IF k = 0 THEN size - 1 ELSE k]
        /\ next_seq' = next_seq /\ now' = heap[0].time
    BY <1>2, PopMoves DEF IInv, pop
  <2> DEFINE src(k) == IF k = 0 THEN size - 1 ELSE k
  <2>2. \A k \in Live' : src(k) \in Live /\ At(k)' = At(src(k))
    BY <2>1 DEF Live
  <2>3. \A j, k \in Live' : src(j) = src(k) => j = k
    BY <2>1
  <2>4. \A k \in Live : heap[0].time <= At(k).time
    <3>1. 0 \in Live
      BY <2>1 DEF Live
    <3> QED BY <2>1, <3>1, RootFirst, EarlierOrder DEF IInv
  <2>5. \A k \in Live' : At(k)'.seq < next_seq' /\ At(k)'.time >= now'
    BY <1>0, <2>1, <2>2, <2>4
  <2>6. \A j, k \in Live' : At(j)'.seq = At(k)'.seq => j = k
    BY <1>0, <2>2, <2>3
  <2> QED BY <2>5, <2>6 DEF NothingLost
<1>3. ASSUME sift_up \/ sift_down PROVE NothingLost'
  <2>1. PICK a \in Live, b \in Live : \A k \in Live : At(k)' = At(Swap(a, b, k))
    BY <1>3, SiftPermutes DEF IInv
  <2>2. Live' = Live /\ next_seq' = next_seq /\ now' = now
    BY <1>3, SiftPermutes DEF IInv
  <2>3. \A k \in Live : Swap(a, b, k) \in Live
    BY DEF Swap
  <2>4. \A j, k \in Live : Swap(a, b, j) = Swap(a, b, k) => j = k
    BY DEF Swap
  <2>5. \A k \in Live' : At(k)'.seq < next_seq' /\ At(k)'.time >= now'
    BY <1>0, <2>1, <2>2, <2>3
  <2>6. \A j, k \in Live' : At(j)'.seq = At(k)'.seq => j = k
    BY <1>0, <2>1, <2>2, <2>3, <2>4
  <2> QED BY <2>5, <2>6 DEF NothingLost
<1>4. ASSUME clear PROVE NothingLost'
  BY <1>4 DEF clear, NothingLost, Live
<1>5. ASSUME UNCHANGED vars PROVE NothingLost'
  BY <1>5 DEF IInv, vars, NothingLost, Live, At, Hole
<1> QED BY <1>1, <1>2, <1>3, <1>4, <1>5 DEF Next

-----------------------------------------------------------------------------
LEMMA InitInv == Init => IInv
<1> SUFFICES ASSUME Init PROVE IInv
  OBVIOUS
<1>1. Live = {} /\ Hole = {}
  BY DEF Init, Live, Hole
<1>2. TypeOK
  BY <1>1 DEF Init, TypeOK, None, Event
<1> QED BY <1>1, <1>2 DEF IInv, HeapOrdered, NothingLost

THEOREM Invariant == Spec => []IInv
<1>1. IInv /\ [Next]_vars => IInv'
  BY StepTypes, StepOrders, StepLoses DEF IInv
<1> QED BY <1>1, InitInv, PTL DEF Spec

(* The loops of sift_up and sift_down keep every index in the array. *)
THEOREM TypeCorrect == Spec => []TypeOK
<1>1. IInv => TypeOK
  BY DEF IInv
<1> QED BY <1>1, Invariant, PTL

(* The array is a heap but for the hole of the sift under way (sift_up,    *)
(* sift_down), whatever is pushed and popped.                              *)
THEOREM AlwaysOrdered == Spec => []HeapOrdered
<1>1. IInv => HeapOrdered
  BY DEF IInv
<1> QED BY <1>1, Invariant, PTL

(* No event is lost or doubled, and none is pending from before the clock, *)
(* if none is pushed for an earlier time: what the assertion of            *)
(* Simulation::run that virtual time never goes back asks of the queue.    *)
THEOREM NeverLost == Spec => []NothingLost
<1>1. IInv => NothingLost
  BY DEF IInv
<1> QED BY <1>1, Invariant, PTL

-----------------------------------------------------------------------------
(* The refinement.  Pending abbreviates the mapped set of events.          *)
Pending == {At(k) : k \in Live}

LEMMA InitRefines == Init => Schedule!Init
  BY DEF Init, Schedule!Init, Live

LEMMA PopDispatches == IInv /\ pop => Schedule!Dispatch
<1> SUFFICES ASSUME IInv, pop PROVE Schedule!Dispatch
  OBVIOUS
<1>1. /\ Live' = 0 .. size - 2 /\ size \in Nat /\ pc = "idle" /\ size > 0
      /\ \A k \in Live : At(k) = heap[k] /\ heap[k] \in Event
      /\ \A k \in Live' : k \in Live
      /\ \A k \in Live' : At(k)' = heap[IF k = 0 THEN size - 1 ELSE k]
      /\ popped' = {heap[0]} /\ now' = heap[0].time /\ next_seq' = next_seq
  BY PopMoves DEF IInv, pop
<1>0. Live = 0 .. size - 1
  BY DEF Live
<1>2. 0 \in Live
  BY <1>1, <1>0
<1>3. Pending' = Pending \ {heap[0]}
  <2>1. \A k \in Live : heap[k] = heap[0] => k = 0
    BY <1>1, <1>2 DEF IInv, NothingLost
  <2>2. ASSUME NEW k \in Live' PROVE At(k)' \in Pending \ {heap[0]}
    <3> DEFINE j == IF k = 0 THEN size - 1 ELSE k
    <3>1. j \in Live /\ j # 0
      <4>1. k \in 0 .. size - 2 /\ size - 1 \in 0 .. size - 1
        BY <1>1, <2>2
      <4> QED BY <1>0, <1>1, <4>1
    <3>2. At(k)' = At(j) /\ At(j) = heap[j]
      BY <1>1, <2>2, <3>1
    <3> QED BY <2>1, <3>1, <3>2 DEF Pending
  <2>3. ASSUME NEW j \in Live, heap[j] # heap[0] PROVE \E k \in Live' : At(k)' = At(j)
    <3>1. j # 0 /\ At(j) = heap[j]
      BY <1>1, <2>3
    <3>2. CASE j = size - 1
      <4>1. 0 \in Live'
        BY <1>0, <1>1, <2>3, <3>1, <3>2
      <4> QED BY <1>1, <3>1, <3>2, <4>1
    <3>3. CASE j # size - 1
      <4>1. j \in Live'
        BY <1>0, <1>1, <2>3, <3>3
      <4> QED BY <1>1, <3>1, <4>1
    <3> QED BY <3>2, <3>3
  <2>4. \A x \in Pending \ {heap[0]} : \E k \in Live' : At(k)' = x
    BY <1>1, <2>3 DEF Pending
  <2>5. Pending' = {At(k)' : k \in Live'}
    BY DEF Pending
  <2> QED BY <2>2, <2>4, <2>5
<1>4. \A f \in Pending \ {heap[0]} : Schedule!Before(heap[0], f)
  <2> SUFFICES ASSUME NEW k \in Live, At(k) # heap[0] PROVE Schedule!Before(heap[0], At(k))
    BY DEF Pending
  <2>1. /\ heap[k] \in Event /\ heap[0] \in Event /\ At(k) = heap[k]
        /\ ~earlier(heap[k], heap[0]) /\ heap[k].seq # heap[0].seq
    BY <1>1, <1>2, RootFirst DEF IInv, NothingLost
  <2>2. earlier(heap[0], heap[k])
    BY <2>1, EarlierOrder
  <2> QED BY <2>1, <2>2 DEF earlier, Schedule!Before
<1>5. heap[0] \in Pending
  BY <1>1, <1>2 DEF Pending
<1> QED BY <1>1, <1>3, <1>4, <1>5 DEF Schedule!Dispatch, Pending

LEMMA StepRefines == IInv /\ [Next]_vars => [Schedule!Next]_(Schedule!vars)
<1> SUFFICES ASSUME IInv, [Next]_vars PROVE [Schedule!Next]_(Schedule!vars)
  OBVIOUS
<1>1. ASSUME NEW t \in Time, push(t) PROVE t >= now /\ Schedule!Schedule(t)
  <2> DEFINE e == [time |-> t, seq |-> next_seq]
  <2>1. /\ Live' = 0 .. size /\ size \in Nat
        /\ \A k \in Live : At(k)' = At(k) /\ k # size
        /\ \A k \in 0 .. size : k = size => At(k)' = e
        /\ \A k \in 0 .. size : k = size \/ k \in Live
        /\ next_seq' = next_seq + 1 /\ UNCHANGED <<popped, now>> /\ t >= now
    BY <1>1, PushExtends DEF IInv, push
  <2>2. Live \subseteq Live' /\ size \in Live'
    <3>1. Live = 0 .. size - 1
      BY DEF Live
    <3> QED BY <2>1, <3>1
  <2>3. Pending' = Pending \cup {e}
    <3>1. \A k \in Live' : At(k)' \in Pending \cup {e}
      BY <2>1 DEF Pending
    <3>2. \A x \in Pending \cup {e} : \E k \in Live' : At(k)' = x
      BY <2>1, <2>2 DEF Pending
    <3>3. Pending' = {At(k)' : k \in Live'}
      BY DEF Pending
    <3> QED BY <3>1, <3>2, <3>3
  <2> QED BY <2>1, <2>3 DEF Schedule!Schedule, Pending
<1>2. ASSUME sift_up \/ sift_down PROVE UNCHANGED Schedule!vars
  <2>1. PICK a \in Live, b \in Live : \A k \in Live : At(k)' = At(Swap(a, b, k))
    BY <1>2, SiftPermutes DEF IInv
  <2>2. Live' = Live /\ UNCHANGED <<next_seq, now, popped>>
    BY <1>2, SiftPermutes DEF IInv
  <2>3. \A k \in Live : Swap(a, b, k) \in Live /\ Swap(a, b, Swap(a, b, k)) = k
    BY DEF Swap
  <2>4. \A k \in Live' : At(k)' \in Pending
    BY <2>1, <2>2, <2>3 DEF Pending
  <2>5. \A x \in Pending : \E k \in Live' : At(k)' = x
    <3> SUFFICES ASSUME NEW j \in Live PROVE \E k \in Live' : At(k)' = At(j)
      BY DEF Pending
    <3>1. PICK k \in Live : k = Swap(a, b, j)
      BY <2>3
    <3>2. At(k)' = At(Swap(a, b, k)) /\ Swap(a, b, k) = j
      BY <2>1, <2>3, <3>1
    <3> QED BY <2>2, <3>2
  <2>6. Pending' = {At(k)' : k \in Live'}
    BY DEF Pending
  <2>7. Pending' = Pending
    BY <2>4, <2>5, <2>6
  <2> QED BY <2>2, <2>7 DEF Schedule!vars, Pending
<1>3. ASSUME clear PROVE Schedule!Restart
  <2>1. Pending = {} /\ Pending' = {}
    BY <1>3 DEF clear, Pending, Live, IInv, TypeOK
  <2> QED BY <1>3, <2>1 DEF clear, Schedule!Restart, Pending
<1>4. ASSUME UNCHANGED vars PROVE UNCHANGED Schedule!vars
  <2>1. Pending' = Pending
    BY <1>4 DEF vars, Pending, Live, At, Hole
  <2> QED BY <1>4, <2>1 DEF vars, Schedule!vars, Pending
<1> QED BY <1>1, <1>2, <1>3, <1>4, PopDispatches DEF Next, Schedule!Next

(* Whatever is pushed, pop returns the earliest pending event, and the one *)
(* pushed first among those of equal time: the determinism that            *)
(* EventQueue::push claims for its seq.                                    *)
THEOREM ImplementsAgenda == Spec => IsAgenda
  BY InitRefines, StepRefines, Invariant, PTL DEF Spec, IsAgenda, Schedule!Spec
=============================================================================
