-------------------------- MODULE OutputPortProofs --------------------------
(***************************************************************************)
(* OutputPort for every queue capacity, zero included: its invariants, and *)
(* that it implements the drop-tail link.                                  *)
(*                                                                         *)
(* The argument is about the circular buffer: Contents, the queue as a     *)
(* sequence, gets the pushed packet appended and loses its head to a pop,  *)
(* wherever the head stands and whichever of the two wraps around.         *)
(***************************************************************************)
EXTENDS OutputPort, TLAPS

USE PortAssumption

Item == Packet \cup {Blank}

(* A ring whose head is inside the buffer. *)
RingOK(q) == q \in Ring /\ (q.head < capacity \/ q.head = 0)

IInv == TypeOK /\ OneServer

LEMMA ContentsType ==
  ASSUME NEW q, RingOK(q)
  PROVE  Contents(q) \in Seq(Item) /\ Len(Contents(q)) = q.count
<1>1. \A k \in 1 .. q.count : q.buf[Wrap(q.head + k - 1)] \in Item
  BY DEF RingOK, Ring, Wrap, Slots, Item
<1> QED BY <1>1 DEF Contents, RingOK, Ring

(* The buffer slot a push writes is none of the occupied ones. *)
LEMMA PushAppends ==
  ASSUME NEW q, RingOK(q), ~full(q), NEW p \in Packet
  PROVE  RingOK(Push(q, p)) /\ Contents(Push(q, p)) = Append(Contents(q), p)
<1> DEFINE r == Push(q, p)
<1>1. PICK b \in [Slots -> Item], h \in Nat, n \in 0 .. capacity :
         q = [buf |-> b, head |-> h, count |-> n]
  BY DEF RingOK, Ring, Item
<1>2. n < capacity /\ h < capacity
  BY <1>1 DEF RingOK, full
<1> n \in Nat
  OBVIOUS
<1>3. r = [buf |-> [b EXCEPT ![Wrap(h + n)] = p], head |-> h, count |-> n + 1]
  BY <1>1 DEF Push
<1>4. Wrap(h + n) \in Slots /\ \A k \in 1 .. n : Wrap(h + k - 1) \in Slots /\ Wrap(h + k - 1) # Wrap(h + n)
  BY <1>2 DEF Wrap, Slots
<1>5. RingOK(r)
  <2>1. [b EXCEPT ![Wrap(h + n)] = p] \in [Slots -> Item]
    BY <1>4 DEF Item
  <2> QED BY <2>1, <1>2, <1>3 DEF RingOK, Ring, Item
<1>6. Contents(q) \in Seq(Item) /\ Len(Contents(q)) = n
  BY ContentsType, <1>1
<1>7. Contents(r) \in Seq(Item) /\ Len(Contents(r)) = n + 1
  BY ContentsType, <1>5, <1>3
<1>8. \A k \in 1 .. n + 1 : Contents(r)[k] = Append(Contents(q), p)[k]
  <2> TAKE k \in 1 .. n + 1
  <2>1. Contents(r)[k] = [b EXCEPT ![Wrap(h + n)] = p][Wrap(h + k - 1)]
    BY <1>3 DEF Contents
  <2>2. CASE k = n + 1
    <3>1. Contents(r)[k] = p
      BY <2>1, <2>2, <1>4
    <3> QED BY <3>1, <2>2, <1>6
  <2>3. CASE k \in 1 .. n
    <3>1. Contents(r)[k] = b[Wrap(h + k - 1)]
      BY <2>1, <2>3, <1>4
    <3>2. Contents(q)[k] = b[Wrap(h + k - 1)]
      BY <2>3, <1>1 DEF Contents
    <3> QED BY <3>1, <3>2, <2>3, <1>6
  <2>4. k = n + 1 \/ k \in 1 .. n
    OBVIOUS
  <2> QED BY <2>2, <2>3, <2>4
<1>9. Append(Contents(q), p) \in Seq(Item) /\ Len(Append(Contents(q), p)) = n + 1
  BY <1>6 DEF Item
<1>10. Contents(r) = Append(Contents(q), p)
  BY <1>7, <1>8, <1>9
<1> QED BY <1>5, <1>10

LEMMA PopTakesHead ==
  ASSUME NEW q, RingOK(q), q.count > 0
  PROVE  /\ RingOK(Pop(q)) /\ Pop(q).count = q.count - 1
         /\ q.buf[q.head] = Head(Contents(q))
         /\ Contents(Pop(q)) = Tail(Contents(q))
<1> DEFINE r == Pop(q)
<1>1. PICK b \in [Slots -> Item], h \in Nat, n \in 0 .. capacity :
         q = [buf |-> b, head |-> h, count |-> n]
  BY DEF RingOK, Ring, Item
<1>2. n > 0 /\ h < capacity
  BY <1>1 DEF RingOK
<1>3. r = [buf |-> b, head |-> Wrap(h + 1), count |-> n - 1]
  BY <1>1 DEF Pop
<1>4. RingOK(r)
  BY <1>2, <1>3 DEF RingOK, Ring, Wrap, Item
<1>5. Contents(q) \in Seq(Item) /\ Len(Contents(q)) = n
  BY ContentsType, <1>1
<1>6. Contents(r) \in Seq(Item) /\ Len(Contents(r)) = n - 1
  BY ContentsType, <1>4, <1>3
<1>7. q.buf[q.head] = Head(Contents(q))
  <2>1. Contents(q)[1] = b[Wrap(h)] /\ Wrap(h) = h
    BY <1>1, <1>2 DEF Contents, Wrap
  <2> QED BY <2>1, <1>1, <1>2, <1>5
<1>8. \A k \in 1 .. n - 1 : Contents(r)[k] = Tail(Contents(q))[k]
  <2> TAKE k \in 1 .. n - 1
  <2>1. Contents(r)[k] = b[Wrap(Wrap(h + 1) + k - 1)]
    BY <1>3 DEF Contents
  <2>2. Wrap(Wrap(h + 1) + k - 1) = Wrap(h + (k + 1) - 1)
    BY <1>2 DEF Wrap
  <2>3. Contents(q)[k + 1] = b[Wrap(h + (k + 1) - 1)]
    BY <1>1 DEF Contents
  <2>4. Tail(Contents(q))[k] = Contents(q)[k + 1]
    BY <1>5
  <2> QED BY <2>1, <2>2, <2>3, <2>4
<1>9. Tail(Contents(q)) \in Seq(Item) /\ Len(Tail(Contents(q))) = n - 1
  BY <1>2, <1>5
<1>10. Contents(r) = Tail(Contents(q))
  BY <1>6, <1>8, <1>9
<1> QED BY <1>1, <1>3, <1>4, <1>7, <1>10

-----------------------------------------------------------------------------
LEMMA ClearedOK == RingOK(Cleared) /\ Cleared.count = 0
<1>1. [s \in Slots |-> Blank] \in [Slots -> Packet \cup {Blank}] /\ 0 \in 0 .. capacity
  OBVIOUS
<1> QED BY <1>1 DEF RingOK, Cleared, Ring

LEMMA InitInv == Init => IInv
<1> SUFFICES ASSUME Init PROVE IInv
  OBVIOUS
<1>1. OneServer
  BY ClearedOK DEF Init, OneServer
<1>2. busy \in BOOLEAN
  BY DEF Init
<1>4. wire \in Seq(Packet \cup {Blank})
  BY DEF Init
<1>3. RingOK(queue)
  BY ClearedOK DEF Init
<1> QED BY <1>1, <1>2, <1>3, <1>4 DEF Init, IInv, TypeOK, RingOK

LEMMA StepInv == IInv /\ [Next]_vars => IInv'
<1> SUFFICES ASSUME IInv, [Next]_vars PROVE IInv'
  OBVIOUS
<1> USE DEF IInv
<1>1. ASSUME NEW p \in Packet, drop(p) PROVE IInv'
  BY <1>1 DEF drop, TypeOK, OneServer
<1>2. ASSUME NEW p \in Packet, accept(p) PROVE IInv'
  <2>1. RingOK(Push(queue, p)) /\ Push(queue, p).count > 0
    <3>1. RingOK(queue) /\ ~full(queue)
      BY <1>2 DEF accept, TypeOK, RingOK
    <3>2. Push(queue, p).count = queue.count + 1 /\ queue.count \in Nat
      BY <3>1 DEF Push, RingOK, Ring
    <3> QED BY <3>1, <3>2, PushAppends
  <2>2. CASE busy
    BY <1>2, <2>1, <2>2 DEF accept, Starts, TypeOK, OneServer, RingOK
  <2>3. CASE ~busy
    <3>1. /\ RingOK(Pop(Push(queue, p))) /\ Push(queue, p).buf[Push(queue, p).head] \in Item
          /\ Pop(Push(queue, p)).count = queue.count
      <4>1. Push(queue, p).buf[Push(queue, p).head] \in Item
        BY <2>1 DEF RingOK, Ring, Slots, Item
      <4>2. Push(queue, p).count = queue.count + 1 /\ queue.count \in Nat
        BY DEF Push, TypeOK, Ring
      <4>3. Pop(Push(queue, p)).count = queue.count
        BY <4>2 DEF Pop
      <4> QED BY <4>1, <4>3, <2>1, PopTakesHead
    <3>2. start_tx(Push(queue, p), completions) /\ UNCHANGED <<packets_sent, packets_dropped, wire>>
      BY <1>2, <2>3 DEF accept, Starts
    <3> QED BY <2>3, <3>1, <3>2 DEF start_tx, TypeOK, OneServer, RingOK, Item
  <2> QED BY <2>2, <2>3 DEF TypeOK
<1>3. ASSUME on_tx_complete PROVE IInv'
  <2>1. wire' \in Seq(Item)
    BY <1>3 DEF on_tx_complete, TypeOK, Item
  <2>2. CASE queue.count > 0
    <3>1. RingOK(Pop(queue)) /\ queue.buf[queue.head] \in Item
      BY <2>2, PopTakesHead DEF TypeOK, RingOK, Ring, Slots, Item
    <3>2. start_tx(queue, completions - 1) /\ completions > 0
          /\ packets_sent' = packets_sent + 1 /\ UNCHANGED packets_dropped
      BY <1>3, <2>2 DEF on_tx_complete
    <3>3. completions' = 1 /\ busy' = TRUE
      BY <3>2 DEF start_tx, OneServer, TypeOK
    <3>4. RingOK(queue') /\ in_flight' \in Item /\ completions' \in Nat
      BY <3>1, <3>2, <3>3 DEF start_tx
    <3>5. OneServer'
      BY <3>3 DEF OneServer
    <3>6. busy' \in BOOLEAN
      BY <3>3
    <3>7. packets_sent' \in Nat /\ packets_dropped' \in Nat
      BY <3>2 DEF TypeOK
    <3> QED BY <2>1, <3>4, <3>5, <3>6, <3>7 DEF TypeOK, RingOK, Item
  <2>3. CASE ~(queue.count > 0)
    <3>1. /\ busy' = FALSE /\ completions' = completions - 1 /\ completions > 0
          /\ UNCHANGED <<queue, in_flight, packets_dropped>> /\ packets_sent' = packets_sent + 1
      BY <1>3, <2>3 DEF on_tx_complete
    <3>2. completions' = 0 /\ ~(queue.count > 0)
      BY <2>3, <3>1 DEF OneServer, TypeOK
    <3>3. OneServer'
      BY <3>1, <3>2 DEF OneServer
    <3>4. busy' \in BOOLEAN
      BY <3>1
    <3>5. completions' \in Nat /\ packets_sent' \in Nat
      <4>1. packets_sent \in Nat /\ packets_sent' = packets_sent + 1 /\ completions' = 0
        BY <3>1, <3>2 DEF TypeOK
      <4> QED BY <4>1
    <3> QED BY <2>1, <3>1, <3>3, <3>4, <3>5 DEF TypeOK, Item
  <2> QED BY <2>2, <2>3
<1>4. ASSUME arrive PROVE IInv'
  <2>1. wire' \in Seq(Item)
    BY <1>4 DEF arrive, TypeOK, Item
  <2>2. UNCHANGED <<queue, busy, in_flight, packets_sent, packets_dropped, completions>>
    BY <1>4 DEF arrive
  <2>3. OneServer'
    BY <2>2 DEF OneServer
  <2> QED BY <2>1, <2>2, <2>3 DEF TypeOK, Item
<1>5. ASSUME reset_state PROVE IInv'
  <2>1. /\ completions' = 0 /\ wire' = wire /\ queue' = Cleared /\ busy' = FALSE
        /\ in_flight' = Blank /\ packets_sent' = 0 /\ packets_dropped' = 0
    BY <1>5 DEF reset_state
  <2>2. OneServer'
    BY <2>1, ClearedOK DEF OneServer
  <2>3. RingOK(queue')
    BY <2>1, ClearedOK
  <2>4. busy' \in BOOLEAN /\ wire' \in Seq(Packet \cup {Blank}) /\ completions' \in Nat
    BY <2>1 DEF TypeOK
  <2> QED BY <2>1, <2>2, <2>3, <2>4 DEF TypeOK, RingOK
<1>6. ASSUME UNCHANGED vars PROVE IInv'
  BY <1>6 DEF vars, TypeOK, OneServer
<1> QED BY <1>1, <1>2, <1>3, <1>4, <1>5, <1>6 DEF Next, enqueue

THEOREM Invariant == Spec => []IInv
  BY InitInv, StepInv, PTL DEF Spec

(* OutputPort's ring keeps its head and count inside the buffer, whatever  *)
(* the capacity (PacketRing::try_push and pop).                            *)
THEOREM TypeCorrect == Spec => []TypeOK
<1>1. IInv => TypeOK
  BY DEF IInv
<1> QED BY <1>1, Invariant, PTL

(* A busy port has exactly one TxComplete pending, and no packet waits in  *)
(* the queue of an idle one (Simulation::enqueue and on_tx_complete).      *)
THEOREM OneServerAlways == Spec => []OneServer
<1>1. IInv => OneServer
  BY DEF IInv
<1> QED BY <1>1, Invariant, PTL

-----------------------------------------------------------------------------
(* The refinement.  Serving abbreviates the mapped server.                 *)
Serving == IF busy THEN <<in_flight>> ELSE <<>>

LEMMA InitRefines == Init => Link!Init
<1> SUFFICES ASSUME Init PROVE Link!Init
  OBVIOUS
<1>1. Contents(queue) = <<>>
  <2>1. Contents(queue) \in Seq(Item) /\ Len(Contents(queue)) = 0
    BY ContentsType, ClearedOK DEF Init
  <2> QED BY <2>1
<1>2. Serving = <<>>
  BY DEF Init, Serving
<1> QED BY <1>1, <1>2 DEF Init, Link!Init, Serving

LEMMA StepRefines == IInv /\ [Next]_vars => [Link!Next]_(Link!vars)
<1> SUFFICES ASSUME IInv, [Next]_vars PROVE [Link!Next]_(Link!vars)
  OBVIOUS
<1> DEFINE W == Contents(queue)
<1>0. RingOK(queue) /\ W \in Seq(Item) /\ Len(W) = queue.count /\ queue.count \in Nat
  BY ContentsType DEF IInv, TypeOK, RingOK, Ring
<1>1. ASSUME NEW p \in Packet, drop(p) PROVE Link!Drop(p)
  <2>1. W' = W /\ Serving' = Serving
    BY <1>1 DEF drop, Serving, Contents
  <2> QED BY <1>0, <1>1, <2>1 DEF drop, full, Link!Drop, Serving
<1>2. ASSUME NEW p \in Packet, accept(p), busy PROVE Link!Wait(p)
  <2>1. queue' = Push(queue, p) /\ ~full(queue)
        /\ UNCHANGED <<busy, in_flight, packets_sent, packets_dropped, wire>>
    BY <1>2 DEF accept, Starts
  <2>2. W' = Append(W, p)
    BY <1>0, <2>1, PushAppends
  <2>3. Serving' = Serving /\ Serving # <<>>
    BY <1>2, <2>1 DEF Serving
  <2>4. Len(W) < capacity
    BY <1>0, <2>1 DEF full, RingOK, Ring
  <2> QED BY <2>1, <2>2, <2>3, <2>4 DEF Link!Wait, Serving
<1>3. ASSUME NEW p \in Packet, accept(p), ~busy PROVE Link!Serve(p)
  <2> DEFINE q == Push(queue, p)
  <2>1. start_tx(q, completions) /\ ~full(queue)
        /\ UNCHANGED <<packets_sent, packets_dropped, wire>>
    BY <1>3 DEF accept, Starts
  <2>2. W = <<>> /\ capacity > 0
    BY <1>0, <1>3, <2>1 DEF IInv, OneServer, full, RingOK, Ring
  <2>3. RingOK(q) /\ Contents(q) = Append(W, p) /\ q.count > 0
    <3>1. q.count = queue.count + 1
      BY DEF Push
    <3> QED BY <1>0, <2>1, <3>1, PushAppends
  <2>4. in_flight' = p /\ W' = <<>>
    <3>1. /\ in_flight' = Head(Contents(q))
          /\ W' = Tail(Contents(q))
      BY <2>1, <2>3, PopTakesHead DEF start_tx
    <3> QED BY <2>2, <2>3, <3>1
  <2>5. Serving = <<>> /\ Serving' = <<p>>
    BY <1>3, <2>1, <2>4 DEF Serving, start_tx
  <2> QED BY <2>1, <2>2, <2>4, <2>5 DEF Link!Serve, Serving
<1>4. ASSUME on_tx_complete PROVE Link!Finish
  <2>1. busy
    BY <1>4 DEF on_tx_complete, IInv, OneServer
  <2>2. Serving # <<>> /\ Head(Serving) = in_flight
    BY <2>1 DEF Serving
  <2>3. CASE queue.count > 0
    <3>1. start_tx(queue, completions - 1)
      BY <1>4, <2>3 DEF on_tx_complete
    <3>2. W # <<>> /\ in_flight' = Head(W) /\ W' = Tail(W)
      BY <1>0, <2>3, <3>1, PopTakesHead DEF start_tx
    <3>3. Serving' = <<Head(W)>>
      BY <3>1, <3>2 DEF start_tx, Serving
    <3> QED BY <1>4, <2>2, <3>2, <3>3 DEF on_tx_complete, Link!Finish, Serving
  <2>4. CASE ~(queue.count > 0)
    <3>1. busy' = FALSE /\ queue' = queue
      BY <1>4, <2>4 DEF on_tx_complete
    <3>2. W = <<>> /\ W' = <<>>
      <4>1. W = <<>>
        BY <1>0, <2>4
      <4>2. W' = W
        BY <3>1 DEF Contents
      <4> QED BY <4>1, <4>2
    <3>3. Serving' = <<>>
      BY <3>1 DEF Serving
    <3> QED BY <1>4, <2>2, <3>2, <3>3 DEF on_tx_complete, Link!Finish, Serving
  <2> QED BY <2>3, <2>4
<1>5. ASSUME arrive PROVE Link!Arrive
  <2>1. W' = W /\ Serving' = Serving
    BY <1>5 DEF arrive, Serving, Contents
  <2> QED BY <1>5, <2>1 DEF arrive, Link!Arrive, Serving
<1>6. ASSUME reset_state PROVE Link!Restart
  <2>1. ~busy
    BY <1>6 DEF reset_state, IInv, OneServer, TypeOK
  <2>2. W = <<>>
    BY <1>0, <2>1 DEF IInv, OneServer
  <2>3. W' = <<>>
    <3>1. Contents(Cleared) \in Seq(Item) /\ Len(Contents(Cleared)) = 0
      BY ContentsType, ClearedOK
    <3>2. W' = Contents(Cleared)
      BY <1>6 DEF reset_state
    <3> QED BY <3>1, <3>2
  <2>4. Serving = <<>> /\ Serving' = <<>>
    BY <1>6, <2>1 DEF reset_state, Serving
  <2> QED BY <1>6, <2>2, <2>3, <2>4 DEF reset_state, Link!Restart, Serving
<1>7. ASSUME UNCHANGED vars PROVE UNCHANGED Link!vars
  <2>1. W' = W /\ Serving' = Serving
    BY <1>7 DEF vars, Serving, Contents
  <2> QED BY <1>7, <2>1 DEF vars, Link!vars, Serving
<1> QED BY <1>1, <1>2, <1>3, <1>4, <1>5, <1>6, <1>7 DEF Next, enqueue, Link!Next

(* For every capacity, the port is a first-in first-out link that drops    *)
(* only when its waiting room is full and never idles while one waits      *)
(* (PacketRing with Simulation::enqueue, start_tx and on_tx_complete).     *)
THEOREM ImplementsDropTailLink == Spec => IsDropTailLink
  BY InitRefines, StepRefines, Invariant, PTL DEF Spec, IsDropTailLink, Link!Spec
=============================================================================
