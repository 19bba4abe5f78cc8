--------------------------- MODULE TransportProofs ---------------------------
(***************************************************************************)
(* Theorems about Transport for every packet count, window, attempt limit  *)
(* and pacing.                                                             *)
(*                                                                         *)
(* Every handler that sends ends in try_send, called with the sender state *)
(* the handler leaves.  The inductive invariant is therefore stated over   *)
(* an arbitrary sender state (t, fl, A, at, tm), so that one lemma,        *)
(* TrySendKeeps, serves on_inject, on_ack and on_timeout.                  *)
(***************************************************************************)
EXTENDS Transport, TLAPS, FiniteSetTheorems, SequenceTheorems

USE TransportAssumption

(* The window accounting: in_flight counts the flags, and flags and ring   *)
(* entries are distinct packets already sent, at most Window in all.       *)
Accounted(t, fl) ==
  /\ t \in FlowTx
  /\ t.next_seq <= packets_total
  /\ fl \subseteq 0 .. t.next_seq - 1
  /\ t.in_flight = Cardinality(fl)
  /\ t.in_flight + Len(t.retx) <= Window
  /\ \A k \in 1 .. Len(t.retx) : t.retx[k] \in 0 .. t.next_seq - 1 /\ t.retx[k] \notin fl
  /\ \A j, k \in 1 .. Len(t.retx) : t.retx[j] = t.retx[k] => j = k

(* An acked packet was sent and is not in flight, and until the sender     *)
(* gives up no packet is forgotten.                                        *)
Tracked(t, fl, A) ==
  /\ A \subseteq 0 .. t.next_seq - 1
  /\ fl \cap A = {}
  /\ ~t.failed => \A i \in 0 .. t.next_seq - 1 :
                    \/ i \in A \/ i \in fl
                    \/ \E k \in 1 .. Len(t.retx) : t.retx[k] = i

(* At most one timer per packet, the latest attempt's while it is not      *)
(* acked, and running exactly while the packet is in flight.               *)
Timed(t, fl, A, at, tm) ==
  /\ at \in [Pkts -> Attempts]
  /\ tm \in [Pkts -> [Attempts -> Nat]]
  /\ \A i \in Pkts, a \in Attempts :
       tm[i][a] <= IF i \in A \/ a = at[i] THEN 1 ELSE 0
  /\ ~t.failed => \A i \in Pkts \ A : i \in fl <=> tm[i][at[i]] > 0

Sound(t, fl, A, at, tm) ==
  Accounted(t, fl) /\ Tracked(t, fl, A) /\ Timed(t, fl, A, at, tm)

(* Copies and receptions are of packets that were sent. *)
Caused ==
  /\ delivered \subseteq Sent
  /\ \A i \in Pkts : data[i] > 0 => i \in Sent

IInv == /\ TypeOK
        /\ Sound(tx, flying, acked, attempt, timers)
        /\ Caused
        /\ AckedDelivered

-----------------------------------------------------------------------------
LEMMA WindowType == Window \in Nat \ {0} /\ Window <= packets_total
  BY DEF Window

LEMMA PrefixFinite == \A n \in Nat : IsFiniteSet(0 .. n - 1)
  <1>1. \A n \in Nat : n - 1 \in Int
    OBVIOUS
  <1> QED BY <1>1, FS_Interval

LEMMA NatSum == \A a, b \in Nat : a + b \in Nat /\ (a + b) - 1 = a + b - 1
  OBVIOUS

LEMMA NewIndices ==
  \A a, b \in Nat : /\ 0 .. a - 1 \subseteq 0 .. a + b - 1
                    /\ \A x \in 0 .. a - 1 : x \notin a .. a + b - 1
  OBVIOUS

(* A sender whose send_scheduled flag is set or cleared. *)
LEMMA Rescheduled ==
  ASSUME NEW u \in FlowTx, NEW b \in BOOLEAN,
         NEW v, v = [u EXCEPT !.send_scheduled = b]
  PROVE  /\ v \in FlowTx /\ v.next_seq = u.next_seq /\ v.in_flight = u.in_flight
         /\ v.retx = u.retx /\ v.failed = u.failed
  BY DEF FlowTx

(* The entries left in a sequence of length l after its first p are gone. *)
LEMMA ShiftedIndex ==
  ASSUME NEW l \in Nat, NEW p \in 0 .. l, NEW k \in 1 .. l - p
  PROVE  k + p \in 1 .. l /\ k + p \notin 1 .. p
  OBVIOUS

(* What one round of try_send sends is next in line or was queued, is      *)
(* neither in flight nor acked, goes out once, and fits the window.        *)
BatchFits(t, fl, A, p, m) ==
  /\ Batch(t, A, p, m) \subseteq 0 .. t.next_seq + m - 1
  /\ \A i \in Batch(t, A, p, m) : i \notin fl /\ i \notin A
  /\ IsFiniteSet(Batch(t, A, p, m))
  /\ Cardinality(Batch(t, A, p, m)) = Sends(t, A, p, m)
  /\ Sends(t, A, p, m) \in Nat
  /\ t.in_flight + Sends(t, A, p, m) + (Len(t.retx) - p) <= Window

LEMMA BatchProperties ==
  ASSUME NEW t, NEW fl, NEW A, Accounted(t, fl), A \subseteq 0 .. t.next_seq - 1,
         NEW p \in 0 .. Len(t.retx), NEW m \in 0 .. packets_total - t.next_seq,
         Stops(t, A, p, m)
  PROVE  BatchFits(t, fl, A, p, m)
<1>1. PICK ns \in Nat, infl \in Nat, ring \in Seq(Nat) :
         t.next_seq = ns /\ t.in_flight = infl /\ t.retx = ring
  <2>1. t.retx \in Seq(Nat)
    <3>1. t.retx \in Seq(Pkts) /\ Pkts \subseteq Nat
      BY DEF Accounted, FlowTx, Pkts
    <3> QED BY <3>1, SeqMonotonic
  <2> QED BY <2>1 DEF Accounted, FlowTx
<1> DEFINE R == {k \in 1 .. p : ring[k] \notin A}
           w == Window - infl
<1>2. /\ p \in 0 .. Len(ring) /\ m \in Nat /\ ns \in Nat
      /\ fl \subseteq 0 .. ns - 1 /\ A \subseteq 0 .. ns - 1
      /\ \A k \in 1 .. Len(ring) : ring[k] \in 0 .. ns - 1 /\ ring[k] \notin fl
      /\ \A j, k \in 1 .. Len(ring) : ring[j] = ring[k] => j = k
      /\ infl + Len(ring) <= Window
  BY <1>1 DEF Accounted
<1>3. w \in Nat /\ Len(ring) <= w
  BY <1>2, WindowType
<1>4. R = Resent(t, A, p) /\ Sends(t, A, p, m) = Cardinality(R) + m
  BY <1>1 DEF Resent, Sends
<1>5. IsFiniteSet(R) /\ Cardinality(R) \in Nat /\ Cardinality(R) <= p
  <2>1. IsFiniteSet(1 .. p) /\ Cardinality(1 .. p) = p
    BY <1>2, FS_Interval
  <2> QED BY <2>1, <1>2, FS_Subset, FS_CardinalityType
<1>6. m > 0 => p = Len(ring) /\ Cardinality(R) + m <= w
  <2> SUFFICES ASSUME m > 0 PROVE p = Len(ring) /\ Cardinality(R) + m <= w
    OBVIOUS
  <2>1. p = Len(ring) /\ Cardinality(R) + m <= Quota(t)
    BY <1>1, <1>4 DEF Stops
  <2>2. Quota(t) \in Int /\ Quota(t) <= w
    BY <1>1, <1>3, <1>5, <2>1, WindowType DEF Quota
  <2> HIDE DEF R, w
  <2> QED BY <2>1, <2>2, <1>2, <1>3, <1>5
<1>7. Batch(t, A, p, m) = {ring[k] : k \in R} \cup (ns .. ns + m - 1)
  BY <1>1, <1>4 DEF Batch
<1> DEFINE F == ns .. ns + m - 1
           I == {ring[k] : k \in R}
<1>8. IsFiniteSet(I) /\ Cardinality(I) = Cardinality(R)
  <2> DEFINE g == [k \in R |-> ring[k]]
  <2>1. g \in Bijection(R, I)
    <3>1. \A j, k \in R : ring[j] = ring[k] => j = k
      BY <1>2
    <3>2. g \in [R -> I] /\ \A e \in I : \E k \in R : g[k] = e
      OBVIOUS
    <3>3. DOMAIN g = R
      OBVIOUS
    <3> QED BY <3>1, <3>2, <3>3 DEF Bijection, Injection, IsInjective, Surjection
  <2> QED BY <2>1, <1>5, FS_Bijection DEF ExistsBijection
<1>9. IsFiniteSet(F) /\ Cardinality(F) = m
  <2> DEFINE b == ns + m - 1
  <2>1. ns \in Int /\ b \in Int /\ (IF ns > b THEN 0 ELSE b - ns + 1) = m
    OBVIOUS
  <2> HIDE DEF b
  <2>2. IsFiniteSet(ns .. b) /\ Cardinality(ns .. b) = IF ns > b THEN 0 ELSE b - ns + 1
    BY <2>1, FS_Interval
  <2> QED BY <2>1, <2>2 DEF b
<1>10. I \subseteq 0 .. ns - 1 /\ I \cap fl = {} /\ I \cap A = {}
  BY <1>2
<1>11. F \cap fl = {} /\ F \cap A = {} /\ I \cap F = {}
  <2>1. \A e \in F : e \notin 0 .. ns - 1
    OBVIOUS
  <2> HIDE DEF F, I
  <2> QED BY <2>1, <1>2, <1>10
<1>12. IsFiniteSet(I \cup F) /\ Cardinality(I \cup F) = Cardinality(R) + m
  <2>1. /\ IsFiniteSet(I \cup F)
        /\ Cardinality(I \cup F) = Cardinality(I) + Cardinality(F) - Cardinality(I \cap F)
    BY <1>8, <1>9, FS_Union
  <2>2. Cardinality(I \cap F) = 0
    BY <1>11, FS_EmptySet
  <2> QED BY <2>1, <2>2, <1>5, <1>8, <1>9
<1>13. Cardinality(R) + m + (Len(ring) - p) <= w
  BY <1>2, <1>3, <1>6, <1>5
<1>14. I \cup F \subseteq 0 .. ns + m - 1
  <2>1. F \subseteq 0 .. ns + m - 1 /\ 0 .. ns - 1 \subseteq 0 .. ns + m - 1
    BY <1>2
  <2> HIDE DEF F, I
  <2> QED BY <2>1, <1>10
<1>15. infl + (Cardinality(R) + m) + (Len(ring) - p) <= Window
  BY <1>2, <1>5, <1>13, WindowType
<1>16. \A i \in I \cup F : i \notin fl /\ i \notin A
  BY <1>10, <1>11
<1>17. Batch(t, A, p, m) = I \cup F /\ Sends(t, A, p, m) = Cardinality(R) + m
  BY <1>4, <1>7
<1> HIDE DEF I, F, R
<1> QED
  BY <1>1, <1>2, <1>5, <1>12, <1>14, <1>15, <1>16, <1>17 DEF BatchFits

-----------------------------------------------------------------------------
(* What a call of try_send from sender state t leaves behind. *)
SentSoundly(t) ==
  /\ Sound(tx', flying', acked', attempt', timers')
  /\ injects' \in Nat /\ data' \in [Pkts -> Nat]
  /\ t.next_seq <= tx'.next_seq
  /\ \A i \in Pkts : data'[i] > 0 => data[i] > 0 \/ i \in 0 .. tx'.next_seq - 1

(* A round of try_send keeps the sender sound: what it takes from the ring *)
(* is in flight with its timer running, or was acked.                      *)
LEMMA SendBatchKeeps ==
  ASSUME NEW t, NEW fl, NEW tm, NEW inj \in Nat,
         Sound(t, fl, acked', attempt', tm), ~t.failed, data \in [Pkts -> Nat],
         NEW p \in 0 .. Len(t.retx), NEW m \in 0 .. packets_total - t.next_seq,
         Stops(t, acked', p, m), SendBatch(t, fl, tm, inj, p, m)
  PROVE  SentSoundly(t)
<1> DEFINE S == Batch(t, acked', p, m)
           n == Sends(t, acked', p, m)
<1>1. /\ Accounted(t, fl) /\ Tracked(t, fl, acked') /\ Timed(t, fl, acked', attempt', tm)
      /\ t \in FlowTx /\ t.next_seq <= packets_total /\ t.retx \in Seq(Pkts)
      /\ t.next_seq \in Nat /\ t.in_flight \in Nat /\ Len(t.retx) \in Nat
      /\ p \in Nat /\ m \in Nat /\ p <= Len(t.retx) /\ t.next_seq + m <= packets_total
  <2>1. /\ Accounted(t, fl) /\ Tracked(t, fl, acked') /\ Timed(t, fl, acked', attempt', tm)
        /\ t \in FlowTx /\ t.next_seq <= packets_total
    BY DEF Sound, Accounted
  <2>2. t.retx \in Seq(Pkts) /\ t.next_seq \in Nat /\ t.in_flight \in Nat
    BY <2>1 DEF FlowTx
  <2>3. Len(t.retx) \in Nat
    BY <2>2
  <2> QED BY <2>1, <2>2, <2>3
<1>2. /\ S \subseteq 0 .. t.next_seq + m - 1
      /\ \A i \in S : i \notin fl /\ i \notin acked'
      /\ IsFiniteSet(S) /\ Cardinality(S) = n /\ n \in Nat
      /\ t.in_flight + n + (Len(t.retx) - p) <= Window
  <2>1. acked' \subseteq 0 .. t.next_seq - 1
    BY <1>1 DEF Tracked
  <2>2. Accounted(t, fl)
    BY <1>1
  <2>3. BatchFits(t, fl, acked', p, m)
    BY <2>1, <2>2, BatchProperties
  <2> QED BY <2>3 DEF BatchFits
<1>3. /\ S = {t.retx[k] : k \in Resent(t, acked', p)} \cup (t.next_seq .. t.next_seq + m - 1)
      /\ Resent(t, acked', p) = {k \in 1 .. p : t.retx[k] \notin acked'}
  BY DEF Batch, Resent
<1> HIDE DEF S, n
<1>num. /\ t.next_seq \in Nat /\ t.in_flight \in Nat /\ Len(t.retx) \in Nat
        /\ p \in Nat /\ m \in Nat /\ n \in Nat /\ p <= Len(t.retx)
        /\ t.next_seq + m <= packets_total
  BY <1>1, <1>2
<1>sub. S \subseteq 0 .. t.next_seq + m - 1
  BY <1>2
<1>4. /\ tx' \in FlowTx
      /\ tx'.next_seq = t.next_seq + m
      /\ tx'.in_flight = t.in_flight + n
      /\ tx'.retx = SubSeq(t.retx, p + 1, Len(t.retx))
      /\ tx'.failed = t.failed
      /\ injects' \in Nat
  <2>1. SubSeq(t.retx, p + 1, Len(t.retx)) \in Seq(Pkts)
    BY <1>1
  <2> DEFINE u == [next_seq |-> t.next_seq + m,
                   in_flight |-> t.in_flight + n,
                   retx |-> SubSeq(t.retx, p + 1, Len(t.retx)),
                   gated |-> IF S = {} THEN t.gated ELSE Paced,
                   send_scheduled |-> t.send_scheduled,
                   failed |-> t.failed]
  <2>2. /\ u \in FlowTx /\ u.next_seq = t.next_seq + m /\ u.in_flight = t.in_flight + n
        /\ u.retx = SubSeq(t.retx, p + 1, Len(t.retx)) /\ u.failed = t.failed
    <3>1. (IF S = {} THEN t.gated ELSE Paced) \in BOOLEAN
      BY <1>1, Zenon DEF FlowTx, TransportAssumption
    <3>2. t.send_scheduled \in BOOLEAN /\ t.failed \in BOOLEAN
      BY <1>1, Zenon DEF FlowTx
    <3>3. t.next_seq + m \in Nat /\ t.in_flight + n \in Nat
      BY <1>num, NatSum, Zenon
    <3>4. u \in FlowTx
      BY <2>1, <3>1, <3>2, <3>3, Zenon DEF FlowTx
    <3> QED BY <3>4
  <2>3. /\ tx' = [u EXCEPT !.send_scheduled = @ \/ Wakes(u)]
        /\ injects' = IF Wakes(u) THEN inj + 1 ELSE inj
    BY DEF SendBatch, S, n
  <2> HIDE DEF u
  <2>4. tx' \in FlowTx /\ tx'.next_seq = u.next_seq /\ tx'.in_flight = u.in_flight
        /\ tx'.retx = u.retx /\ tx'.failed = u.failed
    <3>1. PICK b \in BOOLEAN : tx' = [u EXCEPT !.send_scheduled = b]
      BY <2>3
    <3>2. u \in FlowTx
      BY <2>2
    <3> QED BY <3>1, <3>2, Rescheduled, Zenon
  <2>5. injects' \in Nat
    BY <2>3
  <2> QED BY <2>2, <2>4, <2>5, Zenon
<1>5. flying' = fl \cup S /\ timers' = ArmTimers(tm, S)
  BY DEF SendBatch, S
<1>6. /\ data' \in [Pkts -> Nat]
      /\ \A i \in Pkts : data'[i] > 0 => data[i] > 0 \/ i \in S
  BY DEF SendBatch, Inject, S
<1>7. /\ Len(tx'.retx) = Len(t.retx) - p
      /\ \A k \in 1 .. Len(tx'.retx) : tx'.retx[k] = t.retx[k + p]
  BY <1>1, <1>4
<1>shift. ASSUME NEW k \in 1 .. Len(tx'.retx)
          PROVE  k \in Int /\ k + p \in 1 .. Len(t.retx) /\ k + p \notin 1 .. p
  <2>1. Len(t.retx) \in Nat
    BY <1>1
  <2>2. k \in 1 .. Len(t.retx) - p
    BY <1>7
  <2> QED BY <2>1, <2>2, ShiftedIndex
<1>seq. 0 .. tx'.next_seq - 1 = 0 .. t.next_seq + m - 1
  <2>1. (t.next_seq + m) - 1 = t.next_seq + m - 1
    BY <1>num, NatSum, Zenon
  <2> QED BY <2>1, <1>4, Zenon
<1>8. Accounted(tx', flying')
  <2>1. 0 .. t.next_seq - 1 \subseteq 0 .. tx'.next_seq - 1
    BY <1>num, <1>seq, NewIndices, Zenon
  <2>2. tx'.next_seq <= packets_total
    BY <1>1, <1>4
  <2>3. flying' \subseteq 0 .. tx'.next_seq - 1
    <3>1. fl \subseteq 0 .. t.next_seq - 1
      BY <1>1 DEF Accounted
    <3>2. S \subseteq 0 .. tx'.next_seq - 1
      BY <1>seq, <1>sub
    <3> QED BY <3>1, <3>2, <2>1, <1>5
  <2>4. tx'.in_flight = Cardinality(flying')
    <3>1. t.in_flight = Cardinality(fl) /\ IsFiniteSet(fl)
      <4>1. fl \subseteq 0 .. t.next_seq - 1 /\ t.in_flight = Cardinality(fl)
        BY <1>1 DEF Accounted
      <4>2. IsFiniteSet(0 .. t.next_seq - 1)
        BY <1>1, PrefixFinite
      <4> QED BY <4>1, <4>2, FS_Subset
    <3>2. fl \cap S = {}
      BY <1>2
    <3>3. Cardinality(fl \cup S) = Cardinality(fl) + Cardinality(S) - Cardinality(fl \cap S)
      BY <1>2, <3>1, FS_Union
    <3>4. Cardinality(fl \cap S) = 0
      BY <3>2, FS_EmptySet
    <3>5. Cardinality(fl \cup S) = t.in_flight + n
      BY <3>1, <3>3, <3>4, <1>1, <1>2
    <3> QED BY <3>5, <1>4, <1>5
  <2>5. tx'.in_flight + Len(tx'.retx) <= Window
    BY <1>1, <1>2, <1>4, <1>7, WindowType
  <2>6. ASSUME NEW k \in 1 .. Len(tx'.retx)
        PROVE  tx'.retx[k] \in 0 .. tx'.next_seq - 1 /\ tx'.retx[k] \notin flying'
    <3>1. k + p \in 1 .. Len(t.retx) /\ k + p \notin 1 .. p
      BY <1>shift
    <3>2. /\ t.retx[k + p] \in 0 .. t.next_seq - 1 /\ t.retx[k + p] \notin fl
          /\ \A j \in 1 .. Len(t.retx) : t.retx[j] = t.retx[k + p] => j = k + p
      <4>1. /\ \A h \in 1 .. Len(t.retx) :
                 t.retx[h] \in 0 .. t.next_seq - 1 /\ t.retx[h] \notin fl
            /\ \A j, h \in 1 .. Len(t.retx) : t.retx[j] = t.retx[h] => j = h
        BY <1>1 DEF Accounted
      <4> QED BY <3>1, <4>1, Zenon
    <3>3. t.retx[k + p] \notin t.next_seq .. t.next_seq + m - 1
      BY <3>2, <1>num, NewIndices, Zenon
    <3>4. \A j \in Resent(t, acked', p) : j \in 1 .. Len(t.retx) /\ j # k + p
      <4>1. \A j \in 1 .. p : j \in 1 .. Len(t.retx)
        BY <1>1
      <4> QED BY <4>1, <3>1, <1>3
    <3>5. t.retx[k + p] \notin S
      BY <3>2, <3>3, <3>4, <1>3
    <3> QED BY <3>2, <3>5, <2>1, <1>5, <1>7
  <2>7. ASSUME NEW j \in 1 .. Len(tx'.retx), NEW k \in 1 .. Len(tx'.retx),
               tx'.retx[j] = tx'.retx[k]
        PROVE  j = k
    <3>1. j + p \in 1 .. Len(t.retx) /\ k + p \in 1 .. Len(t.retx)
      BY <1>shift
    <3>2. t.retx[j + p] = t.retx[k + p]
      BY <2>7, <1>7
    <3>3. j + p = k + p
      BY <3>1, <3>2, <1>1 DEF Accounted
    <3>4. j \in Int /\ k \in Int /\ p \in Int
      BY <1>1, <1>shift
    <3> QED BY <3>3, <3>4
  <2> QED
    <3>1. tx' \in FlowTx
      BY <1>4
    <3> QED BY <2>2, <2>3, <2>4, <2>5, <2>6, <2>7, <3>1 DEF Accounted
<1>9. Tracked(tx', flying', acked')
  <2>0. 0 .. tx'.next_seq - 1 = 0 .. t.next_seq + m - 1
    BY <1>seq
  <2>1. acked' \subseteq 0 .. tx'.next_seq - 1
    <3>1. 0 .. t.next_seq - 1 \subseteq 0 .. tx'.next_seq - 1
      BY <1>num, <1>seq, NewIndices, Zenon
    <3> QED BY <3>1, <1>1 DEF Tracked
  <2>2. flying' \cap acked' = {}
    BY <1>1, <1>2, <1>5 DEF Tracked
  <2>3. ASSUME NEW i \in 0 .. tx'.next_seq - 1
        PROVE  \/ i \in acked' \/ i \in flying'
               \/ \E k \in 1 .. Len(tx'.retx) : tx'.retx[k] = i
    <3>1. CASE i \in t.next_seq .. t.next_seq + m - 1
      BY <3>1, <1>3, <1>5
    <3>2. CASE i \in 0 .. t.next_seq - 1
      <4>1. CASE i \in acked' \/ i \in fl
        BY <4>1, <1>5
      <4>2. CASE \E k \in 1 .. Len(t.retx) : t.retx[k] = i
        <5>1. PICK k \in 1 .. Len(t.retx) : t.retx[k] = i
          BY <4>2
        <5>2. CASE k <= p
          <6>1. k \in 1 .. p
            BY <5>2, <1>1
          <6> QED BY <5>1, <6>1, <1>3, <1>5
        <5>3. CASE k > p
          <6>1. k - p \in 1 .. Len(tx'.retx) /\ (k - p) + p = k
            BY <5>3, <1>1, <1>7
          <6>2. tx'.retx[k - p] = i
            BY <6>1, <5>1, <1>7
          <6> QED BY <6>1, <6>2
        <5> QED BY <5>2, <5>3, <1>1
      <4>3. i \in acked' \/ i \in fl \/ \E k \in 1 .. Len(t.retx) : t.retx[k] = i
        BY <3>2, <1>1 DEF Tracked
      <4> QED BY <4>1, <4>2, <4>3
    <3>3. i \in 0 .. t.next_seq + m - 1
      BY <2>0
    <3>4. i \in t.next_seq .. t.next_seq + m - 1 \/ i \in 0 .. t.next_seq - 1
      BY <3>3, <1>1
    <3> QED BY <3>1, <3>2, <3>4
  <2> QED BY <2>1, <2>2, <2>3 DEF Tracked
<1>10. Timed(tx', flying', acked', attempt', timers')
  <2>1. /\ attempt' \in [Pkts -> Attempts] /\ tm \in [Pkts -> [Attempts -> Nat]]
        /\ \A i \in Pkts, a \in Attempts :
             tm[i][a] <= IF i \in acked' \/ a = attempt'[i] THEN 1 ELSE 0
        /\ \A i \in Pkts \ acked' : i \in fl <=> tm[i][attempt'[i]] > 0
    BY <1>1 DEF Timed
  <2>2. /\ timers' \in [Pkts -> [Attempts -> Nat]]
        /\ \A i \in Pkts, a \in Attempts :
             timers'[i][a] = IF i \in S /\ a = attempt'[i] THEN tm[i][a] + 1 ELSE tm[i][a]
    BY <2>1, <1>5 DEF ArmTimers
  <2>3. ASSUME NEW i \in Pkts, NEW a \in Attempts
        PROVE  timers'[i][a] <= IF i \in acked' \/ a = attempt'[i] THEN 1 ELSE 0
    <3>1. CASE i \in S /\ a = attempt'[i]
      <4>1. tm[i][a] \in Nat /\ ~(tm[i][a] > 0)
        BY <3>1, <2>1, <1>2
      <4> QED BY <4>1, <3>1, <2>2
    <3>2. CASE ~(i \in S /\ a = attempt'[i])
      BY <3>2, <2>1, <2>2
    <3> QED BY <3>1, <3>2
  <2>4. ASSUME NEW i \in Pkts \ acked'
        PROVE  i \in flying' <=> timers'[i][attempt'[i]] > 0
    <3>1. attempt'[i] \in Attempts /\ tm[i][attempt'[i]] \in Nat
      BY <2>1
    <3>2. CASE i \in S
      BY <3>1, <3>2, <2>2, <1>5
    <3>3. CASE i \notin S
      BY <3>1, <3>3, <2>1, <2>2, <1>5
    <3> QED BY <3>2, <3>3
  <2> QED BY <2>1, <2>2, <2>3, <2>4 DEF Timed
<1> QED
  <2>1. t.next_seq <= tx'.next_seq
    BY <1>num, <1>4
  <2>2. \A i \in Pkts : data'[i] > 0 => data[i] > 0 \/ i \in 0 .. tx'.next_seq - 1
    BY <1>seq, <1>sub, <1>6
  <2> QED BY <2>1, <2>2, <1>4, <1>6, <1>8, <1>9, <1>10 DEF Sound, SentSoundly

-----------------------------------------------------------------------------
(* try_send keeps the sender sound from any sound state its caller leaves. *)
LEMMA TrySendKeeps ==
  ASSUME NEW t, NEW fl, NEW tm, NEW inj \in Nat,
         Sound(t, fl, acked', attempt', tm), data \in [Pkts -> Nat],
         TrySend(t, fl, tm, inj)
  PROVE  SentSoundly(t)
<1>1. CASE ~MaySend(t)
  <2>1. /\ tx' = t /\ flying' = fl /\ timers' = tm /\ injects' = inj
        /\ data' = data
    BY <1>1 DEF TrySend
  <2>2. t.next_seq <= t.next_seq
    BY DEF Sound, Accounted, FlowTx
  <2>3. \A i \in Pkts : data'[i] > 0 => data[i] > 0
    BY <2>1
  <2>4. Sound(tx', flying', acked', attempt', timers')
    BY <2>1
  <2> QED BY <2>1, <2>2, <2>3, <2>4 DEF SentSoundly
<1>2. CASE MaySend(t)
  <2>1. PICK p \in 0 .. Len(t.retx), m \in 0 .. packets_total - t.next_seq :
          Stops(t, acked', p, m) /\ SendBatch(t, fl, tm, inj, p, m)
    BY <1>2 DEF TrySend
  <2> QED BY <1>2, <2>1, SendBatchKeeps DEF MaySend
<1> QED BY <1>1, <1>2

-----------------------------------------------------------------------------
(* The inductive invariant holds initially. *)
LEMMA InitSound == Init => IInv
<1> SUFFICES ASSUME Init PROVE IInv
  OBVIOUS
<1>1. TypeOK
  <2>1. tx \in FlowTx /\ tx.next_seq <= packets_total
    BY DEF Init, FlowTx
  <2>2. released \in BOOLEAN /\ complete \in BOOLEAN /\ injects \in Nat
    BY DEF Init
  <2>3. attempt \in [Pkts -> Attempts] /\ timers \in [Pkts -> [Attempts -> Nat]]
    BY DEF Init, Attempts
  <2> QED BY <2>1, <2>2, <2>3 DEF Init, TypeOK
<1>2. Sound(tx, flying, acked, attempt, timers)
  BY <1>1, FS_EmptySet, WindowType DEF Init, TypeOK, FlowTx, Sound, Accounted, Tracked, Timed, Pkts, Attempts
<1>3. Caused /\ AckedDelivered
  BY DEF Init, Caused, AckedDelivered, Sent
<1> QED BY <1>1, <1>2, <1>3 DEF IInv

-----------------------------------------------------------------------------
(* A handler that ends in try_send restores the invariant if it leaves the *)
(* receiver alone, only consumes acks, and acks only what was delivered.   *)
LEMMA SendRestores ==
  ASSUME NEW t, IInv, SentSoundly(t), t.next_seq = tx.next_seq,
         delivered' = delivered, packets_delivered' = packets_delivered,
         complete' = complete, released' = released,
         acked' \subseteq delivered, acks' \in [Pkts -> Nat],
         \A i \in Pkts : acks'[i] > 0 => acks[i] > 0
  PROVE  IInv'
<1>1. Sound(tx', flying', acked', attempt', timers')
  BY DEF SentSoundly
<1>2. Sent \subseteq Sent' /\ Sent' \subseteq Pkts /\ Sent' = 0 .. tx'.next_seq - 1
  <2>1. tx.next_seq \in Nat /\ tx'.next_seq \in Nat /\ tx.next_seq <= tx'.next_seq
        /\ tx'.next_seq <= packets_total
    BY <1>1 DEF SentSoundly, Sound, Accounted, IInv, TypeOK, FlowTx
  <2> QED BY <2>1 DEF Sent, Pkts
<1>3. TypeOK'
  <2>1. tx' \in FlowTx /\ tx'.next_seq <= packets_total
        /\ flying' \subseteq Pkts /\ acked' \subseteq Pkts
    BY <1>1, <1>2 DEF Sound, Accounted, Tracked
  <2>2. attempt' \in [Pkts -> Attempts] /\ timers' \in [Pkts -> [Attempts -> Nat]]
    BY <1>1 DEF Sound, Timed
  <2> QED BY <2>1, <2>2 DEF TypeOK, IInv, SentSoundly
<1>4. Caused'
  <2>1. \A i \in Pkts : data'[i] > 0 => data[i] > 0 \/ i \in Sent'
    BY <1>2 DEF SentSoundly
  <2> QED BY <2>1, <1>2 DEF IInv, Caused
<1>5. AckedDelivered'
  BY DEF AckedDelivered, IInv
<1> QED BY <1>1, <1>3, <1>4, <1>5 DEF IInv

(* Clearing kInFlight frees exactly one slot of the window. *)
LandsSoundly(i) ==
  LET t == Landed(tx, i)
  IN  /\ Accounted(t, flying \ {i})
      /\ t.next_seq = tx.next_seq /\ t.retx = tx.retx /\ t.failed = tx.failed
      /\ i \in flying => t.in_flight + Len(t.retx) + 1 <= Window

LEMMA Landing ==
  ASSUME IInv, NEW i \in Pkts
  PROVE  LandsSoundly(i)
<1>1. Accounted(tx, flying)
  BY DEF IInv, Sound
<1>2. CASE i \notin flying
  <2>1. Landed(tx, i) = tx /\ flying \ {i} = flying
    BY <1>2 DEF Landed
  <2> QED BY <2>1, <1>1, <1>2 DEF LandsSoundly
<1>3. CASE i \in flying
  <2>1. /\ tx \in FlowTx /\ tx.next_seq \in Nat /\ tx.in_flight \in Nat
        /\ tx.retx \in Seq(Pkts) /\ Len(tx.retx) \in Nat
    BY <1>1 DEF Accounted, FlowTx
  <2>2. tx.in_flight = Cardinality(flying) /\ tx.in_flight > 0
        /\ Cardinality(flying \ {i}) = tx.in_flight - 1
    <3>1. flying \subseteq 0 .. tx.next_seq - 1 /\ tx.in_flight = Cardinality(flying)
      BY <1>1 DEF Accounted
    <3>2. IsFiniteSet(0 .. tx.next_seq - 1)
      BY <2>1, PrefixFinite
    <3>3. IsFiniteSet(flying)
      BY <3>1, <3>2, FS_Subset
    <3>4. Cardinality(flying) # 0
      BY <3>3, <1>3, FS_EmptySet
    <3>5. Cardinality(flying \ {i}) = Cardinality(flying) - 1
      BY <3>3, <1>3, FS_RemoveElement
    <3> QED BY <3>1, <3>4, <3>5, <2>1
  <2>3. /\ Landed(tx, i) \in FlowTx
        /\ Landed(tx, i).in_flight = tx.in_flight - 1
        /\ Landed(tx, i).next_seq = tx.next_seq
        /\ Landed(tx, i).retx = tx.retx /\ Landed(tx, i).failed = tx.failed
    BY <1>3, <2>1, <2>2 DEF Landed, FlowTx
  <2>4. /\ tx.in_flight - 1 + Len(tx.retx) <= Window
        /\ tx.in_flight - 1 + Len(tx.retx) + 1 <= Window
    BY <1>1, <2>1, WindowType DEF Accounted
  <2> HIDE DEF Landed
  <2>5. Accounted(Landed(tx, i), flying \ {i})
    BY <1>1, <2>2, <2>3, <2>4 DEF Accounted
  <2> QED BY <2>3, <2>4, <2>5 DEF LandsSoundly
<1> QED BY <1>2, <1>3

(* A packet whose timer has expired goes from the window to the ring. *)
RequeuesSoundly(i) ==
  LET t == [Landed(tx, i) EXCEPT !.retx = Append(@, i)]
  IN  /\ Accounted(t, flying \ {i})
      /\ t.next_seq = tx.next_seq /\ t.failed = tx.failed /\ t.retx = Append(tx.retx, i)

LEMMA Requeueing ==
  ASSUME IInv, NEW i \in Pkts, i \in flying
  PROVE  RequeuesSoundly(i)
<1> DEFINE l == Landed(tx, i)
           t == [l EXCEPT !.retx = Append(@, i)]
<1>1. /\ Accounted(tx, flying) /\ Accounted(l, flying \ {i})
      /\ l \in FlowTx /\ l.next_seq = tx.next_seq /\ l.retx = tx.retx
      /\ l.failed = tx.failed
      /\ l.in_flight + Len(tx.retx) + 1 <= Window
  <2>1. LandsSoundly(i)
    BY Landing
  <2>2. Accounted(tx, flying)
    BY DEF IInv, Sound
  <2> QED BY <2>1, <2>2 DEF LandsSoundly, Accounted
<1> HIDE DEF l
<1>2. /\ t \in FlowTx /\ t.next_seq = tx.next_seq /\ t.failed = tx.failed
      /\ t.in_flight = l.in_flight /\ t.retx = Append(tx.retx, i)
  <2>1. Append(l.retx, i) \in Seq(Pkts)
    BY <1>1 DEF FlowTx
  <2>2. /\ t \in FlowTx /\ t.next_seq = l.next_seq /\ t.failed = l.failed
        /\ t.in_flight = l.in_flight /\ t.retx = Append(l.retx, i)
    BY <1>1, <2>1 DEF FlowTx
  <2> QED BY <1>1, <2>2
<1> HIDE DEF t
<1>3. /\ Len(t.retx) = Len(tx.retx) + 1 /\ Len(tx.retx) \in Nat
      /\ t.retx[Len(tx.retx) + 1] = i
      /\ \A k \in 1 .. Len(tx.retx) : t.retx[k] = tx.retx[k]
  <2>1. tx.retx \in Seq(Pkts)
    BY <1>1 DEF Accounted, FlowTx
  <2> QED BY <2>1, <1>2
<1>4. i \in 0 .. tx.next_seq - 1
  BY <1>1 DEF Accounted
<1>5. t.in_flight + Len(t.retx) <= Window
  <2>1. l.in_flight \in Nat
    BY <1>1 DEF FlowTx
  <2> QED BY <2>1, <1>1, <1>2, <1>3, WindowType
<1>6. ASSUME NEW k \in 1 .. Len(t.retx)
      PROVE  t.retx[k] \in 0 .. t.next_seq - 1 /\ t.retx[k] \notin flying \ {i}
  <2>1. k \in 1 .. Len(tx.retx) \/ k = Len(tx.retx) + 1
    BY <1>3
  <2> QED BY <2>1, <1>1, <1>2, <1>3, <1>4 DEF Accounted
<1>7. ASSUME NEW j \in 1 .. Len(t.retx), NEW k \in 1 .. Len(t.retx),
             t.retx[j] = t.retx[k]
      PROVE  j = k
  <2>1. /\ j \in 1 .. Len(tx.retx) \/ j = Len(tx.retx) + 1
        /\ k \in 1 .. Len(tx.retx) \/ k = Len(tx.retx) + 1
    BY <1>3
  <2>2. \A h \in 1 .. Len(tx.retx) : tx.retx[h] # i
    BY <1>1 DEF Accounted
  <2>3. \A g, h \in 1 .. Len(tx.retx) : tx.retx[g] = tx.retx[h] => g = h
    BY <1>1 DEF Accounted
  <2>4. CASE j \in 1 .. Len(tx.retx) /\ k \in 1 .. Len(tx.retx)
    BY <2>3, <2>4, <1>3, <1>7
  <2>5. CASE j = Len(tx.retx) + 1
    BY <2>1, <2>2, <2>5, <1>3, <1>7
  <2>6. CASE k = Len(tx.retx) + 1
    BY <2>1, <2>2, <2>6, <1>3, <1>7
  <2> QED BY <2>1, <2>4, <2>5, <2>6
<1>8. /\ t.next_seq <= packets_total /\ flying \ {i} \subseteq 0 .. t.next_seq - 1
      /\ t.in_flight = Cardinality(flying \ {i})
  BY <1>1, <1>2 DEF Accounted
<1>9. Accounted(t, flying \ {i})
  BY <1>2, <1>5, <1>6, <1>7, <1>8 DEF Accounted
<1> QED BY <1>2, <1>9 DEF RequeuesSoundly, t, l

-----------------------------------------------------------------------------
(* The inductive step, one lemma per handler that sends. *)
LEMMA InjectSound == IInv /\ on_inject => IInv'
<1> SUFFICES ASSUME IInv, on_inject PROVE IInv'
  OBVIOUS
<1> DEFINE t == [tx EXCEPT !.send_scheduled = FALSE]
<1>1. /\ t \in FlowTx /\ t.next_seq = tx.next_seq /\ t.in_flight = tx.in_flight
      /\ t.retx = tx.retx /\ t.failed = tx.failed
  BY DEF IInv, TypeOK, FlowTx
<1>2. /\ TrySend(t, flying, timers, injects - 1) /\ injects - 1 \in Nat
      /\ acked' = acked /\ attempt' = attempt /\ data \in [Pkts -> Nat]
      /\ delivered' = delivered /\ packets_delivered' = packets_delivered
      /\ complete' = complete /\ released' = released /\ acks' = acks
  BY DEF on_inject, result, IInv, TypeOK
<1> HIDE DEF t
<1>3. Sound(t, flying, acked', attempt', timers)
  BY <1>1, <1>2 DEF IInv, Sound, Accounted, Tracked, Timed
<1>4. SentSoundly(t)
  BY <1>2, <1>3, TrySendKeeps
<1>5. acked' \subseteq delivered /\ acks' \in [Pkts -> Nat]
  BY <1>2 DEF IInv, TypeOK, AckedDelivered
<1> QED BY <1>1, <1>2, <1>4, <1>5, SendRestores

LEMMA AckSound == ASSUME NEW i \in Pkts, IInv, on_ack(i) PROVE IInv'
<1>1. /\ acks' \in [Pkts -> Nat] /\ \A j \in Pkts : acks'[j] > 0 => acks[j] > 0
      /\ delivered' = delivered /\ packets_delivered' = packets_delivered
      /\ complete' = complete /\ released' = released /\ i \in delivered
  <2>1. acks \in [Pkts -> Nat] /\ acks[i] > 0 /\ acks' = [acks EXCEPT ![i] = @ - 1]
    BY DEF on_ack, IInv, TypeOK
  <2>2. i \in delivered
    BY <2>1 DEF IInv, AckedDelivered
  <2> QED BY <2>1, <2>2 DEF on_ack, result
<1>2. CASE DuplicateAck(i)
  <2>1. /\ tx' = tx /\ flying' = flying /\ acked' = acked /\ attempt' = attempt
        /\ injects' = injects /\ timers' = timers /\ data' = data
    BY <1>2 DEF DuplicateAck, on_ack
  <2>2. TypeOK'
    BY <1>1, <2>1 DEF IInv, TypeOK
  <2>3. Caused' /\ AckedDelivered'
    BY <1>1, <2>1 DEF IInv, Caused, AckedDelivered, Sent
  <2>4. Sound(tx', flying', acked', attempt', timers')
    BY <2>1 DEF IInv
  <2> QED BY <2>2, <2>3, <2>4 DEF IInv
<1>3. CASE FirstAck(i)
  <2> DEFINE t == Landed(tx, i)
  <2>1. LandsSoundly(i)
    BY Landing
  <2>2. /\ Accounted(t, flying \ {i}) /\ t.next_seq = tx.next_seq
        /\ t.retx = tx.retx /\ t.failed = tx.failed
    BY <2>1 DEF LandsSoundly
  <2>3. /\ acked' = acked \cup {i} /\ attempt' = attempt /\ i \notin acked
        /\ TrySend(t, flying \ {i}, timers, injects)
    BY <1>3 DEF FirstAck, AckedBy
  <2> HIDE DEF t
  <2>4. i \in 0 .. tx.next_seq - 1 /\ acked' \subseteq delivered
    BY <1>1, <2>3 DEF IInv, Caused, Sent, AckedDelivered
  <2>5. Tracked(t, flying \ {i}, acked')
    BY <2>2, <2>3, <2>4 DEF IInv, Sound, Tracked
  <2>6. Timed(t, flying \ {i}, acked', attempt', timers)
    BY <2>2, <2>3 DEF IInv, Sound, Timed
  <2>7. SentSoundly(t)
    <3>1. injects \in Nat /\ data \in [Pkts -> Nat]
      BY DEF IInv, TypeOK
    <3> QED BY <2>2, <2>3, <2>5, <2>6, <3>1, TrySendKeeps DEF Sound
  <2> QED BY <1>1, <2>2, <2>4, <2>7, SendRestores
<1> QED BY <1>2, <1>3 DEF on_ack

LEMMA TimeoutSound ==
  ASSUME NEW i \in Pkts, NEW a \in Attempts, IInv, on_timeout(i, a) PROVE IInv'
<1> DEFINE tm == [timers EXCEPT ![i][a] = @ - 1]
<1>1. /\ delivered' = delivered /\ packets_delivered' = packets_delivered
      /\ complete' = complete /\ released' = released /\ acks' = acks
      /\ timers[i][a] > 0
  BY DEF on_timeout, result
<1>2. /\ tm \in [Pkts -> [Attempts -> Nat]]
      /\ \A j \in Pkts, b \in Attempts :
           tm[j][b] = IF j = i /\ b = a THEN timers[j][b] - 1 ELSE timers[j][b]
  BY <1>1 DEF IInv, TypeOK
<1>3. /\ Timed(tx, flying, acked, attempt, timers) /\ Accounted(tx, flying)
      /\ Tracked(tx, flying, acked)
      /\ attempt \in [Pkts -> Attempts] /\ timers \in [Pkts -> [Attempts -> Nat]]
      /\ \A j \in Pkts, b \in Attempts :
           timers[j][b] <= IF j \in acked \/ b = attempt[j] THEN 1 ELSE 0
      /\ ~tx.failed => \A j \in Pkts \ acked : j \in flying <=> timers[j][attempt[j]] > 0
  BY DEF IInv, Sound, Timed
<1> HIDE DEF tm
<1>4. CASE StaleTimer(i, a)
  <2>1. /\ tx' = tx /\ flying' = flying /\ acked' = acked /\ attempt' = attempt
        /\ injects' = injects /\ data' = data /\ timers' = tm
    BY <1>4 DEF StaleTimer, tm
  <2>2. Timed(tx, flying, acked, attempt, tm)
    <3>1. ASSUME NEW j \in Pkts, NEW b \in Attempts
          PROVE  tm[j][b] <= IF j \in acked \/ b = attempt[j] THEN 1 ELSE 0
      BY <1>2, <1>3
    <3>2. ASSUME ~tx.failed, NEW j \in Pkts \ acked
          PROVE  j \in flying <=> tm[j][attempt[j]] > 0
      BY <3>2, <1>2, <1>3, <1>4 DEF StaleTimer, Ignored
    <3> QED BY <3>1, <3>2, <1>2, <1>3 DEF Timed
  <2> QED
    BY <1>1, <1>2, <1>3, <2>1, <2>2 DEF IInv, Sound, TypeOK, Caused, AckedDelivered, Sent
<1>5. /\ Accounted(Landed(tx, i), flying \ {i})
      /\ Landed(tx, i).next_seq = tx.next_seq /\ Landed(tx, i).retx = tx.retx
      /\ Landed(tx, i).failed = tx.failed
      /\ i \in flying => Landed(tx, i).in_flight + Len(tx.retx) + 1 <= Window
  <2>1. LandsSoundly(i)
    BY Landing
  <2> QED BY <2>1 DEF LandsSoundly
<1>6. CASE GiveUp(i, a)
  <2>1. /\ tx' = [Landed(tx, i) EXCEPT !.failed = TRUE] /\ flying' = flying \ {i}
        /\ acked' = acked /\ attempt' = attempt
        /\ injects' = injects /\ data' = data /\ timers' = tm
    BY <1>6 DEF GiveUp, tm
  <2>2. /\ tx' \in FlowTx /\ tx'.next_seq = tx.next_seq /\ tx'.retx = tx.retx
        /\ tx'.in_flight = Landed(tx, i).in_flight /\ tx'.failed
    BY <1>5, <2>1 DEF Accounted, FlowTx
  <2>3. Accounted(tx', flying')
    BY <1>5, <2>1, <2>2 DEF Accounted
  <2>4. Tracked(tx', flying', acked')
    BY <1>3, <2>1, <2>2 DEF Tracked
  <2>5. Timed(tx', flying', acked', attempt', timers')
    BY <1>2, <1>3, <2>1, <2>2 DEF Timed
  <2>6. TypeOK'
    BY <1>1, <1>2, <2>1, <2>2, <2>3 DEF IInv, TypeOK, Accounted
  <2>7. Caused' /\ AckedDelivered'
    BY <1>1, <2>1, <2>2 DEF IInv, Caused, AckedDelivered, Sent
  <2> QED BY <2>3, <2>4, <2>5, <2>6, <2>7 DEF IInv, Sound
<1>7. CASE Retransmit(i, a)
  <2> DEFINE t == [Landed(tx, i) EXCEPT !.retx = Append(@, i)]
  <2>1. /\ acked' = acked /\ attempt' = [attempt EXCEPT ![i] = @ + 1]
        /\ TrySend(t, flying \ {i}, tm, injects)
        /\ i \notin acked /\ attempt[i] = a /\ ~tx.failed
        /\ ~(attempt[i] + 1 >= max_attempts)
    BY <1>7 DEF Retransmit, tm, Ignored, GivesUp
  <2>2. i \in flying
    BY <1>1, <1>3, <2>1
  <2>3. /\ Accounted(t, flying \ {i})
        /\ t.next_seq = tx.next_seq /\ t.failed = tx.failed /\ t.retx = Append(tx.retx, i)
    <3>1. RequeuesSoundly(i)
      BY <2>2, Requeueing
    <3> QED BY <3>1 DEF RequeuesSoundly
  <2> HIDE DEF t
  <2>4. /\ Len(t.retx) = Len(tx.retx) + 1 /\ Len(tx.retx) \in Nat
        /\ t.retx[Len(tx.retx) + 1] = i
        /\ \A k \in 1 .. Len(tx.retx) : t.retx[k] = tx.retx[k]
    <3>1. tx.retx \in Seq(Pkts)
      BY <1>3 DEF Accounted, FlowTx
    <3> QED BY <3>1, <2>3
  <2>5. i \in 0 .. tx.next_seq - 1
    BY <2>2, <1>3 DEF Accounted
  <2>7. Tracked(t, flying \ {i}, acked')
    <3>1. ASSUME NEW j \in 0 .. t.next_seq - 1
          PROVE  \/ j \in acked' \/ j \in flying \ {i}
                 \/ \E k \in 1 .. Len(t.retx) : t.retx[k] = j
      <4>1. CASE j = i
        BY <4>1, <2>4
      <4>2. CASE j # i
        <5>1. \/ j \in acked \/ j \in flying
              \/ \E k \in 1 .. Len(tx.retx) : tx.retx[k] = j
          BY <1>3, <2>1, <2>3 DEF Tracked
        <5>2. \A k \in 1 .. Len(tx.retx) : k \in 1 .. Len(t.retx)
          BY <2>4
        <5> QED BY <4>2, <5>1, <5>2, <2>1, <2>4
      <4> QED BY <4>1, <4>2
    <3> QED BY <3>1, <1>3, <2>1, <2>3 DEF Tracked
  <2>8. Timed(t, flying \ {i}, acked', attempt', tm)
    <3>1. /\ attempt' \in [Pkts -> Attempts] /\ attempt'[i] = a + 1 /\ a + 1 # a
          /\ \A j \in Pkts : j # i => attempt'[j] = attempt[j]
      BY <1>3, <2>1 DEF Attempts
    <3>2. ASSUME NEW j \in Pkts, NEW b \in Attempts
          PROVE  tm[j][b] <= IF j \in acked' \/ b = attempt'[j] THEN 1 ELSE 0
      <4>1. CASE j = i
        <5>1. timers[i][b] <= (IF b = a THEN 1 ELSE 0) /\ timers[i][b] \in Nat
          BY <1>3, <2>1
        <5>2. tm[i][b] = 0
          BY <5>1, <1>1, <1>2
        <5> QED BY <4>1, <5>2
      <4>2. CASE j # i
        BY <4>2, <3>1, <1>2, <1>3, <2>1
      <4> QED BY <4>1, <4>2
    <3>3. ASSUME NEW j \in Pkts \ acked'
          PROVE  j \in flying \ {i} <=> tm[j][attempt'[j]] > 0
      <4>1. CASE j = i
        <5>1. attempt'[i] \in Attempts /\ attempt'[i] # attempt[i] /\ i \notin acked
          BY <3>1, <2>1
        <5>2. timers[i][attempt'[i]] <= 0 /\ timers[i][attempt'[i]] \in Nat
          BY <5>1, <1>3
        <5>3. tm[i][attempt'[i]] = timers[i][attempt'[i]]
          BY <5>1, <1>2, <2>1
        <5> QED BY <4>1, <5>2, <5>3
      <4>2. CASE j # i
        BY <4>2, <3>1, <1>2, <1>3, <2>1
      <4> QED BY <4>1, <4>2
    <3> QED BY <3>1, <3>2, <3>3, <1>2 DEF Timed
  <2>9. SentSoundly(t)
    <3>1. injects \in Nat /\ data \in [Pkts -> Nat]
      BY DEF IInv, TypeOK
    <3> QED BY <2>1, <2>3, <2>7, <2>8, <3>1, TrySendKeeps DEF Sound
  <2>10. acked' \subseteq delivered /\ acks' \in [Pkts -> Nat]
    BY <1>1, <2>1 DEF IInv, TypeOK, AckedDelivered
  <2> QED BY <1>1, <2>3, <2>9, <2>10, SendRestores
<1> QED BY <1>4, <1>6, <1>7 DEF on_timeout

LEMMA ArrivalSound == ASSUME NEW i \in Pkts, IInv, on_data_arrival(i) PROVE IInv'
<1>1. /\ tx' = tx /\ flying' = flying /\ acked' = acked /\ attempt' = attempt
      /\ released' = released /\ injects' = injects /\ timers' = timers
      /\ delivered' = delivered \cup {i}
      /\ data[i] > 0 /\ data' = [data EXCEPT ![i] = @ - 1]
      /\ acks' = acks \/ acks' = [acks EXCEPT ![i] = @ + 1]
  BY DEF on_data_arrival
<1>2. packets_delivered' \in Nat /\ complete' \in BOOLEAN
  <2>1. packets_delivered' \in Nat
    BY DEF on_data_arrival, IInv, TypeOK
  <2>2. complete' = (complete \/ (Counts(i) /\ packets_delivered' = packets_total))
    BY DEF on_data_arrival
  <2> QED BY <2>1, <2>2
<1>3. /\ data' \in [Pkts -> Nat] /\ acks' \in [Pkts -> Nat]
      /\ \A j \in Pkts : data'[j] > 0 => data[j] > 0
      /\ \A j \in Pkts : acks'[j] > 0 => acks[j] > 0 \/ j = i
  BY <1>1 DEF IInv, TypeOK
<1>4. TypeOK'
  BY <1>1, <1>2, <1>3 DEF IInv, TypeOK
<1>5. Caused' /\ AckedDelivered'
  BY <1>1, <1>3 DEF IInv, Caused, AckedDelivered, Sent
<1> QED BY <1>1, <1>4, <1>5 DEF IInv

LEMMA LossSound == ASSUME NEW i \in Pkts, IInv, LoseData(i) \/ LoseAck(i) PROVE IInv'
<1>1. /\ tx' = tx /\ flying' = flying /\ acked' = acked /\ attempt' = attempt
      /\ released' = released /\ injects' = injects /\ timers' = timers
      /\ delivered' = delivered /\ packets_delivered' = packets_delivered
      /\ complete' = complete
  BY DEF LoseData, LoseAck, result
<1>2. /\ data' \in [Pkts -> Nat] /\ acks' \in [Pkts -> Nat]
      /\ \A j \in Pkts : data'[j] > 0 => data[j] > 0
      /\ \A j \in Pkts : acks'[j] > 0 => acks[j] > 0
  <2>1. CASE LoseData(i)
    BY <2>1 DEF LoseData, IInv, TypeOK
  <2>2. CASE LoseAck(i)
    BY <2>2 DEF LoseAck, IInv, TypeOK
  <2> QED BY <2>1, <2>2
<1>3. TypeOK'
  BY <1>1, <1>2 DEF IInv, TypeOK
<1>4. Caused' /\ AckedDelivered'
  BY <1>1, <1>2 DEF IInv, Caused, AckedDelivered, Sent
<1> QED BY <1>1, <1>3, <1>4 DEF IInv

(* Opening the gate or releasing the flow touches nothing the accounting   *)
(* reads.                                                                  *)
LEMMA WakeSound == IInv /\ (PaceElapses \/ release_flow) => IInv'
<1> SUFFICES ASSUME IInv, PaceElapses \/ release_flow PROVE IInv'
  OBVIOUS
<1>1. /\ flying' = flying /\ acked' = acked /\ attempt' = attempt
      /\ timers' = timers /\ data' = data /\ acks' = acks
      /\ delivered' = delivered /\ packets_delivered' = packets_delivered
      /\ complete' = complete
      /\ released' \in BOOLEAN /\ injects' \in Nat
  <2>1. CASE PaceElapses
    BY <2>1 DEF PaceElapses, result, network, IInv, TypeOK
  <2>2. CASE release_flow
    BY <2>2 DEF release_flow, result, network, IInv, TypeOK
  <2> QED BY <2>1, <2>2
<1>2. /\ tx' \in FlowTx /\ tx'.next_seq = tx.next_seq /\ tx'.in_flight = tx.in_flight
      /\ tx'.retx = tx.retx /\ tx'.failed = tx.failed
  BY DEF PaceElapses, release_flow, IInv, TypeOK, FlowTx
<1>3. Sound(tx', flying', acked', attempt', timers')
  BY <1>1, <1>2 DEF IInv, Sound, Accounted, Tracked, Timed
<1>4. TypeOK'
  BY <1>1, <1>2 DEF IInv, TypeOK
<1>5. Caused' /\ AckedDelivered'
  BY <1>1, <1>2 DEF IInv, Caused, AckedDelivered, Sent
<1> QED BY <1>3, <1>4, <1>5 DEF IInv

LEMMA NextSound == IInv /\ [Next]_vars => IInv'
<1> SUFFICES ASSUME IInv, [Next]_vars PROVE IInv'
  OBVIOUS
<1>1. CASE UNCHANGED vars
  BY <1>1 DEF vars, result, network, IInv, TypeOK, Caused, AckedDelivered, Sent
<1>2. CASE on_inject
  BY <1>2, InjectSound
<1>3. CASE PaceElapses \/ release_flow
  BY <1>3, WakeSound
<1>4. ASSUME NEW i \in Pkts, on_ack(i) PROVE IInv'
  BY <1>4, AckSound
<1>5. ASSUME NEW i \in Pkts, on_data_arrival(i) PROVE IInv'
  BY <1>5, ArrivalSound
<1>6. ASSUME NEW i \in Pkts, LoseData(i) \/ LoseAck(i) PROVE IInv'
  BY <1>6, LossSound
<1>7. ASSUME NEW i \in Pkts, NEW a \in Attempts, on_timeout(i, a) PROVE IInv'
  BY <1>7, TimeoutSound
<1> QED
  BY <1>1, <1>2, <1>3, <1>4, <1>5, <1>6, <1>7 DEF Next

(* The invariant holds in every state of every flow. *)
THEOREM Invariant == Spec => []IInv
  BY InitSound, NextSound, PTL DEF Spec

-----------------------------------------------------------------------------
(* Every variable of the transport stays in range: in_flight never goes    *)
(* below zero when a flag is cleared, and the attempt counter never        *)
(* reaches max_attempts.                                                   *)
THEOREM TypeCorrect == Spec => []TypeOK
<1>1. IInv => TypeOK
  BY DEF IInv
<1> QED BY <1>1, Invariant, PTL

(* The retransmission ring add_flow sizes at the window never overflows,   *)
(* and in_flight is exactly the number of packets flagged kInFlight.       *)
THEOREM WindowAlwaysHolds == Spec => []WindowHolds
<1>1. IInv => WindowHolds
  BY DEF IInv, Sound, Accounted, WindowHolds
<1> QED BY <1>1, Invariant, PTL

(* A packet in the ring was sent, is there once, and is not in flight.     *)
THEOREM RingAlwaysSound == Spec => []RingSound
<1>1. IInv => RingSound
  <2> SUFFICES ASSUME IInv PROVE RingSound
    OBVIOUS
  <2>1. Accounted(tx, flying) /\ flying \cap acked = {}
    BY DEF IInv, Sound, Tracked
  <2>2. flying \subseteq Sent /\ Ring \subseteq Sent /\ flying \cap Ring = {}
    BY <2>1 DEF Accounted, Ring, Sent
  <2>3. \A j, k \in 1 .. Len(tx.retx) : tx.retx[j] = tx.retx[k] => j = k
    BY <2>1 DEF Accounted
  <2> QED BY <2>1, <2>2, <2>3 DEF RingSound
<1> QED BY <1>1, Invariant, PTL

(* No pending timer is ever stale: on_timeout's comparison of attempts     *)
(* never has anything to reject.                                           *)
THEOREM OneTimerAlways == Spec => []OneTimer
<1>1. IInv => OneTimer
  BY DEF IInv, Sound, Timed, OneTimer
<1> QED BY <1>1, Invariant, PTL

(* Until the sender gives up, every packet sent is acked, or in flight     *)
(* with its timer running, or queued for retransmission.                   *)
THEOREM NeverOrphaned == Spec => []NoOrphan
<1>1. IInv => NoOrphan
  BY DEF IInv, Sound, Tracked, Timed, NoOrphan, Ring, Sent
<1> QED BY <1>1, Invariant, PTL

(* The sender only believes acked what the receiver holds.                 *)
THEOREM AcksAreHonest == Spec => []AckedDelivered
<1>1. IInv => AckedDelivered
  BY DEF IInv
<1> QED BY <1>1, Invariant, PTL

-----------------------------------------------------------------------------
(* The receiver's count: only an arrival moves it, and by the first copy.  *)
LEMMA ArrivalCounts ==
  ASSUME NEW i \in Pkts, IInv, CompleteMeansAll, on_data_arrival(i)
  PROVE  CompleteMeansAll'
<1>1. /\ delivered' = delivered \cup {i}
      /\ packets_delivered' = IF i \notin delivered THEN packets_delivered + 1
                              ELSE packets_delivered
      /\ complete' <=> complete \/ (i \notin delivered /\ packets_delivered' = packets_total)
  BY DEF on_data_arrival, Counts
<1>2. IsFiniteSet(Pkts) /\ Cardinality(Pkts) = packets_total
  <2> DEFINE b == packets_total - 1
  <2>1. b \in Int /\ 0 \in Int /\ (IF 0 > b THEN 0 ELSE b - 0 + 1) = packets_total
    OBVIOUS
  <2> HIDE DEF b
  <2>2. IsFiniteSet(0 .. b) /\ Cardinality(0 .. b) = IF 0 > b THEN 0 ELSE b - 0 + 1
    BY <2>1, FS_Interval
  <2> QED BY <2>1, <2>2 DEF b, Pkts
<1>3. delivered \subseteq Pkts /\ delivered' \subseteq Pkts
  BY <1>1 DEF IInv, TypeOK
<1>4. CASE i \in delivered
  <2>1. delivered' = delivered
    BY <1>1, <1>4
  <2> QED BY <1>1, <1>4, <2>1 DEF CompleteMeansAll
<1>5. CASE i \notin delivered
  <2>1. Cardinality(delivered') = Cardinality(delivered) + 1
    <3>1. IsFiniteSet(delivered)
      BY <1>2, <1>3, FS_Subset
    <3>2. Cardinality(delivered \cup {i}) = Cardinality(delivered) + 1
      BY <1>5, <3>1, FS_AddElement
    <3> QED BY <1>1, <3>2
  <2>2. packets_delivered' = Cardinality(delivered')
    BY <1>1, <1>5, <2>1 DEF CompleteMeansAll
  <2>3. ~complete
    BY <1>5 DEF CompleteMeansAll
  <2>4. Cardinality(delivered') = Cardinality(Pkts) <=> delivered' = Pkts
    <3>1. Cardinality(Pkts) = Cardinality(delivered') => Pkts = delivered'
      BY <1>2, <1>3, FS_Subset
    <3> QED BY <3>1
  <2>5. complete' <=> packets_delivered' = packets_total
    BY <1>1, <1>5, <2>3
  <2> QED BY <1>2, <2>2, <2>4, <2>5 DEF CompleteMeansAll
<1> QED BY <1>4, <1>5

LEMMA StepCounts == IInv /\ CompleteMeansAll /\ [Next]_vars => CompleteMeansAll'
<1> SUFFICES ASSUME IInv, CompleteMeansAll, [Next]_vars PROVE CompleteMeansAll'
  OBVIOUS
<1>1. CASE \E i \in Pkts : on_data_arrival(i)
  BY <1>1, ArrivalCounts
<1>2. CASE ~ \E i \in Pkts : on_data_arrival(i)
  <2>1. UNCHANGED <<delivered, result>>
    <3>1. CASE UNCHANGED vars
      BY <3>1 DEF vars
    <3>2. CASE on_inject \/ PaceElapses \/ release_flow
      BY <3>2 DEF on_inject, PaceElapses, release_flow
    <3>3. ASSUME NEW i \in Pkts, on_ack(i) \/ LoseData(i) \/ LoseAck(i)
          PROVE  UNCHANGED <<delivered, result>>
      BY <3>3 DEF on_ack, LoseData, LoseAck
    <3>4. ASSUME NEW i \in Pkts, NEW a \in Attempts, on_timeout(i, a)
          PROVE  UNCHANGED <<delivered, result>>
      BY <3>4 DEF on_timeout
    <3> QED BY <1>2, <3>1, <3>2, <3>3, <3>4 DEF Next
  <2> QED BY <2>1 DEF CompleteMeansAll, result
<1> QED BY <1>1, <1>2

(* Duplicates are not counted: the flow is complete exactly when every     *)
(* packet has arrived, whatever was retransmitted.                         *)
THEOREM CompleteWhenAllArrived == Spec => []CompleteMeansAll
<1>1. Init => CompleteMeansAll
  BY FS_EmptySet DEF Init, CompleteMeansAll, Pkts
<1> QED BY <1>1, StepCounts, Invariant, PTL DEF Spec

-----------------------------------------------------------------------------
(* No timer is armed, no new packet is taken and no copy enters the fabric. *)
Silent == /\ tx'.next_seq = tx.next_seq
          /\ \A i \in Pkts : /\ data'[i] <= data[i]
                             /\ \A a \in Attempts : timers'[i][a] <= timers[i][a]

(* try_send called on a failed sender does nothing. *)
LEMMA FailedSendsNothing ==
  ASSUME NEW t, NEW fl, NEW tm, NEW inj, t.failed, TrySend(t, fl, tm, inj)
  PROVE  tx' = t /\ timers' = tm /\ data' = data
  BY DEF TrySend, MaySend

LEMMA FailedStep ==
  ASSUME IInv, tx.failed, [Next]_vars PROVE Silent
<1>1. /\ data \in [Pkts -> Nat] /\ timers \in [Pkts -> [Attempts -> Nat]]
      /\ tx \in FlowTx
  BY DEF IInv, TypeOK
<1>2. ASSUME tx'.next_seq = tx.next_seq, data' = data, timers' = timers PROVE Silent
  BY <1>1, <1>2 DEF Silent
<1>3. CASE UNCHANGED vars
  BY <1>2, <1>3 DEF vars, network
<1>4. CASE PaceElapses \/ release_flow
  <2>1. tx'.next_seq = tx.next_seq
    BY <1>1, <1>4 DEF PaceElapses, release_flow, FlowTx
  <2> QED BY <1>2, <1>4, <2>1 DEF PaceElapses, release_flow, network
<1>5. CASE on_inject
  <2> DEFINE t == [tx EXCEPT !.send_scheduled = FALSE]
  <2>1. t.failed /\ t.next_seq = tx.next_seq
    BY <1>1 DEF FlowTx
  <2>2. TrySend(t, flying, timers, injects - 1)
    BY <1>5 DEF on_inject
  <2> HIDE DEF t
  <2>3. tx' = t /\ timers' = timers /\ data' = data
    BY <2>1, <2>2, FailedSendsNothing
  <2> QED BY <1>2, <2>1, <2>3
<1>6. ASSUME NEW i \in Pkts, on_ack(i) PROVE Silent
  <2>1. CASE DuplicateAck(i)
    BY <1>2, <2>1 DEF DuplicateAck
  <2>2. CASE FirstAck(i)
    <3> DEFINE t == Landed(tx, i)
    <3>1. t.failed /\ t.next_seq = tx.next_seq
      BY Landing DEF LandsSoundly
    <3>2. TrySend(t, flying \ {i}, timers, injects)
      BY <2>2 DEF FirstAck
    <3> HIDE DEF t
    <3>3. tx' = t /\ timers' = timers /\ data' = data
      BY <3>1, <3>2, FailedSendsNothing
    <3> QED BY <1>2, <3>1, <3>3
  <2> QED BY <1>6, <2>1, <2>2 DEF on_ack
<1>7. ASSUME NEW i \in Pkts, NEW a \in Attempts, on_timeout(i, a) PROVE Silent
  <2>1. Ignored(i, a)
    BY DEF Ignored
  <2>2. StaleTimer(i, a)
    BY <1>7, <2>1 DEF on_timeout, GiveUp, Retransmit
  <2>3. tx' = tx /\ data' = data /\ timers' = [timers EXCEPT ![i][a] = @ - 1]
    BY <2>2 DEF StaleTimer
  <2>4. \A j \in Pkts, b \in Attempts : timers'[j][b] <= timers[j][b]
    BY <1>1, <2>3
  <2> QED BY <1>1, <2>3, <2>4 DEF Silent
<1>8. ASSUME NEW i \in Pkts, on_data_arrival(i) \/ LoseData(i) \/ LoseAck(i) PROVE Silent
  <2>1. /\ tx' = tx /\ timers' = timers
        /\ data' = data \/ data' = [data EXCEPT ![i] = @ - 1]
    BY <1>8 DEF on_data_arrival, LoseData, LoseAck
  <2>2. \A j \in Pkts : data'[j] <= data[j]
    BY <1>1, <2>1
  <2> QED BY <1>1, <2>1, <2>2 DEF Silent
<1> QED BY <1>3, <1>4, <1>5, <1>6, <1>7, <1>8 DEF Next

(* After giving up the sender puts nothing on its NIC and starts no timer. *)
THEOREM FailedStaysSilent == Spec => FailedIsSilent
<1>1. IInv /\ [Next]_vars => [tx.failed => Silent]_vars
  BY FailedStep
<1> QED BY <1>1, Invariant, PTL DEF Spec, FailedIsSilent, Silent
-----------------------------------------------------------------------------
(* Wake-ups: the Inject events and the send_scheduled flag that says one   *)
(* is pending.                                                             *)

(* One Inject at most, the one send_scheduled announces or the first; and  *)
(* a flow that is not released has none and has sent nothing.              *)
Woken == /\ OneInject
         /\ ~released => injects = 0 /\ ~tx.send_scheduled /\ tx.next_seq = 0

-----------------------------------------------------------------------------
(* What a call of try_send, from sender state t with inj Injects pending,  *)
(* does to the wake-ups; and it takes back no packet.                      *)
Wakened(t, inj) ==
  /\ \/ tx'.send_scheduled = t.send_scheduled /\ injects' = inj
     \/ ~t.send_scheduled /\ tx'.send_scheduled /\ injects' = inj + 1
  /\ tx'.next_seq >= t.next_seq

LEMMA TrySendWakes ==
  ASSUME NEW t, NEW fl, NEW tm, NEW inj, t.send_scheduled \in BOOLEAN,
         t.next_seq \in Nat, TrySend(t, fl, tm, inj)
  PROVE  Wakened(t, inj)
<1>1. CASE ~MaySend(t)
  BY <1>1 DEF TrySend, Wakened
<1>2. CASE MaySend(t)
  <2>1. PICK p \in 0 .. Len(t.retx), m \in 0 .. packets_total - t.next_seq :
          SendBatch(t, fl, tm, inj, p, m)
    BY <1>2 DEF TrySend
  <2> DEFINE u == [next_seq |-> t.next_seq + m,
                   in_flight |-> t.in_flight + Sends(t, acked', p, m),
                   retx |-> SubSeq(t.retx, p + 1, Len(t.retx)),
                   gated |-> IF Batch(t, acked', p, m) = {} THEN t.gated ELSE Paced,
                   send_scheduled |-> t.send_scheduled,
                   failed |-> t.failed]
  <2>2. /\ tx' = [u EXCEPT !.send_scheduled = @ \/ Wakes(u)]
        /\ injects' = IF Wakes(u) THEN inj + 1 ELSE inj
    BY <2>1 DEF SendBatch
  <2>3. /\ tx'.send_scheduled = (t.send_scheduled \/ Wakes(u))
        /\ tx'.next_seq >= t.next_seq
    BY <2>2
  <2>4. Wakes(u) => ~t.send_scheduled
    BY DEF Wakes
  <2> HIDE DEF u
  <2>5. CASE Wakes(u)
    BY <2>2, <2>3, <2>4, <2>5 DEF Wakened
  <2>6. CASE ~Wakes(u)
    BY <2>2, <2>3, <2>6 DEF Wakened
  <2> QED BY <2>5, <2>6
<1> QED BY <1>1, <1>2

(* A call of try_send that leaves no Inject pending has filled the window  *)
(* or run out of packets.                                                  *)
Exhausted(t) == t.in_flight = Window \/ (t.retx = <<>> /\ t.next_seq = packets_total)

LEMMA SendsUntilExhausted ==
  ASSUME NEW t, NEW fl, NEW tm, NEW inj \in Nat,
         Accounted(t, fl), acked' \subseteq 0 .. t.next_seq - 1,
         t.send_scheduled => inj > 0,
         TrySend(t, fl, tm, inj), injects' = 0, ~tx'.failed
  PROVE  Exhausted(tx')
<1>1. PICK p \in 0 .. Len(t.retx), m \in 0 .. packets_total - t.next_seq :
        Stops(t, acked', p, m) /\ SendBatch(t, fl, tm, inj, p, m)
  <2>1. MaySend(t)
    BY DEF TrySend, MaySend
  <2> QED BY <2>1 DEF TrySend
<1> DEFINE S == Batch(t, acked', p, m)
           n == Sends(t, acked', p, m)
           rest == SubSeq(t.retx, p + 1, Len(t.retx))
           u == [next_seq |-> t.next_seq + m, in_flight |-> t.in_flight + n,
                 retx |-> rest, gated |-> IF S = {} THEN t.gated ELSE Paced,
                 send_scheduled |-> t.send_scheduled, failed |-> t.failed]
<1>2. /\ t.next_seq \in Nat /\ t.next_seq <= packets_total /\ t.in_flight \in Nat
      /\ t.retx \in Seq(Pkts) /\ t.gated \in BOOLEAN /\ t.send_scheduled \in BOOLEAN
  BY DEF Accounted, FlowTx
<1>3. BatchFits(t, fl, acked', p, m)
  BY <1>1, BatchProperties
<1>4. n \in Nat /\ (S = {} <=> n = 0) /\ t.in_flight + n <= Window
  <2>1. /\ IsFiniteSet(S) /\ Cardinality(S) = n /\ n \in Nat
        /\ t.in_flight + n + (Len(t.retx) - p) <= Window
    BY <1>3 DEF BatchFits
  <2> HIDE DEF S, n
  <2>2. Len(t.retx) - p >= 0 /\ Len(t.retx) - p \in Int
    BY <1>2
  <2>3. S = {} <=> n = 0
    BY <2>1, FS_EmptySet
  <2>4. t.in_flight + n <= Window
    BY <1>2, <2>1, <2>2, WindowType
  <2> QED BY <2>1, <2>3, <2>4
<1>5. /\ tx' = [u EXCEPT !.send_scheduled = @ \/ Wakes(u)]
      /\ injects' = IF Wakes(u) THEN inj + 1 ELSE inj
  BY <1>1 DEF SendBatch
<1>6. /\ tx'.next_seq = t.next_seq + m /\ tx'.in_flight = t.in_flight + n
      /\ tx'.retx = rest
  BY <1>5
<1>7. ~(t.in_flight + n < Window /\ (IF S = {} THEN t.gated ELSE Paced) /\ ~t.send_scheduled)
  <2>1. ~Wakes(u)
    BY <1>5
  <2> QED BY <2>1 DEF Wakes
<1>8. ~t.send_scheduled
  <2>1. injects' = inj \/ injects' = inj + 1
    BY <1>5
  <2> QED BY <2>1
<1>9. CASE t.in_flight + n = Window
  BY <1>6, <1>9 DEF Exhausted
<1>10. CASE t.in_flight + n < Window
  <2>1. ~(IF S = {} THEN t.gated ELSE Paced)
    BY <1>7, <1>8, <1>10
  <2>2. n < Quota(t)
    <3>1. n <= Quota(t)
      BY <1>1 DEF Stops
    <3>2. ~t.gated
      <4>1. t.gated => Quota(t) = 0
        BY DEF Quota
      <4> HIDE DEF S, n
      <4>2. t.gated => S = {}
        BY <1>4, <3>1, <4>1
      <4> QED BY <2>1, <4>2
    <3>3. ~(t.in_flight >= Window)
      BY <1>2, <1>4, <1>10, WindowType
    <3>4. Quota(t) = IF Paced THEN 1 ELSE Window - t.in_flight
      BY <3>2, <3>3 DEF Quota
    <3>5. CASE Paced
      BY <1>4, <2>1, <3>4, <3>5
    <3>6. CASE ~Paced
      BY <1>2, <1>4, <1>10, <3>4, <3>6, WindowType
    <3> QED BY <3>5, <3>6
  <2>3. p = Len(t.retx) /\ m = packets_total - t.next_seq
    BY <1>1, <2>2 DEF Stops
  <2>4. rest = <<>> /\ t.next_seq + m = packets_total
    <3>1. t.next_seq + m = packets_total
      BY <1>2, <2>3
    <3>2. SubSeq(t.retx, Len(t.retx) + 1, Len(t.retx)) = <<>>
      BY <1>2
    <3> QED BY <2>3, <3>1, <3>2
  <2> QED BY <1>6, <2>4 DEF Exhausted
<1> QED BY <1>2, <1>4, <1>9, <1>10, WindowType

-----------------------------------------------------------------------------
(* Acks and timeouts reach a sender only after it has sent, so the Inject  *)
(* they find pending is the one send_scheduled announces.                  *)
LEMMA SentByThen ==
  ASSUME IInv, Woken, NEW i \in Sent
  PROVE  /\ released /\ injects \in Nat /\ tx.next_seq \in Nat /\ tx.next_seq > 0
         /\ tx.send_scheduled \in BOOLEAN
         /\ injects = IF tx.send_scheduled THEN 1 ELSE 0
<1>1. injects \in Nat /\ tx.next_seq \in Nat /\ tx.send_scheduled \in BOOLEAN
  BY DEF IInv, TypeOK, FlowTx
<1>2. tx.next_seq > 0
  BY <1>1 DEF Sent
<1> QED BY <1>1, <1>2 DEF Woken, OneInject

(* A handler that answers an ack or a timeout by sending. *)
LEMMA AnswerWakes ==
  ASSUME IInv, Woken, NEW i \in Sent, IInv', released' = released,
         NEW t, NEW fl, NEW tm,
         t.send_scheduled = tx.send_scheduled, t.next_seq = tx.next_seq,
         Accounted(t, fl), acked' \subseteq 0 .. t.next_seq - 1,
         TrySend(t, fl, tm, injects)
  PROVE  Woken' /\ NoStall'
<1>1. /\ released /\ injects \in Nat /\ tx.next_seq \in Nat /\ tx.next_seq > 0
      /\ tx.send_scheduled \in BOOLEAN
      /\ injects = IF tx.send_scheduled THEN 1 ELSE 0
  BY SentByThen
<1>2. Wakened(t, injects)
  BY <1>1, TrySendWakes
<1>3. tx'.next_seq \in Nat /\ tx'.next_seq > 0 /\ tx'.send_scheduled \in BOOLEAN
  BY <1>1, <1>2 DEF Wakened, IInv, TypeOK, FlowTx
<1>4. injects' = IF tx'.send_scheduled THEN 1 ELSE 0
  BY <1>1, <1>2 DEF Wakened
<1>5. Woken'
  BY <1>1, <1>3, <1>4 DEF Woken, OneInject
<1>6. ASSUME ~tx'.failed, injects' = 0 PROVE Exhausted(tx')
  <2>1. t.send_scheduled => injects > 0
    BY <1>1
  <2> QED BY <1>1, <1>6, <2>1, SendsUntilExhausted
<1> QED BY <1>5, <1>6 DEF NoStall, Exhausted

LEMMA InjectWakes ==
  ASSUME IInv, Woken, on_inject, IInv' PROVE Woken' /\ NoStall'
<1> DEFINE t == [tx EXCEPT !.send_scheduled = FALSE]
<1>1. /\ t \in FlowTx /\ t.next_seq = tx.next_seq /\ t.in_flight = tx.in_flight
      /\ t.retx = tx.retx /\ t.failed = tx.failed /\ t.next_seq \in Nat
      /\ t.send_scheduled = FALSE
  BY DEF IInv, TypeOK, FlowTx
<1>2. /\ TrySend(t, flying, timers, injects - 1) /\ injects = 1
      /\ acked' = acked /\ released' = released
  BY DEF on_inject, IInv, TypeOK, Woken, OneInject
<1>3. injects - 1 = 0
  BY <1>2
<1> HIDE DEF t
<1>4. Accounted(t, flying) /\ acked' \subseteq 0 .. t.next_seq - 1
  BY <1>1, <1>2 DEF IInv, Sound, Accounted, Tracked
<1>5. Wakened(t, injects - 1)
  <2>1. t.send_scheduled \in BOOLEAN
    BY <1>1
  <2> QED BY <1>1, <1>2, <2>1, TrySendWakes
<1>6. released'
  BY <1>2 DEF Woken
<1>7. injects' = IF tx'.send_scheduled THEN 1 ELSE 0
  BY <1>1, <1>3, <1>5 DEF Wakened
<1>8. Woken'
  BY <1>6, <1>7 DEF Woken, OneInject
<1>9. ASSUME ~tx'.failed, injects' = 0 PROVE Exhausted(tx')
  BY <1>1, <1>2, <1>3, <1>4, <1>9, SendsUntilExhausted
<1> QED BY <1>8, <1>9 DEF NoStall, Exhausted

LEMMA AckWakes ==
  ASSUME IInv, Woken, NoStall, NEW i \in Pkts, on_ack(i), IInv'
  PROVE  Woken' /\ NoStall'
<1>1. released' = released /\ i \in Sent
  <2>1. acks[i] > 0
    BY DEF on_ack
  <2>2. i \in delivered /\ delivered \subseteq Sent
    BY <2>1 DEF IInv, AckedDelivered, Caused
  <2> QED BY <2>2 DEF on_ack
<1>2. CASE DuplicateAck(i)
  <2>1. tx' = tx /\ injects' = injects
    BY <1>2 DEF DuplicateAck
  <2> QED BY <1>1, <2>1 DEF Woken, OneInject, NoStall
<1>3. CASE FirstAck(i)
  <2> DEFINE t == Landed(tx, i)
  <2>1. t.send_scheduled = tx.send_scheduled /\ t.next_seq = tx.next_seq
        /\ Accounted(t, flying \ {i})
    <3>1. tx \in FlowTx
      BY DEF IInv, TypeOK
    <3>2. t.send_scheduled = tx.send_scheduled
      BY <3>1 DEF Landed, FlowTx
    <3> QED BY <3>2, Landing DEF LandsSoundly
  <2>2. TrySend(t, flying \ {i}, timers, injects) /\ acked' = acked \cup {i}
    BY <1>3 DEF FirstAck, AckedBy
  <2> HIDE DEF t
  <2>3. acked' \subseteq 0 .. t.next_seq - 1
    BY <1>1, <2>1, <2>2 DEF IInv, Sound, Tracked, Sent
  <2> QED BY <1>1, <2>1, <2>2, <2>3, AnswerWakes
<1> QED BY <1>2, <1>3 DEF on_ack

LEMMA TimeoutWakes ==
  ASSUME IInv, Woken, NoStall, NEW i \in Pkts, NEW a \in Attempts, on_timeout(i, a), IInv'
  PROVE  Woken' /\ NoStall'
<1>1. released' = released /\ timers[i][a] > 0
  BY DEF on_timeout
<1>2. CASE StaleTimer(i, a)
  <2>1. tx' = tx /\ injects' = injects
    BY <1>2 DEF StaleTimer
  <2> QED BY <1>1, <2>1 DEF Woken, OneInject, NoStall
<1>3. CASE GiveUp(i, a)
  <2>1. /\ tx'.failed /\ injects' = injects
        /\ tx'.next_seq = tx.next_seq /\ tx'.send_scheduled = tx.send_scheduled
    <3>1. tx \in FlowTx
      BY DEF IInv, TypeOK
    <3>2. /\ Landed(tx, i) \in FlowTx /\ Landed(tx, i).next_seq = tx.next_seq
          /\ Landed(tx, i).send_scheduled = tx.send_scheduled
      <4>1. Landed(tx, i).send_scheduled = tx.send_scheduled
        BY <3>1 DEF Landed, FlowTx
      <4> QED BY <4>1, Landing DEF LandsSoundly, Accounted
    <3>3. tx' = [Landed(tx, i) EXCEPT !.failed = TRUE] /\ injects' = injects
      BY <1>3 DEF GiveUp
    <3> QED BY <3>2, <3>3 DEF FlowTx
  <2> QED BY <1>1, <2>1 DEF Woken, OneInject, NoStall
<1>4. CASE Retransmit(i, a)
  <2> DEFINE t == [Landed(tx, i) EXCEPT !.retx = Append(@, i)]
             tm == [timers EXCEPT ![i][a] = @ - 1]
  <2>1. /\ acked' = acked /\ TrySend(t, flying \ {i}, tm, injects)
        /\ i \notin acked /\ attempt[i] = a /\ ~tx.failed
    BY <1>4 DEF Retransmit, Ignored
  <2>2. i \in flying /\ i \in Sent
    BY <1>1, <2>1 DEF IInv, Sound, Timed, Accounted, Sent
  <2>3. t.next_seq = tx.next_seq /\ Accounted(t, flying \ {i})
    <3>1. RequeuesSoundly(i)
      BY <2>2, Requeueing
    <3> QED BY <3>1 DEF RequeuesSoundly
  <2>4. t.send_scheduled = tx.send_scheduled
    <3>1. tx \in FlowTx
      BY DEF IInv, TypeOK
    <3>2. Landed(tx, i).send_scheduled = tx.send_scheduled
      BY <3>1 DEF Landed, FlowTx
    <3>3. Landed(tx, i) \in FlowTx
      BY Landing DEF LandsSoundly, Accounted
    <3> HIDE DEF Landed
    <3> QED BY <3>2, <3>3 DEF FlowTx
  <2> HIDE DEF t, tm
  <2>5. acked' \subseteq 0 .. t.next_seq - 1
    BY <2>1, <2>3 DEF IInv, Sound, Tracked
  <2> QED BY <1>1, <2>1, <2>2, <2>3, <2>4, <2>5, AnswerWakes
<1> QED BY <1>2, <1>3, <1>4 DEF on_timeout

(* The other steps move no packet of the sender. *)
LEMMA OthersWake ==
  ASSUME IInv, Woken, NoStall,
         \/ UNCHANGED vars \/ PaceElapses \/ release_flow
         \/ \E i \in Pkts : on_data_arrival(i) \/ LoseData(i) \/ LoseAck(i)
  PROVE  Woken' /\ NoStall'
<1>1. tx \in FlowTx /\ injects \in Nat
  BY DEF IInv, TypeOK
<1>2. CASE release_flow
  <2>1. tx' = tx /\ injects' = injects + 1 /\ released' /\ ~released
    BY <1>2 DEF release_flow
  <2> QED BY <1>1, <2>1 DEF Woken, OneInject, NoStall
<1>3. CASE ~release_flow
  <2>1. /\ tx'.next_seq = tx.next_seq /\ tx'.in_flight = tx.in_flight
        /\ tx'.retx = tx.retx /\ tx'.failed = tx.failed
        /\ tx'.send_scheduled = tx.send_scheduled
        /\ injects' = injects /\ released' = released
    <3>1. CASE PaceElapses
      <4>1. tx' = [tx EXCEPT !.gated = FALSE] /\ injects' = injects /\ released' = released
        BY <3>1 DEF PaceElapses
      <4> QED BY <1>1, <4>1 DEF FlowTx
    <3>2. CASE ~PaceElapses
      <4>1. tx' = tx /\ injects' = injects /\ released' = released
        BY <1>3, <3>2 DEF vars, on_data_arrival, LoseData, LoseAck
      <4> QED BY <4>1
    <3> QED BY <3>1, <3>2
  <2> QED BY <2>1 DEF Woken, OneInject, NoStall
<1> QED BY <1>2, <1>3

LEMMA StartWoken == Init => Woken /\ NoStall
  BY DEF Init, Woken, OneInject, NoStall

LEMMA StepWoken == IInv /\ Woken /\ NoStall /\ [Next]_vars => Woken' /\ NoStall'
<1> SUFFICES ASSUME IInv, Woken, NoStall, [Next]_vars PROVE Woken' /\ NoStall'
  OBVIOUS
<1>1. IInv'
  BY NextSound
<1>2. CASE on_inject
  BY <1>1, <1>2, InjectWakes
<1>3. ASSUME NEW i \in Pkts, on_ack(i) PROVE Woken' /\ NoStall'
  BY <1>1, <1>3, AckWakes
<1>4. ASSUME NEW i \in Pkts, NEW a \in Attempts, on_timeout(i, a) PROVE Woken' /\ NoStall'
  BY <1>1, <1>4, TimeoutWakes
<1>5. CASE \/ UNCHANGED vars \/ PaceElapses \/ release_flow
           \/ \E i \in Pkts : on_data_arrival(i) \/ LoseData(i) \/ LoseAck(i)
  BY <1>5, OthersWake
<1> QED BY <1>2, <1>3, <1>4, <1>5 DEF Next

(* At most one Inject is pending, and send_scheduled is set exactly while  *)
(* it is one that try_send pushed: no wake-up is lost or multiplied.       *)
THEOREM OneInjectAlways == Spec => []OneInject
<1>1. Woken => OneInject
  BY DEF Woken
<1> QED BY <1>1, StartWoken, StepWoken, Invariant, PTL DEF Spec

(* A released sender with room in its window and something to send has a   *)
(* wake-up pending: neither the gate nor the window ever strands it.       *)
THEOREM NeverStalls == Spec => []NoStall
  BY StartWoken, StepWoken, Invariant, PTL DEF Spec

-----------------------------------------------------------------------------
(* Transport implements SlidingWindow.  A call of try_send is a Send, the  *)
(* first ack of a packet an Ack, the first copy to arrive a Deliver, the   *)
(* last timeout a GiveUp, and the rest of what happens is invisible.       *)

(* The entries of a sequence are no more than its length. *)
LEMMA Entries ==
  ASSUME NEW T, NEW s \in Seq(T)
  PROVE  LET E == {s[k] : k \in 1 .. Len(s)}
         IN  IsFiniteSet(E) /\ Cardinality(E) <= Len(s)
<1>1. Len(s) \in Nat
  OBVIOUS
<1>2. IsFiniteSet(1 .. Len(s)) /\ Cardinality(1 .. Len(s)) = Len(s)
  <2>1. \A n \in Nat : (IF 1 > n THEN 0 ELSE n - 1 + 1) = n /\ 1 \in Int /\ n \in Int
    OBVIOUS
  <2> DEFINE n == Len(s)
  <2>2. n \in Nat
    BY <1>1
  <2> HIDE DEF n
  <2>3. IsFiniteSet(1 .. n) /\ Cardinality(1 .. n) = IF 1 > n THEN 0 ELSE n - 1 + 1
    BY <2>1, <2>2, FS_Interval
  <2>4. IsFiniteSet(1 .. n) /\ Cardinality(1 .. n) = n
    BY <2>1, <2>2, <2>3
  <2> QED BY <2>4 DEF n
<1> DEFINE f == [k \in 1 .. Len(s) |-> s[k]]
           E == {s[k] : k \in 1 .. Len(s)}
<1>3. f \in Surjection(1 .. Len(s), E)
  <2>1. f \in [1 .. Len(s) -> E] /\ \A e \in E : \E k \in 1 .. Len(s) : f[k] = e
    OBVIOUS
  <2> QED BY <2>1 DEF Surjection
<1> HIDE DEF E, f
<1>4. IsFiniteSet(E) /\ Cardinality(E) <= Cardinality(1 .. Len(s))
  BY <1>2, <1>3, FS_Surjection
<1> QED BY <1>2, <1>4 DEF E

(* A packet sent and not acked is in flight or in the ring, so a sender    *)
(* that has not failed has no more of them than its window.                *)
LEMMA WindowOfOutstanding ==
  ASSUME NEW t, NEW fl, NEW A, Accounted(t, fl), Tracked(t, fl, A), ~t.failed
  PROVE  Contract!Outstanding(t.next_seq, A) <= Window
<1> DEFINE R == {t.retx[k] : k \in 1 .. Len(t.retx)}
           O == (0 .. t.next_seq - 1) \ A
<1>1. /\ t.next_seq \in Nat /\ t.in_flight \in Nat /\ t.retx \in Seq(Pkts)
      /\ Len(t.retx) \in Nat
  <2>1. t.next_seq \in Nat /\ t.in_flight \in Nat /\ t.retx \in Seq(Pkts)
    BY DEF Accounted, FlowTx
  <2> QED BY <2>1
<1>2. IsFiniteSet(R) /\ Cardinality(R) <= Len(t.retx)
  BY <1>1, Entries
<1>3. IsFiniteSet(fl) /\ Cardinality(fl) = t.in_flight
  <2>1. fl \subseteq 0 .. t.next_seq - 1 /\ Cardinality(fl) = t.in_flight
    BY DEF Accounted
  <2>2. IsFiniteSet(0 .. t.next_seq - 1)
    BY <1>1, PrefixFinite
  <2> QED BY <2>1, <2>2, FS_Subset
<1>4. O \subseteq fl \cup R
  BY DEF Tracked
<1> HIDE DEF R, O
<1>5. /\ IsFiniteSet(fl \cup R)
      /\ Cardinality(fl \cup R) = Cardinality(fl) + Cardinality(R) - Cardinality(fl \cap R)
  BY <1>2, <1>3, FS_Union
<1>6. Cardinality(O) <= Cardinality(fl \cup R)
  BY <1>4, <1>5, FS_Subset
<1>7. /\ Cardinality(O) \in Nat /\ Cardinality(R) \in Nat /\ Cardinality(fl \cap R) \in Nat
  <2>1. IsFiniteSet(O) /\ IsFiniteSet(fl \cap R)
    BY <1>3, <1>4, <1>5, FS_Subset
  <2> QED BY <1>2, <2>1, FS_CardinalityType
<1>8. t.in_flight + Len(t.retx) <= Window
  BY DEF Accounted
<1>9. Cardinality(O) <= Window
  BY <1>1, <1>2, <1>3, <1>5, <1>6, <1>7, <1>8, WindowType
<1>10. Contract!Outstanding(t.next_seq, A) = Cardinality(O)
  BY Zenon DEF O, Contract!Outstanding, Contract!Cardinality, Cardinality
<1> QED BY <1>9, <1>10

-----------------------------------------------------------------------------
(* A call of try_send as the contract sees it. *)
LEMMA TrySendAdvances ==
  ASSUME NEW t, NEW fl, NEW tm, NEW inj, t.next_seq \in Nat, t.failed = tx.failed,
         t.next_seq = tx.next_seq, TrySend(t, fl, tm, inj)
  PROVE  /\ tx'.failed = tx.failed /\ tx'.next_seq >= tx.next_seq
         /\ tx'.next_seq > tx.next_seq => ~tx.failed
<1>1. CASE ~MaySend(t)
  BY <1>1 DEF TrySend
<1>2. CASE MaySend(t)
  <2>1. PICK p \in 0 .. Len(t.retx), m \in 0 .. packets_total - t.next_seq :
          SendBatch(t, fl, tm, inj, p, m)
    BY <1>2 DEF TrySend
  <2>2. tx'.failed = t.failed /\ tx'.next_seq = t.next_seq + m
    BY <2>1 DEF SendBatch
  <2> QED BY <1>2, <2>2 DEF MaySend
<1> QED BY <1>1, <1>2

(* Wherever a call of try_send leaves the sender, the contract allows it. *)
LEMMA SenderAdvances ==
  ASSUME IInv, IInv', NEW t, NEW fl, NEW tm, NEW inj, t.failed = tx.failed,
         t.next_seq = tx.next_seq, TrySend(t, fl, tm, inj)
  PROVE  tx'.failed = tx.failed /\ Contract!Advance(acked')
<1>1. /\ tx.next_seq \in Nat /\ tx'.next_seq \in Nat /\ tx'.next_seq <= packets_total
  BY DEF IInv, TypeOK, FlowTx
<1>2. /\ tx'.failed = tx.failed /\ tx'.next_seq >= tx.next_seq
      /\ tx'.next_seq > tx.next_seq => ~tx.failed
  BY <1>1, TrySendAdvances
<1>3. ASSUME ~tx'.failed PROVE Contract!Outstanding(tx'.next_seq, acked') <= Window
  <2>1. Accounted(tx', flying') /\ Tracked(tx', flying', acked')
    BY DEF IInv, Sound
  <2> QED BY <1>3, <2>1, WindowOfOutstanding
<1>4. tx'.next_seq \in tx.next_seq .. packets_total
  BY <1>1, <1>2
<1> QED BY <1>2, <1>3, <1>4 DEF Contract!Advance

LEMMA StartRefines == Init => Contract!Init
  BY DEF Init, Contract!Init

Refined == Contract!Next \/ UNCHANGED Contract!vars

LEMMA InjectRefines == ASSUME IInv, IInv', on_inject PROVE Refined
<1> DEFINE t == [tx EXCEPT !.send_scheduled = FALSE]
<1>1. t.failed = tx.failed /\ t.next_seq = tx.next_seq
  BY DEF IInv, TypeOK, FlowTx
<1>2. TrySend(t, flying, timers, injects - 1) /\ acked' = acked
      /\ UNCHANGED <<delivered, complete>>
  BY DEF on_inject, result
<1> HIDE DEF t
<1>3. tx'.failed = tx.failed /\ Contract!Advance(acked)
  BY <1>1, <1>2, SenderAdvances
<1>4. Contract!Send
  BY <1>2, <1>3 DEF Contract!Send
<1> QED BY <1>4 DEF Refined, Contract!Next

LEMMA AckRefines == ASSUME IInv, IInv', NEW i \in Pkts, on_ack(i) PROVE Refined
<1>1. i \in delivered /\ UNCHANGED <<delivered, complete>>
  BY DEF on_ack, result, IInv, AckedDelivered
<1>2. CASE DuplicateAck(i)
  BY <1>1, <1>2 DEF DuplicateAck, Refined, Contract!vars
<1>3. CASE FirstAck(i)
  <2> DEFINE t == Landed(tx, i)
  <2>1. t.failed = tx.failed /\ t.next_seq = tx.next_seq
    BY Landing DEF LandsSoundly
  <2>2. TrySend(t, flying \ {i}, timers, injects) /\ acked' = acked \cup {i} /\ i \notin acked
    BY <1>3 DEF FirstAck, AckedBy
  <2> HIDE DEF t
  <2>3. tx'.failed = tx.failed /\ Contract!Advance(acked \cup {i})
    BY <2>1, <2>2, SenderAdvances
  <2>4. Contract!Ack
    BY <1>1, <2>2, <2>3 DEF Contract!Ack
  <2> QED BY <2>4 DEF Refined, Contract!Next
<1> QED BY <1>2, <1>3 DEF on_ack

LEMMA TimeoutRefines ==
  ASSUME IInv, IInv', NEW i \in Pkts, NEW a \in Attempts, on_timeout(i, a) PROVE Refined
<1>1. UNCHANGED <<delivered, complete>> /\ timers[i][a] > 0
  BY DEF on_timeout, result
<1>2. CASE StaleTimer(i, a)
  BY <1>1, <1>2 DEF StaleTimer, Refined, Contract!vars
<1>3. CASE GiveUp(i, a)
  <2>1. LandsSoundly(i)
    BY Landing
  <2>2. tx' = [Landed(tx, i) EXCEPT !.failed = TRUE] /\ acked' = acked
        /\ i \notin acked /\ ~tx.failed
    BY <1>3 DEF GiveUp, Ignored
  <2>3. tx'.failed = TRUE /\ tx'.next_seq = tx.next_seq
    BY <2>1, <2>2 DEF LandsSoundly, Accounted, FlowTx
  <2>4. acked # Contract!All
    BY <2>2 DEF Contract!All, Pkts
  <2>5. Contract!GiveUp
    BY <1>1, <2>2, <2>3, <2>4 DEF Contract!GiveUp
  <2> QED BY <2>5 DEF Refined, Contract!Next
<1>4. CASE Retransmit(i, a)
  <2> DEFINE t == [Landed(tx, i) EXCEPT !.retx = Append(@, i)]
             tm == [timers EXCEPT ![i][a] = @ - 1]
  <2>1. /\ acked' = acked /\ TrySend(t, flying \ {i}, tm, injects)
        /\ i \notin acked /\ attempt[i] = a /\ ~tx.failed
    BY <1>4 DEF Retransmit, Ignored
  <2>2. i \in flying
    BY <1>1, <2>1 DEF IInv, Sound, Timed
  <2>3. t.next_seq = tx.next_seq /\ t.failed = tx.failed
    BY <2>2, Requeueing DEF RequeuesSoundly
  <2> HIDE DEF t, tm
  <2>4. tx'.failed = tx.failed /\ Contract!Advance(acked)
    BY <2>1, <2>3, SenderAdvances
  <2>5. Contract!Send
    BY <1>1, <2>1, <2>4 DEF Contract!Send
  <2> QED BY <2>5 DEF Refined, Contract!Next
<1> QED BY <1>2, <1>3, <1>4 DEF on_timeout

LEMMA ArrivalRefines ==
  ASSUME IInv, CompleteMeansAll', NEW i \in Pkts, on_data_arrival(i) PROVE Refined
<1>1. /\ tx' = tx /\ acked' = acked /\ delivered' = delivered \cup {i} /\ data[i] > 0
      /\ complete' = (complete \/ (Counts(i) /\ packets_delivered' = packets_total))
  BY DEF on_data_arrival
<1>2. complete \in BOOLEAN /\ complete' \in BOOLEAN
  BY <1>1 DEF IInv, TypeOK
<1>3. CASE i \in delivered
  <2>1. delivered' = delivered /\ complete' = complete
    BY <1>1, <1>2, <1>3 DEF Counts
  <2> QED BY <1>1, <2>1 DEF Refined, Contract!vars
<1>4. CASE i \notin delivered
  <2>1. i \in Contract!Sent
    BY <1>1 DEF IInv, Caused, Sent, Contract!Sent
  <2>2. complete' = (delivered' = Contract!All)
    BY <1>2 DEF CompleteMeansAll, Contract!All, Pkts
  <2>3. Contract!Deliver
    BY <1>1, <1>4, <2>1, <2>2 DEF Contract!Deliver
  <2> QED BY <2>3 DEF Refined, Contract!Next
<1> QED BY <1>3, <1>4

LEMMA StepRefines ==
  ASSUME IInv, IInv', CompleteMeansAll', [Next]_vars PROVE Refined
<1>1. CASE UNCHANGED vars
  BY <1>1 DEF vars, result, Refined, Contract!vars
<1>2. CASE on_inject
  BY <1>2, InjectRefines
<1>3. CASE PaceElapses \/ release_flow
  <2>1. tx'.next_seq = tx.next_seq /\ tx'.failed = tx.failed
    BY <1>3 DEF PaceElapses, release_flow, IInv, TypeOK, FlowTx
  <2> QED BY <1>3, <2>1 DEF PaceElapses, release_flow, result, Refined, Contract!vars
<1>4. ASSUME NEW i \in Pkts, on_ack(i) PROVE Refined
  BY <1>4, AckRefines
<1>5. ASSUME NEW i \in Pkts, NEW a \in Attempts, on_timeout(i, a) PROVE Refined
  BY <1>5, TimeoutRefines
<1>6. ASSUME NEW i \in Pkts, on_data_arrival(i) PROVE Refined
  BY <1>6, ArrivalRefines
<1>7. ASSUME NEW i \in Pkts, LoseData(i) \/ LoseAck(i) PROVE Refined
  BY <1>7 DEF LoseData, LoseAck, result, Refined, Contract!vars
<1> QED BY <1>1, <1>2, <1>3, <1>4, <1>5, <1>6, <1>7 DEF Next

(* Sender, receiver and fabric together are a sliding window: never more   *)
(* than Window packets outstanding, completion exactly when all have       *)
(* arrived, and nothing sent after the sender gives up (Simulation's       *)
(* try_send, on_ack, on_timeout and on_data_arrival).                      *)
THEOREM ImplementsSlidingWindow == Spec => SlidesTheWindow
<1>1. IInv /\ IInv' /\ CompleteMeansAll' /\ [Next]_vars => [Contract!Next]_(Contract!vars)
  BY StepRefines DEF Refined
<1> QED
  BY <1>1, StartRefines, Invariant, CompleteWhenAllArrived, PTL
  DEF Spec, SlidesTheWindow, Contract!Spec
=============================================================================
