----------------------------- MODULE RunProofs ------------------------------
(***************************************************************************)
(* More theorems about the runs of Simulation: every port is a drop-tail   *)
(* link (PortsRefine), a flow that loses and resends nothing is received   *)
(* in order (OrderKept), and the percentiles reported of a run are those   *)
(* of the definition (PercentilesRight).                                   *)
(*                                                                         *)
(* LinkOf is what DropTailLink sees of a port and Lane the packets in it,  *)
(* oldest first; a handler is described by the one thing it does to a      *)
(* lane: Joins at the end, leaves at the head, or nothing.  The data of a  *)
(* flow takes the same port out of a switch every time (Hop), so the       *)
(* lanes on its path are one queue, and Ordered says that the lower index  *)
(* is ahead in it.                                                         *)
(*                                                                         *)
(* Of the percentiles, sorting is ranking: the places 0 to n - 1 are taken *)
(* by one flow each, and as many flows come before a flow as its place     *)
(* says.                                                                   *)
(***************************************************************************)
EXTENDS SimulationProofs, Validation

-----------------------------------------------------------------------------
(* The events of a set in the order they will be handled *)

Ranked(S) == /\ IsFiniteSet(S)
             /\ \A e \in S : e.time \in Nat /\ e.seq \in Nat
             /\ \A d, e \in S : d.seq = e.seq => d = e

Behind(S, e) == {x \in S : Before(x, e)}

Rank(S, e) == Cardinality(Behind(S, e))

LEMMA BeforeOrders ==
  ASSUME NEW S, Ranked(S), NEW x \in S, NEW y \in S
  PROVE  /\ ~Before(x, x)
         /\ x = y \/ Before(x, y) \/ Before(y, x)
         /\ Before(x, y) => ~Before(y, x)
         /\ \A z \in S : Before(x, y) /\ Before(y, z) => Before(x, z)
<1>1. /\ x.time \in Nat /\ x.seq \in Nat /\ y.time \in Nat /\ y.seq \in Nat
      /\ x.seq = y.seq => x = y
      /\ \A z \in S : z.time \in Nat /\ z.seq \in Nat
  BY DEF Ranked
<1> QED BY <1>1 DEF Before

LEMMA RankType ==
  ASSUME NEW S, Ranked(S), NEW e \in S
  PROVE  /\ Rank(S, e) \in 0 .. Cardinality(S) - 1 /\ Cardinality(S) \in Nat
         /\ IsFiniteSet(Behind(S, e)) /\ Rank(S, e) \in Nat
<1>1. IsFiniteSet(S) /\ Cardinality(S) \in Nat
  BY FS_CardinalityType DEF Ranked
<1>2. Behind(S, e) \subseteq S /\ Behind(S, e) # S
  BY BeforeOrders DEF Behind
<1>3. /\ IsFiniteSet(Behind(S, e)) /\ Cardinality(Behind(S, e)) <= Cardinality(S)
      /\ Cardinality(Behind(S, e)) # Cardinality(S) /\ Cardinality(Behind(S, e)) \in Nat
  BY <1>1, <1>2, FS_Subset, FS_CardinalityType
<1> QED BY <1>1, <1>3 DEF Rank

LEMMA RankLess ==
  ASSUME NEW S, Ranked(S), NEW d \in S, NEW e \in S, Before(d, e)
  PROVE  Rank(S, d) < Rank(S, e)
<1>1. Behind(S, d) \subseteq Behind(S, e) /\ d \in Behind(S, e) /\ d \notin Behind(S, d)
  BY BeforeOrders DEF Behind
<1>2. IsFiniteSet(Behind(S, e)) /\ Rank(S, d) \in Nat /\ Rank(S, e) \in Nat
  BY RankType
<1>3. Rank(S, d) <= Rank(S, e) /\ Rank(S, d) # Rank(S, e)
  BY <1>1, <1>2, FS_Subset DEF Rank
<1> QED BY <1>2, <1>3

LEMMA RankOnto ==
  ASSUME NEW S, Ranked(S), NEW k \in 1 .. Cardinality(S)
  PROVE  \E e \in S : Rank(S, e) = k - 1
<1> DEFINE n == Cardinality(S)
           R == {Rank(S, e) : e \in S}
           g == [e \in S |-> Rank(S, e)]
<1>1. IsFiniteSet(S) /\ n \in Nat
  BY FS_CardinalityType DEF Ranked
<1>2. R \subseteq 0 .. n - 1
  BY RankType
<1>3. g \in Surjection(S, R)
  BY DEF Surjection
<1>4. g \in Injection(S, R)
  <2>1. ASSUME NEW d \in S, NEW e \in S, Rank(S, d) = Rank(S, e)
        PROVE  d = e
    <3>1. Rank(S, d) \in Nat /\ Rank(S, e) \in Nat
      BY RankType
    <3>2. ~Before(d, e) /\ ~Before(e, d)
      BY <2>1, <3>1, RankLess
    <3> QED BY <3>2, BeforeOrders
  <2> QED BY <2>1 DEF Injection, IsInjective
<1> HIDE DEF R, g
<1>5. Cardinality(R) = n
  BY <1>1, <1>3, <1>4, FS_Surjection
<1>6. IsFiniteSet(0 .. n - 1) /\ Cardinality(0 .. n - 1) = n
  <2>1. 0 \in Int /\ n - 1 \in Int /\ (IF 0 > n - 1 THEN 0 ELSE n - 1 - 0 + 1) = n
    BY <1>1
  <2> QED BY <2>1, FS_Interval
<1>7. 0 .. n - 1 = R
  BY <1>2, <1>5, <1>6, FS_Subset
<1>8. k - 1 \in 0 .. n - 1
  BY <1>1
<1> QED BY <1>7, <1>8 DEF R

LEMMA LineAt ==
  ASSUME NEW S, Ranked(S), NEW k \in 1 .. Cardinality(S)
  PROVE  /\ Line(S)[k] \in S /\ Rank(S, Line(S)[k]) = k - 1
         /\ \A e \in S : Rank(S, e) = k - 1 => Line(S)[k] = e
<1>1. Line(S)[k] = CHOOSE x \in S : Rank(S, x) = k - 1
  BY DEF Line, Rank, Behind
<1>2. \E x \in S : Rank(S, x) = k - 1
  BY RankOnto
<1>3. Line(S)[k] \in S /\ Rank(S, Line(S)[k]) = k - 1
  BY <1>1, <1>2
<1>4. ASSUME NEW e \in S, Rank(S, e) = k - 1 PROVE Line(S)[k] = e
  <2> DEFINE d == Line(S)[k]
  <2>1. d \in S /\ Rank(S, d) = Rank(S, e) /\ Rank(S, e) \in Nat
    BY <1>3, <1>4, RankType
  <2> HIDE DEF d
  <2>2. ~Before(d, e) /\ ~Before(e, d)
    BY <2>1, RankLess
  <2>3. d = e
    BY <2>1, <2>2, BeforeOrders
  <2> QED BY <2>3 DEF d
<1> QED BY <1>3, <1>4

LEMMA LineSeq ==
  ASSUME NEW S, Ranked(S)
  PROVE  Line(S) \in Seq(S) /\ Len(Line(S)) = Cardinality(S) /\ Cardinality(S) \in Nat
<1>1. Cardinality(S) \in Nat
  BY FS_CardinalityType DEF Ranked
<1> DEFINE n == Cardinality(S)
           g == Line(S)
<1>2. DOMAIN g = 1 .. n /\ g = [k \in 1 .. n |-> g[k]]
  BY DEF Line
<1>3. \A k \in 1 .. n : g[k] \in S
  BY LineAt
<1> HIDE DEF n, g
<1>4. n \in Nat
  BY <1>1 DEF n
<1>5. g \in Seq(S) /\ Len(g) = n
  BY <1>2, <1>3, <1>4
<1> QED BY <1>1, <1>5 DEF n, g

LEMMA RankedSubset == ASSUME NEW T, Ranked(T), NEW S, S \subseteq T PROVE Ranked(S)
BY FS_Subset DEF Ranked

(* What comes after all the others comes last in the line. *)
LEMMA LineAppend ==
  ASSUME NEW S, NEW e, e \notin S, Ranked(S \cup {e}), \A x \in S : Before(x, e)
  PROVE  Line(S \cup {e}) = Append(Line(S), e)
<1> DEFINE T == S \cup {e}
           n == Cardinality(S)
           a == Line(S)
           b == Line(T)
<1>1. Ranked(S) /\ Ranked(T) /\ IsFiniteSet(S) /\ S \subseteq T /\ e \in T
  BY RankedSubset DEF Ranked
<1>2. n \in Nat /\ Cardinality(T) = n + 1
  BY <1>1, FS_CardinalityType, FS_AddElement
<1>3. ASSUME NEW k \in 1 .. n PROVE b[k] = a[k]
  <2> DEFINE x == a[k]
  <2>1. x \in S /\ Rank(S, x) = k - 1
    BY <1>1, LineAt
  <2> HIDE DEF x
  <2>2. ~Before(e, x)
    BY <1>1, <2>1, BeforeOrders
  <2>3. Behind(T, x) = Behind(S, x)
    BY <2>2 DEF Behind
  <2>4. k \in 1 .. Cardinality(T)
    BY <1>2
  <2>5. Rank(T, x) = k - 1
    BY <2>1, <2>3 DEF Rank
  <2> HIDE DEF T
  <2>6. b[k] = x
    BY <1>1, <2>1, <2>4, <2>5, LineAt
  <2> QED BY <2>6 DEF x
<1>4. b[n + 1] = e
  <2>1. ~Before(e, e)
    BY <1>1, BeforeOrders
  <2>2. Behind(T, e) = S
    BY <2>1 DEF Behind
  <2>3. n + 1 \in 1 .. Cardinality(T) /\ Rank(T, e) = (n + 1) - 1
    BY <1>2, <2>2 DEF Rank
  <2> HIDE DEF T
  <2> QED BY <1>1, <2>3, LineAt
<1>5. a \in Seq(S) /\ Len(a) = n /\ b \in Seq(T) /\ Len(b) = n + 1
  BY <1>1, <1>2, LineSeq
<1> HIDE DEF a, b, n
<1>6. b = Append(a, e)
  BY <1>2, <1>3, <1>4, <1>5
<1> QED BY <1>6 DEF a, b

(* What comes before all the others comes first. *)
LEMMA LineTail ==
  ASSUME NEW S, Ranked(S), NEW e \in S, \A x \in S \ {e} : Before(e, x)
  PROVE  Line(S) # <<>> /\ Head(Line(S)) = e /\ Line(S \ {e}) = Tail(Line(S))
<1> DEFINE T == S \ {e}
           n == Cardinality(T)
           a == Line(S)
           b == Line(T)
<1>1. Ranked(T) /\ IsFiniteSet(S) /\ IsFiniteSet(T)
  BY RankedSubset DEF Ranked
<1>2. n \in Nat /\ Cardinality(S) = n + 1
  <2>1. Cardinality(S) \in Nat /\ Cardinality(T) = Cardinality(S) - 1
    BY <1>1, FS_CardinalityType, FS_RemoveElement
  <2>2. n \in Nat
    BY <1>1, FS_CardinalityType
  <2> QED BY <2>1, <2>2
<1>3. \A x \in S : ~Before(x, e)
  BY BeforeOrders
<1>4. a[1] = e
  <2>1. Behind(S, e) = {}
    BY <1>3 DEF Behind
  <2>2. Rank(S, e) = 1 - 1 /\ 1 \in 1 .. Cardinality(S)
    BY <1>2, <2>1, FS_EmptySet DEF Rank
  <2> QED BY <2>2, LineAt
<1>5. ASSUME NEW k \in 1 .. n PROVE a[k + 1] = b[k]
  <2> DEFINE x == b[k]
  <2>1. x \in T /\ Rank(T, x) = k - 1
    BY <1>1, LineAt
  <2> HIDE DEF x
  <2>2. Behind(S, x) = Behind(T, x) \cup {e} /\ e \notin Behind(T, x)
    BY <2>1 DEF Behind
  <2>3. IsFiniteSet(Behind(T, x))
    BY <1>1, <2>1, RankType
  <2>4. Rank(S, x) = Rank(T, x) + 1
    BY <2>2, <2>3, FS_AddElement DEF Rank
  <2>5. k + 1 \in 1 .. Cardinality(S) /\ Rank(S, x) = (k + 1) - 1 /\ x \in S
    BY <1>2, <2>1, <2>4
  <2>6. a[k + 1] = x
    BY <2>5, LineAt
  <2> QED BY <2>6 DEF x
<1>6. a \in Seq(S) /\ Len(a) = n + 1 /\ b \in Seq(T) /\ Len(b) = n
  BY <1>1, <1>2, LineSeq
<1> HIDE DEF a, b, n
<1>7. a # <<>> /\ Head(a) = e /\ b = Tail(a)
  BY <1>2, <1>4, <1>5, <1>6
<1> QED BY <1>7 DEF a, b

-----------------------------------------------------------------------------
(* A port of a state w, seen as a link *)

OnLink(w, p) == {e \in w.events : e.type = "Arrive" /\ e.port = p}

Pkts(s) == [i \in DOMAIN s |-> s[i].pkt]

WireOf(w, p) == Pkts(Line(OnLink(w, p)))

LinkOf(w, p) ==
  [waiting |-> w.port[p].waiting,
   serving |-> IF w.port[p].busy THEN <<w.port[p].in_flight>> ELSE <<>>,
   wire |-> WireOf(w, p), sent |-> w.port[p].sent, dropped |-> w.port[p].dropped]

(* Every packet on a wire was put there a propagation delay ago at most, a *)
(* port that is idle has nothing to send, and one of P that is busy has a  *)
(* TxComplete pending.                                                     *)
Links(w, P) ==
  /\ Shaped(w) /\ w.now \in Nat /\ P \subseteq Port
  /\ \A e \in w.events : e.type = "Arrive" =>
       e.time \in Nat /\ e.time <= w.now + link(e.port).prop_delay_ns
  /\ \A p \in Port : /\ Len(w.port[p].waiting) <= link(p).queue_capacity_pkts
                     /\ ~w.port[p].busy => w.port[p].waiting = <<>>
  /\ \A p \in P : w.port[p].busy => \E e \in w.events : e.type = "TxComplete" /\ e.port = p

(* No link does anything. *)
Calm(w, v, P) == Links(v, P) /\ \A p \in Port : LinkOf(v, p) = LinkOf(w, p)

(* What DropTailLink's Drop, Serve or Wait does to a link of capacity c. *)
Taken(a, b, pkt, c) ==
  \/ Len(a.waiting) = c /\ b = [a EXCEPT !.dropped = @ + 1]
  \/ a.serving = <<>> /\ a.waiting = <<>> /\ c > 0 /\ b = [a EXCEPT !.serving = <<pkt>>]
  \/ a.serving # <<>> /\ Len(a.waiting) < c /\ b = [a EXCEPT !.waiting = Append(@, pkt)]

(* The packet pkt is queued at port p, or dropped and counted. *)
Enqueued(w, v, p, pkt, P) ==
  /\ Links(v, P)
  /\ Taken(LinkOf(w, p), LinkOf(v, p), pkt, link(p).queue_capacity_pkts)
  /\ \A q \in Port \ {p} : LinkOf(v, q) = LinkOf(w, q)

LEMMA SameLink ==
  ASSUME NEW w, NEW v, NEW p, w.port[p] = v.port[p], OnLink(w, p) = OnLink(v, p)
  PROVE  LinkOf(v, p) = LinkOf(w, p)
BY DEF LinkOf, WireOf

LEMMA CalmTrans ==
  ASSUME NEW u, NEW v, NEW w, NEW P, Calm(u, v, P), Calm(v, w, P)
  PROVE  Calm(u, w, P)
BY DEF Calm

(* The ports, the events and the clock stay. *)
Aside(w, v) ==
  /\ DOMAIN v = Fields /\ v.port = w.port /\ v.events = w.events /\ v.next_seq = w.next_seq
  /\ v.now = w.now
  /\ v.injected \in [Kind -> Nat] /\ v.received \in [Kind -> Nat] /\ v.dropped \in [Kind -> Nat]

LEMMA AsideCalm ==
  ASSUME NEW w, NEW P, Links(w, P), NEW v, Aside(w, v)
  PROVE  Calm(w, v, P)
<1>1. Shaped(v)
  BY Recount DEF Aside, Links
<1>2. \A p \in Port : LinkOf(v, p) = LinkOf(w, p)
  BY SameLink DEF Aside, OnLink
<1>3. Links(v, P)
  BY <1>1 DEF Links, Aside
<1> QED BY <1>2, <1>3 DEF Calm

(* v is w with one event more, that is not an Arrive. *)
LEMMA PushCalm ==
  ASSUME NEW w, NEW P, Links(w, P), NEW t, NEW type, NEW port, NEW pkt, NEW a,
         type # "Arrive"
  PROVE  LET v == Push(w, Event(t, type, port, pkt, a))
         IN  Calm(w, v, P) /\ v.now = w.now /\ v.result = w.result
<1> DEFINE v == Push(w, Event(t, type, port, pkt, a))
           x == [Event(t, type, port, pkt, a) EXCEPT !.seq = w.next_seq]
<1>1. Shaped(v) /\ v.port = w.port /\ v.events = w.events \cup {x} /\ x.type # "Arrive"
  <2>1. MayPush(type, port, pkt) /\ Shaped(w)
    BY DEF MayPush, Links
  <2>2. Pushed(w, v, x) /\ x.type = type
    BY <2>1, PushShape
  <2> HIDE DEF v, x
  <2> QED BY <2>2 DEF Pushed
<1>2. v.now = w.now /\ v.result = w.result
  BY DEF Push, Links, Shaped, Fields
<1> HIDE DEF v, x
<1>3. Links(v, P)
  BY <1>1, <1>2 DEF Links
<1>4. \A p \in Port : OnLink(v, p) = OnLink(w, p)
  BY <1>1 DEF OnLink
<1>5. Calm(w, v, P)
  BY <1>1, <1>3, <1>4, SameLink DEF Calm
<1> QED BY <1>2, <1>5 DEF v

LEMMA StartTxShape ==
  ASSUME Settled, NEW w, Shaped(w), NEW p \in Port, w.port[p].waiting # <<>>
  PROVE  LET v == start_tx(w, p)
             q == w.port[p].waiting
         IN  /\ Shaped(v) /\ v.now = w.now /\ v.result = w.result
             /\ v.port[p].waiting = Tail(q) /\ v.port[p].busy
             /\ v.port[p].in_flight = Head(q)
             /\ v.port[p].sent = w.port[p].sent /\ v.port[p].dropped = w.port[p].dropped
             /\ \A d \in Port \ {p} : v.port[d] = w.port[d]
             /\ \E x : v.events = w.events \cup {x} /\ x.type = "TxComplete" /\ x.port = p
<1> DEFINE q == w.port[p].waiting
           pkt == Head(q)
           r == [w.port[p] EXCEPT !.waiting = Tail(q), !.busy = TRUE, !.in_flight = pkt]
           u == [w EXCEPT !.port[p].waiting = Tail(@), !.port[p].busy = TRUE,
                          !.port[p].in_flight = pkt]
           t == w.now + serialization_ns(pkt.bytes, link(p).rate)
           v == Push(u, Event(t, "TxComplete", p, NoPacket, 0))
           x == [Event(t, "TxComplete", p, NoPacket, 0) EXCEPT !.seq = u.next_seq]
<1>0. start_tx(w, p) = v
  BY DEF start_tx
<1>1. /\ w.port[p] \in PortState /\ q \in Seq(Packet) /\ q # <<>> /\ pkt \in Packet
      /\ Tail(q) \in Seq(Packet)
  BY PortParts
<1>2. /\ r \in PortState /\ r.waiting = Tail(q) /\ r.busy /\ r.in_flight = pkt
      /\ r.sent = w.port[p].sent /\ r.dropped = w.port[p].dropped
  BY <1>1 DEF PortState
<1>3. Refitted(w, u, p, r) /\ u.now = w.now /\ u.result = w.result
  BY DEF Shaped, Fields, Refitted
<1>4. Shaped(u)
  <2> HIDE DEF u, r
  <2> QED BY <1>2, <1>3, Refit
<1>5. x.port = p
  <2> HIDE DEF t, u
  <2> QED BY DEF Event
<1>6. v.now = u.now /\ v.result = u.result
  <2> HIDE DEF u
  <2> QED BY <1>3 DEF Push, Refitted, Fields
<1> HIDE DEF t, u
<1>7. Pushed(u, v, x) /\ x.type = "TxComplete"
  <2>1. MayPush("TxComplete", p, NoPacket)
    BY DEF MayPush
  <2> QED BY <1>4, <2>1, PushShape
<1> HIDE DEF v, x
<1>8. v.port = [w.port EXCEPT ![p] = r] /\ v.events = w.events \cup {x} /\ Shaped(v)
  BY <1>3, <1>7 DEF Refitted, Pushed
<1>9. v.port[p] = r /\ \A d \in Port \ {p} : v.port[d] = w.port[d]
  BY <1>8 DEF Shaped
<1> HIDE DEF q, r
<1> QED BY <1>0, <1>2, <1>3, <1>5, <1>6, <1>7, <1>8, <1>9 DEF q

LEMMA DropLink ==
  ASSUME Settled, NEW w, NEW P, Links(w, P), NEW p \in Port, NEW pkt \in Packet,
         Len(w.port[p].waiting) = link(p).queue_capacity_pkts
  PROVE  Enqueued(w, Drop(w, p, pkt), p, pkt, P)
<1> DEFINE r == [w.port[p] EXCEPT !.dropped = @ + 1]
           v == Drop(w, p, pkt)
<1>1. Shaped(w) /\ w.port \in [Port -> PortState] /\ w.port[p] \in PortState
  BY DEF Links, Shaped
<1>2. /\ r.waiting = w.port[p].waiting /\ r.busy = w.port[p].busy
      /\ r.in_flight = w.port[p].in_flight /\ r.sent = w.port[p].sent
      /\ r.dropped = w.port[p].dropped + 1
  BY <1>1 DEF PortState
<1>3. Shaped(v)
  BY <1>1, DropGives DEF Gives
<1>4. v.port = [w.port EXCEPT ![p] = r] /\ v.events = w.events /\ v.now = w.now
  BY <1>1 DEF Drop, Shaped, Fields
<1> HIDE DEF v, r
<1>5. v.port[p] = r /\ \A q \in Port \ {p} : v.port[q] = w.port[q]
  BY <1>1, <1>4
<1>6. \A q \in Port : /\ v.port[q].waiting = w.port[q].waiting /\ v.port[q].busy = w.port[q].busy
  BY <1>2, <1>5
<1>7. Links(v, P)
  BY <1>3, <1>4, <1>6 DEF Links, Shaped
<1>8. OnLink(v, p) = OnLink(w, p) /\ \A q \in Port \ {p} : LinkOf(v, q) = LinkOf(w, q)
  BY <1>4, <1>5, SameLink DEF OnLink
<1>9. LinkOf(v, p) = [LinkOf(w, p) EXCEPT !.dropped = @ + 1]
  <2>1. WireOf(v, p) = WireOf(w, p)
    BY <1>8 DEF WireOf
  <2> QED BY <1>2, <1>5, <2>1 DEF LinkOf
<1>10. Taken(LinkOf(w, p), LinkOf(v, p), pkt, link(p).queue_capacity_pkts)
  BY <1>9 DEF Taken, LinkOf
<1> QED BY <1>7, <1>8, <1>10 DEF Enqueued, v

LEMMA EnqueueLink ==
  ASSUME Settled, NEW w, NEW P, Links(w, P), NEW p \in Port, NEW pkt \in Packet
  PROVE  Enqueued(w, enqueue(w, p, pkt), p, pkt, P)
<1>1. CASE Len(w.port[p].waiting) = link(p).queue_capacity_pkts
  BY <1>1, DropLink DEF enqueue
<1>2. CASE Len(w.port[p].waiting) # link(p).queue_capacity_pkts
  <2> DEFINE q == w.port[p].waiting
             s == Append(q, pkt)
             c == link(p).queue_capacity_pkts
             r == [w.port[p] EXCEPT !.waiting = s]
             u == [w EXCEPT !.port[p].waiting = Append(@, pkt)]
             v == StartIdle(u, p)
  <2>1. /\ Shaped(w) /\ w.port \in [Port -> PortState] /\ w.port[p] \in PortState
        /\ q \in Seq(Packet) /\ s \in Seq(Packet) /\ s # <<>> /\ c \in Nat
        /\ Len(q) <= c /\ Len(q) # c /\ Len(q) \in Nat
        /\ w.port[p].busy \in BOOLEAN
    <3>1. /\ Shaped(w) /\ w.port \in [Port -> PortState] /\ Len(q) <= c /\ c \in Nat
      BY CfgFacts DEF Links, Shaped
    <3>2. /\ w.port[p] \in PortState /\ q \in Seq(Packet) /\ w.port[p].busy \in BOOLEAN
      BY <3>1, PortParts
    <3> HIDE DEF c, q
    <3>3. Len(q) \in Nat /\ s \in Seq(Packet) /\ Len(s) = Len(q) + 1
      BY <3>2
    <3>4. s # <<>>
      BY <3>3
    <3> QED BY <1>2, <3>1, <3>2, <3>3, <3>4 DEF c, q
  <2>2. /\ r \in PortState /\ r.waiting = s /\ r.busy = w.port[p].busy
        /\ r.in_flight = w.port[p].in_flight /\ r.sent = w.port[p].sent
        /\ r.dropped = w.port[p].dropped
    BY <2>1 DEF PortState
  <2>3. Refitted(w, u, p, r) /\ u.now = w.now
    BY <2>1 DEF Shaped, Fields, Refitted
  <2>4. enqueue(w, p, pkt) = v
    BY <1>2 DEF enqueue
  <2> HIDE DEF u, r
  <2>5. Shaped(u) /\ u.port[p] = r /\ \A d \in Port \ {p} : u.port[d] = w.port[d]
    BY <2>1, <2>2, <2>3, Refit DEF Refitted
  <2>6. u.events = w.events /\ \A d : OnLink(u, d) = OnLink(w, d)
    BY <2>3 DEF Refitted, OnLink
  <2>7. \A d \in Port \ {p} : LinkOf(u, d) = LinkOf(w, d)
    BY <2>5, <2>6, SameLink
  <2>8. WireOf(u, p) = WireOf(w, p)
    BY <2>6 DEF WireOf
  <2>9. CASE w.port[p].busy
    <3>1. v = u
      BY <2>2, <2>5, <2>9 DEF StartIdle
    <3>2. Len(s) <= c /\ Len(q) < c
      BY <2>1
    <3>3. Links(u, P)
      BY <2>2, <2>3, <2>5, <2>6, <2>9, <3>2 DEF Links
    <3>4. LinkOf(u, p) = [LinkOf(w, p) EXCEPT !.waiting = s]
      <4> HIDE DEF s
      <4> QED BY <2>2, <2>5, <2>8 DEF LinkOf
    <3>5. LinkOf(w, p).waiting = q /\ LinkOf(w, p).serving # <<>>
      BY <2>9 DEF LinkOf
    <3> HIDE DEF c
    <3>6. Taken(LinkOf(w, p), LinkOf(u, p), pkt, c)
      BY <3>2, <3>4, <3>5 DEF Taken
    <3> QED BY <2>4, <2>7, <3>1, <3>3, <3>6 DEF Enqueued, c
  <2>10. CASE ~w.port[p].busy
    <3>1. v = start_tx(u, p) /\ q = <<>>
      BY <2>2, <2>5, <2>10 DEF StartIdle, Links
    <3>2. s = <<pkt>> /\ Head(s) = pkt /\ Tail(s) = <<>> /\ c > 0
      BY <2>1, <3>1
    <3>3. /\ Shaped(v) /\ v.now = u.now
          /\ v.port[p].waiting = <<>> /\ v.port[p].busy /\ v.port[p].in_flight = pkt
          /\ v.port[p].sent = r.sent /\ v.port[p].dropped = r.dropped
          /\ \A d \in Port \ {p} : v.port[d] = u.port[d]
          /\ \E x : v.events = u.events \cup {x} /\ x.type = "TxComplete" /\ x.port = p
      <4>1. u.port[p].waiting = s /\ s # <<>> /\ Head(s) = pkt /\ Tail(s) = <<>>
        BY <2>1, <2>2, <2>5, <3>2
      <4> HIDE DEF v, s, q
      <4>2. /\ Shaped(v) /\ v.now = u.now
            /\ v.port[p].waiting = Tail(u.port[p].waiting) /\ v.port[p].busy
            /\ v.port[p].in_flight = Head(u.port[p].waiting)
            /\ v.port[p].sent = u.port[p].sent /\ v.port[p].dropped = u.port[p].dropped
            /\ \A d \in Port \ {p} : v.port[d] = u.port[d]
            /\ \E x : v.events = u.events \cup {x} /\ x.type = "TxComplete" /\ x.port = p
        <5>1. Shaped(u) /\ u.port[p].waiting # <<>>
          BY <2>5, <4>1
        <5> HIDE DEF c
        <5> QED BY ONLY Settled, p \in Port, <3>1, <5>1, StartTxShape
      <4> QED BY <2>5, <4>1, <4>2
    <3> HIDE DEF v, s
    <3>4. PICK x : v.events = u.events \cup {x} /\ x.type = "TxComplete" /\ x.port = p
      BY <3>3
    <3>5. \A d : OnLink(v, d) = OnLink(u, d)
      BY <3>4 DEF OnLink
    <3>6. \A d \in Port \ {p} : LinkOf(v, d) = LinkOf(u, d)
      BY <3>3, <3>5, SameLink
    <3>7. Links(v, P)
      <4>1. Len(<<>>) <= c
        BY <2>1
      <4>2. \A d \in Port : /\ Len(v.port[d].waiting) <= link(d).queue_capacity_pkts
                            /\ ~v.port[d].busy => v.port[d].waiting = <<>>
        BY <2>5, <3>3, <4>1 DEF Links
      <4>3. \A d \in P : v.port[d].busy => \E e \in v.events : e.type = "TxComplete" /\ e.port = d
        BY <2>5, <2>6, <3>3, <3>4 DEF Links
      <4>4. v.now = w.now /\ v.events = w.events \cup {x}
        BY <2>3, <2>6, <3>3, <3>4
      <4> QED BY <3>3, <3>4, <4>2, <4>3, <4>4 DEF Links
    <3>8. WireOf(v, p) = WireOf(w, p)
      BY <2>8, <3>5 DEF WireOf
    <3>9. LinkOf(v, p) = [LinkOf(w, p) EXCEPT !.serving = <<pkt>>]
      BY <2>2, <2>10, <3>1, <3>3, <3>8 DEF LinkOf
    <3>10. LinkOf(w, p).waiting = <<>> /\ LinkOf(w, p).serving = <<>>
      BY <2>10, <3>1 DEF LinkOf
    <3>11. Taken(LinkOf(w, p), LinkOf(v, p), pkt, c)
      BY <3>2, <3>9, <3>10 DEF Taken
    <3> QED BY <2>4, <2>7, <3>6, <3>7, <3>11 DEF Enqueued
  <2> QED BY <2>1, <2>9, <2>10
<1> QED BY <1>1, <1>2

(* What DropTailLink's Finish does to a link. *)
Finished(a, b) ==
  /\ a.serving # <<>> /\ b.wire = Append(a.wire, Head(a.serving))
  /\ b.sent = a.sent + 1 /\ b.dropped = a.dropped
  /\ IF a.waiting = <<>> THEN b.serving = <<>> /\ b.waiting = <<>>
     ELSE b.serving = <<Head(a.waiting)>> /\ b.waiting = Tail(a.waiting)

LEMMA PktsAppend ==
  ASSUME NEW S, NEW s \in Seq(S), NEW x
  PROVE  Pkts(Append(s, x)) = Append(Pkts(s), x.pkt)
<1> DEFINE a == Pkts(Append(s, x))
           b == Append(Pkts(s), x.pkt)
<1>1. /\ Len(s) \in Nat /\ DOMAIN s = 1 .. Len(s)
      /\ DOMAIN Append(s, x) = 1 .. Len(s) + 1
      /\ \A i \in 1 .. Len(s) : Append(s, x)[i] = s[i]
      /\ Append(s, x)[Len(s) + 1] = x
  OBVIOUS
<1>2. Pkts(s) = [i \in 1 .. Len(s) |-> s[i].pkt]
  BY <1>1 DEF Pkts
<1>3. Pkts(s) \in Seq({s[i].pkt : i \in 1 .. Len(s)}) /\ Len(Pkts(s)) = Len(s)
  BY <1>1, <1>2
<1>4. DOMAIN a = 1 .. Len(s) + 1 /\ DOMAIN b = 1 .. Len(s) + 1
  BY <1>1, <1>3 DEF Pkts
<1>5. \A i \in 1 .. Len(s) + 1 : a[i] = b[i]
  BY <1>1, <1>2, <1>3 DEF Pkts
<1>6. a = [i \in DOMAIN a |-> a[i]] /\ b = [i \in DOMAIN b |-> b[i]]
  BY <1>3 DEF Pkts
<1> HIDE DEF a, b
<1>7. a = b
  BY <1>4, <1>5, <1>6
<1> QED BY <1>7 DEF a, b

LEMMA PktsTail ==
  ASSUME NEW S, NEW s \in Seq(S), s # <<>>
  PROVE  /\ Pkts(s) # <<>> /\ Head(Pkts(s)) = Head(s).pkt
         /\ Pkts(Tail(s)) = Tail(Pkts(s))
<1> DEFINE a == Pkts(Tail(s))
           b == Tail(Pkts(s))
<1>1. /\ Len(s) \in Nat /\ Len(s) >= 1 /\ DOMAIN s = 1 .. Len(s) /\ Head(s) = s[1]
      /\ DOMAIN Tail(s) = 1 .. Len(s) - 1
      /\ \A i \in 1 .. Len(s) - 1 : Tail(s)[i] = s[i + 1]
  OBVIOUS
<1>2. Pkts(s) = [i \in 1 .. Len(s) |-> s[i].pkt]
  BY <1>1 DEF Pkts
<1>3. Pkts(s) \in Seq({s[i].pkt : i \in 1 .. Len(s)}) /\ Len(Pkts(s)) = Len(s)
  BY <1>1, <1>2
<1>4. Pkts(s) # <<>> /\ Head(Pkts(s)) = s[1].pkt
  BY <1>1, <1>2, <1>3
<1>5. DOMAIN a = 1 .. Len(s) - 1 /\ DOMAIN b = 1 .. Len(s) - 1
  BY <1>1, <1>3, <1>4 DEF Pkts
<1>6. \A i \in 1 .. Len(s) - 1 : a[i] = b[i]
  BY <1>1, <1>2, <1>3, <1>4 DEF Pkts
<1>7. a = [i \in DOMAIN a |-> a[i]] /\ b = [i \in DOMAIN b |-> b[i]]
  BY <1>3, <1>4 DEF Pkts
<1> HIDE DEF a, b
<1>8. a = b
  BY <1>5, <1>6, <1>7
<1> QED BY <1>1, <1>4, <1>8 DEF a, b

LEMMA LinkRanked ==
  ASSUME NEW w, NEW P, Links(w, P), NEW p
  PROVE  Ranked(OnLink(w, p))
BY FS_Subset DEF Links, Shaped, OnLink, Ranked

(* One packet more on a wire, the last. *)
LEMMA WireAppends ==
  ASSUME Settled, NEW w, NEW P, Links(w, P), NEW p \in Port, NEW pkt \in Packet
  PROVE  LET v == Push(w, Event(w.now + link(p).prop_delay_ns, "Arrive", p, pkt, 0))
         IN  /\ Links(v, P) /\ v.now = w.now /\ v.result = w.result /\ v.port = w.port
             /\ WireOf(v, p) = Append(WireOf(w, p), pkt)
             /\ \A q \in Port \ {p} : LinkOf(v, q) = LinkOf(w, q)
<1> DEFINE t == w.now + link(p).prop_delay_ns
           v == Push(w, Event(t, "Arrive", p, pkt, 0))
           x == [Event(t, "Arrive", p, pkt, 0) EXCEPT !.seq = w.next_seq]
           S == OnLink(w, p)
<1>1. Shaped(w) /\ w.now \in Nat /\ t \in Nat
  BY CfgFacts DEF Links
<1>2. v.now = w.now /\ v.result = w.result
  BY <1>1 DEF Push, Shaped, Fields
<1>3. x.time = t /\ x.type = "Arrive" /\ x.port = p /\ x.pkt = pkt /\ x.seq = w.next_seq
  <2> HIDE DEF t
  <2> QED BY DEF Event
<1>4. Pushed(w, v, x)
  <2>1. MayPush("Arrive", p, pkt)
    BY DEF MayPush
  <2> HIDE DEF t
  <2> QED BY <1>1, <2>1, PushShape
<1> HIDE DEF v, x
<1>5. Shaped(v) /\ v.port = w.port /\ v.events = w.events \cup {x} /\ x \notin w.events
  BY <1>4 DEF Pushed
<1>6. Links(v, P)
  <2>1. \A e \in v.events : e.type = "Arrive" =>
          e.time \in Nat /\ e.time <= v.now + link(e.port).prop_delay_ns
    <3>1. t <= v.now + link(p).prop_delay_ns
      BY <1>1, <1>2
    <3>2. \A e \in w.events : e.type = "Arrive" =>
            e.time \in Nat /\ e.time <= v.now + link(e.port).prop_delay_ns
      BY <1>2 DEF Links
    <3> HIDE DEF t
    <3> QED BY <1>1, <1>3, <1>5, <3>1, <3>2
  <2> QED BY <1>2, <1>5, <2>1 DEF Links
<1>7. OnLink(v, p) = S \cup {x} /\ x \notin S
  BY <1>3, <1>5 DEF OnLink
<1>8. Ranked(S) /\ Ranked(S \cup {x})
  BY <1>6, <1>7, LinkRanked
<1>9. \A y \in S : Before(y, x)
  <2> TAKE y \in S
  <2>1. y \in w.events /\ y.type = "Arrive" /\ y.port = p
    BY DEF OnLink
  <2>2. y.time \in Nat /\ y.time <= t
    BY <2>1 DEF Links
  <2>3. y.seq \in Nat /\ y.seq < w.next_seq
    BY <2>1 DEF Links, Shaped
  <2> HIDE DEF t
  <2> QED BY <1>1, <1>3, <2>2, <2>3 DEF Before
<1> HIDE DEF S
<1>10. Line(S \cup {x}) = Append(Line(S), x) /\ Line(S) \in Seq(S)
  BY <1>7, <1>8, <1>9, LineAppend, LineSeq
<1>11. WireOf(v, p) = Append(WireOf(w, p), pkt)
  <2>1. Pkts(Append(Line(S), x)) = Append(Pkts(Line(S)), x.pkt)
    BY <1>10, PktsAppend
  <2> QED BY <1>3, <1>7, <1>10, <2>1 DEF WireOf, S
<1>12. \A q \in Port \ {p} : LinkOf(v, q) = LinkOf(w, q)
  <2>1. \A q \in Port \ {p} : OnLink(v, q) = OnLink(w, q)
    BY <1>3, <1>5 DEF OnLink
  <2> QED BY <1>5, <2>1, SameLink
<1> QED BY <1>2, <1>5, <1>6, <1>11, <1>12 DEF v

LEMMA TxCompleteLink ==
  ASSUME Settled, NEW w, NEW e, e.port \in Port, Links(w, Port \ {e.port}), w.port[e.port].busy
  PROVE  LET v == on_tx_complete(w, e)
         IN  /\ Links(v, Port) /\ v.result = w.result
             /\ Finished(LinkOf(w, e.port), LinkOf(v, e.port))
             /\ \A q \in Port \ {e.port} : LinkOf(v, q) = LinkOf(w, q)
<1> DEFINE p == e.port
           P == Port \ {p}
           r == [w.port[p] EXCEPT !.sent = @ + 1]
           pkt == w.port[p].in_flight
           u == [w EXCEPT !.port[p].sent = @ + 1]
           v == Push(u, Event(w.now + link(p).prop_delay_ns, "Arrive", p, pkt, 0))
           x == IF v.port[p].waiting # <<>> THEN start_tx(v, p) ELSE [v EXCEPT !.port[p].busy = FALSE]
<1>0. on_tx_complete(w, e) = x
  BY DEF on_tx_complete
<1>1. /\ Shaped(w) /\ w.port \in [Port -> PortState]
      /\ p \in Port /\ w.port[p] \in PortState /\ pkt \in Packet
  BY PortParts DEF Links, Shaped
<1>2. /\ r \in PortState /\ r.waiting = w.port[p].waiting /\ r.busy = w.port[p].busy
      /\ r.in_flight = pkt /\ r.dropped = w.port[p].dropped /\ r.sent = w.port[p].sent + 1
  <2> DEFINE y == w.port[p]
  <2> HIDE DEF y
  <2>1. y \in PortState
    BY <1>1 DEF y
  <2>2. LET z == [y EXCEPT !.sent = @ + 1]
        IN  /\ z \in PortState /\ z.waiting = y.waiting /\ z.busy = y.busy
            /\ z.in_flight = y.in_flight /\ z.dropped = y.dropped /\ z.sent = y.sent + 1
    BY <2>1 DEF PortState
  <2> QED BY <2>2 DEF y
<1>3. Refitted(w, u, p, r) /\ u.now = w.now /\ u.result = w.result
  BY <1>1 DEF Shaped, Fields, Refitted
<1> HIDE DEF u, r, x, p, pkt
<1>4. Shaped(u) /\ u.port[p] = r /\ \A q \in Port \ {p} : u.port[q] = w.port[q]
  BY <1>1, <1>2, <1>3, Refit DEF Refitted
<1>5. Links(u, P)
  BY <1>2, <1>3, <1>4 DEF Links, Refitted, p
<1>6. WireOf(u, p) = WireOf(w, p) /\ \A q \in Port \ {p} : LinkOf(u, q) = LinkOf(w, q)
  <2>1. \A q : OnLink(u, q) = OnLink(w, q)
    BY <1>3 DEF Refitted, OnLink
  <2> QED BY <1>4, <2>1, SameLink DEF WireOf
<1>7. /\ Links(v, P) /\ v.now = u.now /\ v.result = u.result /\ v.port = u.port
      /\ WireOf(v, p) = Append(WireOf(u, p), pkt)
      /\ \A q \in Port \ {p} : LinkOf(v, q) = LinkOf(u, q)
  <2>1. v = Push(u, Event(u.now + link(p).prop_delay_ns, "Arrive", p, pkt, 0))
    BY <1>3
  <2> HIDE DEF v, P
  <2> QED BY <1>1, <1>5, <2>1, WireAppends
<1> HIDE DEF v
<1> DEFINE a == LinkOf(w, p)
           b == LinkOf(x, p)
<1>8. /\ a.waiting = w.port[p].waiting /\ a.serving = <<pkt>> /\ a.wire = WireOf(w, p)
      /\ a.sent = w.port[p].sent /\ a.dropped = w.port[p].dropped /\ a.serving # <<>>
      /\ Head(a.serving) = pkt
  BY DEF LinkOf, p, pkt
<1>9. /\ b.waiting = x.port[p].waiting
      /\ b.serving = (IF x.port[p].busy THEN <<x.port[p].in_flight>> ELSE <<>>)
      /\ b.wire = WireOf(x, p) /\ b.sent = x.port[p].sent /\ b.dropped = x.port[p].dropped
  BY DEF LinkOf
<1>10. CASE v.port[p].waiting # <<>>
  <2> DEFINE q == v.port[p].waiting
  <2>1. x = start_tx(v, p) /\ Shaped(v)
    BY <1>7, <1>10 DEF x, Links
  <2>2. /\ Shaped(x) /\ x.now = v.now /\ x.result = v.result
        /\ x.port[p].waiting = Tail(q) /\ x.port[p].busy
        /\ x.port[p].in_flight = Head(q)
        /\ x.port[p].sent = v.port[p].sent /\ x.port[p].dropped = v.port[p].dropped
        /\ \A d \in Port \ {p} : x.port[d] = v.port[d]
        /\ \E z : x.events = v.events \cup {z} /\ z.type = "TxComplete" /\ z.port = p
    BY <1>1, <1>10, <2>1, StartTxShape
  <2>3. PICK z : x.events = v.events \cup {z} /\ z.type = "TxComplete" /\ z.port = p
    BY <2>2
  <2>4. \A d : OnLink(x, d) = OnLink(v, d)
    BY <2>3 DEF OnLink
  <2>5. WireOf(x, p) = WireOf(v, p) /\ \A d \in Port \ {p} : LinkOf(x, d) = LinkOf(v, d)
    BY <2>2, <2>4, SameLink DEF WireOf
  <2>6. Links(x, Port)
    <3>1. q \in Seq(Packet) /\ Len(q) <= link(p).queue_capacity_pkts /\ q # <<>>
      BY <1>1, <1>7, <1>10, <2>1, PortParts DEF Links
    <3>2. Len(Tail(q)) <= link(p).queue_capacity_pkts
      <4> HIDE DEF q
      <4>1. Len(Tail(q)) = Len(q) - 1 /\ Len(q) \in Nat
        BY <3>1
      <4>2. link(p).queue_capacity_pkts \in Nat
        BY <1>1, CfgFacts
      <4> QED BY <3>1, <4>1, <4>2
    <3>3. \A d \in Port : /\ Len(x.port[d].waiting) <= link(d).queue_capacity_pkts
                          /\ ~x.port[d].busy => x.port[d].waiting = <<>>
      <4> HIDE DEF q
      <4> QED BY <1>7, <2>2, <3>2 DEF Links
    <3>4. \A d \in Port : x.port[d].busy => \E y \in x.events : y.type = "TxComplete" /\ y.port = d
      <4> HIDE DEF q
      <4> QED BY <1>7, <2>2, <2>3 DEF Links
    <3>5. \A y \in x.events : y.type = "Arrive" =>
            y.time \in Nat /\ y.time <= x.now + link(y.port).prop_delay_ns
      BY <1>7, <2>2, <2>3 DEF Links
    <3> QED BY <1>7, <2>2, <3>3, <3>4, <3>5 DEF Links
  <2>7. Finished(a, b)
    <3>1. a.waiting = q /\ q # <<>>
      BY <1>2, <1>4, <1>7, <1>8, <1>10
    <3>2. b.waiting = Tail(q) /\ b.serving = <<Head(q)>>
      BY <1>9, <2>2
    <3>3. b.sent = a.sent + 1 /\ b.dropped = a.dropped
      BY <1>2, <1>4, <1>7, <1>8, <1>9, <2>2
    <3>4. b.wire = Append(a.wire, Head(a.serving))
      BY <1>6, <1>7, <1>8, <1>9, <2>5
    <3> HIDE DEF a, b, q
    <3> QED BY <1>8, <3>1, <3>2, <3>3, <3>4 DEF Finished
  <2> QED BY <1>0, <1>3, <1>6, <1>7, <2>2, <2>5, <2>6, <2>7 DEF p
<1>11. CASE v.port[p].waiting = <<>>
  <2> DEFINE s == [v.port[p] EXCEPT !.busy = FALSE]
  <2>1. x = [v EXCEPT !.port[p].busy = FALSE] /\ Shaped(v)
    BY <1>7, <1>11 DEF x, Links
  <2>2. v.port \in [Port -> PortState] /\ v.port[p] \in PortState
    BY <1>1, <2>1 DEF Shaped
  <2>3. /\ s \in PortState /\ s.waiting = v.port[p].waiting /\ ~s.busy
        /\ s.sent = v.port[p].sent /\ s.dropped = v.port[p].dropped
    BY <2>2 DEF PortState
  <2>4. Refitted(v, x, p, s) /\ x.now = v.now /\ x.result = v.result
    BY <2>1 DEF Shaped, Fields, Refitted
  <2> HIDE DEF s
  <2>5. Shaped(x) /\ x.port[p] = s /\ \A d \in Port \ {p} : x.port[d] = v.port[d]
    <3>1. Shaped(x)
      BY <1>1, <2>1, <2>3, <2>4, Refit
    <3> QED BY <1>1, <2>2, <2>4, <3>1 DEF Refitted
  <2>6. WireOf(x, p) = WireOf(v, p) /\ \A d \in Port \ {p} : LinkOf(x, d) = LinkOf(v, d)
    <3>1. \A d : OnLink(x, d) = OnLink(v, d)
      BY <2>4 DEF Refitted, OnLink
    <3> QED BY <2>5, <3>1, SameLink DEF WireOf
  <2>7. Links(x, Port)
    BY <1>7, <1>11, <2>3, <2>4, <2>5 DEF Links, Refitted
  <2>8. Finished(a, b)
    <3>1. a.waiting = <<>>
      BY <1>2, <1>4, <1>7, <1>8, <1>11
    <3>2. b.waiting = <<>> /\ b.serving = <<>>
      BY <1>9, <1>11, <2>3, <2>5
    <3>3. b.sent = a.sent + 1 /\ b.dropped = a.dropped
      BY <1>2, <1>4, <1>7, <1>8, <1>9, <2>3, <2>5
    <3>4. b.wire = Append(a.wire, Head(a.serving))
      BY <1>6, <1>7, <1>8, <1>9, <2>6
    <3> HIDE DEF a, b
    <3> QED BY <1>8, <3>1, <3>2, <3>3, <3>4 DEF Finished
  <2> QED BY <1>0, <1>3, <1>6, <1>7, <2>4, <2>6, <2>7, <2>8 DEF p
<1> QED BY <1>10, <1>11

-----------------------------------------------------------------------------
(* What a turn of the send loop does to the links *)

(* u is w with packet i of flow f about to be queued, the ring and the     *)
(* next index of f being replaced.                                         *)
Sending(w, u, f, i, ring, next) ==
  /\ Calm(w, u, Port) /\ u.now = w.now
  /\ u.tx[f].next_send_ns = w.now + period_ns(f)
  /\ u.tx[f].retx = ring /\ u.tx[f].next_seq = next
  /\ u.result \in [Flow -> FlowResult]
  /\ \A g \in Flow : u.result[g].packets_dropped = w.result[g].packets_dropped
  /\ \A g \in Flow \ {f} : u.result[g] = w.result[g]
  /\ u.result[f].packets_retransmitted =
       w.result[f].packets_retransmitted + (IF w.attempt[f][i] > 0 THEN 1 ELSE 0)

LEMMA CountedSending ==
  ASSUME Settled, NEW w, Typed(w), Links(w, Port), NEW f \in Flow, NEW ring \in Seq(Nat),
         NEW next \in Nat, NEW b, Repointed(w, b, f, ring, next), NEW i \in Index(f)
  PROVE  Sending(w, Counted(b, f, i), f, i, ring, next)
<1> DEFINE pkt == DataPacket(f, i)
           again == IF b.attempt[f][i] > 0 THEN 1 ELSE 0
           per == period_ns(f)
           bytes == pkt.bytes
           v == [b EXCEPT !.flying[f] = @ \cup {i},
                     !.tx[f].in_flight = @ + 1,
                     !.tx[f].next_send_ns = b.now + per,
                     !.injected["Data"] = @ + bytes,
                     !.result[f].packets_retransmitted = @ + again]
           u == SetTimer(v, f, i)
<1>1. Counted(b, f, i) = u
  BY DEF Counted
<1>2. /\ w.tx[f] \in TxState /\ w.result[f] \in FlowResult /\ w.tx \in [Flow -> TxState]
      /\ w.result \in [Flow -> FlowResult]
      /\ w.injected \in [Kind -> Nat] /\ w.received \in [Kind -> Nat] /\ w.dropped \in [Kind -> Nat]
  BY FlowTyped DEF Typed
<1>3. bytes \in Nat
  BY SendFacts, IsPacketTyped DEF Packet
<1>4. Aside(w, b)
  BY <1>2 DEF Repointed, Aside
<1>5. /\ DOMAIN b = Fields /\ b.now = w.now /\ b.result = w.result /\ b.injected = w.injected
      /\ b.received = w.received /\ b.dropped = w.dropped /\ b.attempt = w.attempt
      /\ b.tx = [w.tx EXCEPT ![f] = [w.tx[f] EXCEPT !.retx = ring, !.next_seq = next]]
  BY DEF Repointed
<1> HIDE DEF again, per, bytes
<1>6. /\ DOMAIN v = Fields /\ v.port = b.port /\ v.events = b.events
      /\ v.next_seq = b.next_seq /\ v.now = b.now
      /\ v.injected = [b.injected EXCEPT !["Data"] = @ + bytes]
      /\ v.received = b.received /\ v.dropped = b.dropped
      /\ v.tx = [b.tx EXCEPT ![f].in_flight = @ + 1, ![f].next_send_ns = b.now + per]
      /\ v.result = [b.result EXCEPT ![f].packets_retransmitted = @ + again]
  BY <1>5 DEF Fields
<1> HIDE DEF v
<1>7. Aside(b, v)
  <2>1. v.injected \in [Kind -> Nat]
    BY <1>2, <1>3, <1>5, <1>6 DEF Kind
  <2> QED BY <1>2, <1>5, <1>6, <2>1 DEF Aside
<1>8. Calm(w, v, Port)
  BY <1>4, <1>7, AsideCalm, CalmTrans DEF Calm
<1>9. Calm(v, u, Port) /\ u.now = v.now /\ u.result = v.result
  BY <1>8, PushCalm DEF SetTimer, Calm
<1>10. u.tx = v.tx
  BY <1>6, PushTx DEF SetTimer
<1> HIDE DEF u
<1>11. /\ v.tx[f].next_send_ns = w.now + per /\ v.tx[f].retx = ring /\ v.tx[f].next_seq = next
  <2>1. DOMAIN b.tx = Flow /\ b.tx[f] = [w.tx[f] EXCEPT !.retx = ring, !.next_seq = next]
    BY <1>2, <1>5
  <2>2. v.tx[f].next_send_ns = b.now + per /\ v.tx[f].retx = b.tx[f].retx
        /\ v.tx[f].next_seq = b.tx[f].next_seq
    BY <1>2, <1>6, <2>1 DEF TxState
  <2> QED BY <1>2, <1>5, <2>1, <2>2 DEF TxState
<1>12. /\ \A g \in Flow : v.result[g].packets_dropped = w.result[g].packets_dropped
       /\ \A g \in Flow \ {f} : v.result[g] = w.result[g]
       /\ v.result[f].packets_retransmitted = w.result[f].packets_retransmitted + again
  BY <1>2, <1>5, <1>6 DEF FlowResult
<1>13. Calm(w, u, Port)
  BY <1>8, <1>9, CalmTrans
<1>14. v.result \in [Flow -> FlowResult]
  <2> DEFINE n == w.result[f].packets_retransmitted + again
  <2>1. n \in Nat
    BY <1>2 DEF again, FlowResult
  <2>2. v.result = [w.result EXCEPT ![f] = [@ EXCEPT !.packets_retransmitted = n]]
    BY <1>2, <1>5, <1>6
  <2> HIDE DEF n
  <2>3. [w.result[f] EXCEPT !.packets_retransmitted = n] \in FlowResult
    BY <1>2, <2>1 DEF FlowResult
  <2> QED BY <1>2, <2>2, <2>3
<1> QED BY <1>1, <1>5, <1>6, <1>9, <1>10, <1>11, <1>12, <1>13, <1>14 DEF Sending, again, per

(* Nothing is sent, and the ring is at most cleared. *)
Idles(w, v, f) ==
  /\ Calm(w, v, Port) /\ v.now = w.now /\ v.result = w.result
  /\ v.tx[f].next_seq = w.tx[f].next_seq /\ v.tx[f].next_send_ns = w.tx[f].next_send_ns
  /\ InSeq(v.tx[f].retx) \subseteq InSeq(w.tx[f].retx)

(* Packet i is sent, for the first time or from the ring. *)
SendsOne(w, v, f) ==
  /\ ~(w.now < w.tx[f].next_send_ns)
  /\ \E i \in Index(f) : \E u : \E ring \in Seq(Nat), next \in Nat :
       /\ Sending(w, u, f, i, ring, next)
       /\ v = enqueue(u, nic(spec[f].src), DataPacket(f, i))
       /\ InSeq(ring) \subseteq InSeq(w.tx[f].retx)
       /\ \/ i = w.tx[f].next_seq /\ next = i + 1
          \/ next = w.tx[f].next_seq /\ i \in InSeq(w.tx[f].retx)

LEMMA TurnSends ==
  ASSUME Settled, NEW w, Good(w), Links(w, Port), NEW f \in Flow
  PROVE  Idles(w, Turn(w, f), f) \/ SendsOne(w, Turn(w, f), f)
<1> DEFINE t == w.tx[f]
           live == {k \in 1 .. Len(t.retx) : t.retx[k] \notin w.acked[f]}
           j == Min(live)
           a == [w EXCEPT !.tx[f].send_scheduled = TRUE]
           b == [w EXCEPT !.tx[f].retx = SubSeq(@, j + 1, Len(@))]
           c == [w EXCEPT !.tx[f].retx = <<>>]
           d == [w EXCEPT !.tx[f].retx = <<>>, !.tx[f].next_seq = @ + 1]
           v == Turn(w, f)
<1>0. SUFFICES Idles(w, v, f) \/ SendsOne(w, v, f)
  OBVIOUS
<1>1. /\ Typed(w) /\ DOMAIN w = Fields /\ t \in TxState /\ w.tx \in [Flow -> TxState]
      /\ w.injected \in [Kind -> Nat] /\ w.received \in [Kind -> Nat] /\ w.dropped \in [Kind -> Nat]
  BY FlowTyped DEF Good, Typed
<1>2. /\ t.retx \in Seq(Nat) /\ t.next_seq \in Nat /\ Len(t.retx) \in Nat
  <2>1. t.retx \in Seq(Nat) /\ t.next_seq \in Nat
    BY <1>1 DEF TxState
  <2> QED BY <2>1
<1>3. Packets(f) \in Nat /\ t.next_seq <= Packets(f) /\ InRing(t) \subseteq 0 .. t.next_seq - 1
  BY PacketsFacts DEF Good, SenderSound, Windowed
<1>4. Calm(w, w, Port)
  BY DEF Calm
<1>5. CASE v = w
  BY <1>4, <1>5 DEF Idles
<1>6. CASE v = Push(a, Inject(t.next_send_ns, f))
  <2>1. /\ Aside(w, a) /\ a.now = w.now /\ a.result = w.result
        /\ a.tx[f].next_seq = t.next_seq /\ a.tx[f].next_send_ns = t.next_send_ns
        /\ a.tx[f].retx = t.retx
    BY <1>1 DEF Aside, Fields, TxState
  <2> HIDE DEF a, v
  <2>2. Calm(w, a, Port)
    BY <2>1, AsideCalm
  <2>3. Calm(a, v, Port) /\ v.now = a.now /\ v.result = a.result
    BY <1>6, <2>2, PushCalm DEF Inject, Calm
  <2>4. v.tx = a.tx
    BY <1>6, <2>1, PushTx DEF Aside
  <2>5. Calm(w, v, Port)
    BY <2>2, <2>3, CalmTrans
  <2> QED BY <2>1, <2>3, <2>4, <2>5 DEF Idles
<1>7. CASE /\ live # {} /\ ~(w.now < t.next_send_ns) /\ v = send_packet(b, f, t.retx[j])
  <2>1. Len(t.retx) \in Nat /\ live \subseteq Nat
    BY <1>2
  <2>2. j \in live
    <3> HIDE DEF live
    <3> QED BY <1>7, <2>1, NatMinimum
  <2>3. j \in 1 .. Len(t.retx)
    BY <2>2
  <2> HIDE DEF j
  <2> DEFINE i == t.retx[j]
             ring == SubSeq(t.retx, j + 1, Len(t.retx))
  <2>4. i \in InSeq(t.retx) /\ i \in Index(f)
    <3>1. i \in InSeq(t.retx) /\ i \in InRing(t)
      BY <2>3 DEF InSeq, InRing
    <3> QED BY <1>2, <1>3, <3>1 DEF Index
  <2>5. ring \in Seq(Nat) /\ InSeq(ring) \subseteq InSeq(t.retx)
    <3>1. \A k \in j + 1 .. Len(t.retx) : k \in 1 .. Len(t.retx) /\ t.retx[k] \in InSeq(t.retx)
      BY <2>1, <2>3 DEF InSeq
    <3>2. j + 1 \in Int /\ Len(t.retx) \in Int
      BY <2>1, <2>3
    <3>3. ring \in Seq(InSeq(t.retx))
      BY <3>1, <3>2, SubSeqProperties
    <3>4. InSeq(t.retx) \subseteq Nat
      BY <1>2 DEF InSeq
    <3> HIDE DEF ring
    <3>5. ring \in Seq(Nat)
      BY <3>3, <3>4
    <3>6. InSeq(ring) \subseteq InSeq(t.retx)
      BY <3>3 DEF InSeq
    <3> QED BY <3>5, <3>6
  <2>6. Repointed(w, b, f, ring, t.next_seq)
    <3>1. b = [w EXCEPT !.tx[f].retx = ring]
      OBVIOUS
    <3> HIDE DEF ring, b
    <3>2. [t EXCEPT !.retx = ring] = [t EXCEPT !.retx = ring, !.next_seq = t.next_seq]
      BY <1>1 DEF TxState
    <3>3. /\ DOMAIN b = Fields /\ b.tx = [w.tx EXCEPT ![f] = [t EXCEPT !.retx = ring]]
          /\ b.events = w.events /\ b.next_seq = w.next_seq /\ b.now = w.now
          /\ b.port = w.port
          /\ b.flying = w.flying /\ b.acked = w.acked /\ b.delivered = w.delivered
          /\ b.attempt = w.attempt /\ b.result = w.result
          /\ b.injected = w.injected /\ b.received = w.received /\ b.dropped = w.dropped
      BY <1>1, <3>1 DEF Fields
    <3> QED BY <3>2, <3>3 DEF Repointed
  <2> HIDE DEF ring, b
  <2>7. Sending(w, Counted(b, f, i), f, i, ring, t.next_seq)
    BY <1>1, <1>2, <2>4, <2>5, <2>6, CountedSending
  <2>8. v = enqueue(Counted(b, f, i), nic(spec[f].src), DataPacket(f, i))
    BY <1>7 DEF send_packet, Counted
  <2> HIDE DEF v, i
  <2>9. \E u : /\ Sending(w, u, f, i, ring, t.next_seq)
               /\ v = enqueue(u, nic(spec[f].src), DataPacket(f, i))
    BY <2>7, <2>8
  <2> QED BY <1>2, <1>7, <2>4, <2>5, <2>9 DEF SendsOne
<1>8. CASE v = c
  <2>1. /\ Aside(w, c) /\ c.now = w.now /\ c.result = w.result
        /\ c.tx[f].next_seq = t.next_seq /\ c.tx[f].next_send_ns = t.next_send_ns
        /\ c.tx[f].retx = <<>>
    BY <1>1 DEF Aside, Fields, TxState
  <2>2. InSeq(<<>>) = {}
    BY DEF InSeq
  <2> HIDE DEF c, v
  <2> QED BY <1>8, <2>1, <2>2, AsideCalm DEF Idles
<1>9. CASE /\ ~(t.next_seq >= Packets(f)) /\ ~(w.now < t.next_send_ns)
           /\ v = send_packet(d, f, t.next_seq)
  <2> DEFINE u == [w EXCEPT !.tx[f].retx = <<>>, !.tx[f].next_seq = t.next_seq + 1]
             i == t.next_seq
             next == t.next_seq + 1
             ring == <<>>
  <2>1. d = u
    BY <1>1 DEF Fields, TxState
  <2>2. Repointed(w, u, f, ring, next)
    BY <1>1, RepointedBy
  <2>3. i \in Index(f) /\ next \in Nat /\ next = i + 1
    BY <1>2, <1>3, <1>9 DEF Index
  <2>4. ring \in Seq(Nat) /\ InSeq(ring) = {}
    BY DEF InSeq
  <2>5. v = send_packet(u, f, i)
    BY <1>9, <2>1
  <2> HIDE DEF u, ring, next, i, v, d
  <2>6. Sending(w, Counted(u, f, i), f, i, ring, next)
    BY <1>1, <2>2, <2>3, <2>4, CountedSending
  <2>7. v = enqueue(Counted(u, f, i), nic(spec[f].src), DataPacket(f, i))
    BY <2>5 DEF send_packet, Counted
  <2>8. \E x : /\ Sending(w, x, f, i, ring, next)
               /\ v = enqueue(x, nic(spec[f].src), DataPacket(f, i))
    BY <2>6, <2>7
  <2>9. i = w.tx[f].next_seq
    BY DEF i
  <2> QED BY <1>9, <2>3, <2>4, <2>8, <2>9 DEF SendsOne
<1>10. \/ v = w \/ v = Push(a, Inject(t.next_send_ns, f))
       \/ live # {} /\ ~(w.now < t.next_send_ns) /\ v = send_packet(b, f, t.retx[j])
       \/ v = c
       \/ /\ ~(t.next_seq >= Packets(f)) /\ ~(w.now < t.next_send_ns)
          /\ v = send_packet(d, f, t.next_seq)
  BY DEF Turn
<1> HIDE DEF v
<1> QED BY <1>5, <1>6, <1>7, <1>8, <1>9, <1>10

-----------------------------------------------------------------------------
(* The links in a handler *)

(* What DropTailLink's Arrive does to a link, pkt being the packet that    *)
(* comes off it.                                                           *)
Propagated(a, b, pkt) ==
  a.wire # <<>> /\ Head(a.wire) = pkt /\ b = [a EXCEPT !.wire = Tail(@)]

LEMMA PoppedLinks ==
  ASSUME Settled, NEW w, Links(w, Port), NEW e \in w.events,
         \A x \in w.events \ {e} : Before(e, x)
  PROVE  LET v == Popped(w, e)
         IN  /\ Links(v, IF e.type = "TxComplete" THEN Port \ {e.port} ELSE Port)
             /\ v.now = w.now /\ v.result = w.result
             /\ e.type = "Arrive" => e.port \in Port /\ Propagated(LinkOf(w, e.port), LinkOf(v, e.port), e.pkt)
             /\ \A p \in Port : e.type # "Arrive" \/ p # e.port => LinkOf(v, p) = LinkOf(w, p)
<1> DEFINE v == Popped(w, e)
           P == IF e.type = "TxComplete" THEN Port \ {e.port} ELSE Port
           S == OnLink(w, e.port)
<1>1. /\ v.events = w.events \ {e} /\ v.port = w.port /\ v.now = w.now /\ v.result = w.result
  BY DEF Popped, Links, Shaped, Fields
<1>2. Shaped(v)
  BY PoppedBooks DEF Links
<1> HIDE DEF v
<1>3. Links(v, P)
  BY <1>1, <1>2 DEF Links
<1>4. ASSUME NEW p \in Port, e.type # "Arrive" \/ p # e.port
      PROVE  LinkOf(v, p) = LinkOf(w, p)
  <2>1. OnLink(v, p) = OnLink(w, p)
    BY <1>1, <1>4 DEF OnLink
  <2> QED BY <1>1, <2>1, SameLink
<1>5. CASE e.type = "Arrive"
  <2>1. e.port \in Port /\ e \in S /\ OnLink(v, e.port) = S \ {e}
    BY <1>1, <1>5 DEF OnLink, Links, Shaped
  <2>2. Ranked(S) /\ \A x \in S \ {e} : Before(e, x)
    BY LinkRanked DEF OnLink
  <2> HIDE DEF S
  <2>3. Line(S) # <<>> /\ Head(Line(S)) = e /\ Line(S \ {e}) = Tail(Line(S)) /\ Line(S) \in Seq(S)
    BY <2>1, <2>2, LineTail, LineSeq
  <2>4. /\ Pkts(Line(S)) # <<>> /\ Head(Pkts(Line(S))) = e.pkt
        /\ Pkts(Tail(Line(S))) = Tail(Pkts(Line(S)))
    BY <2>3, PktsTail
  <2>5. WireOf(w, e.port) # <<>> /\ Head(WireOf(w, e.port)) = e.pkt
        /\ WireOf(v, e.port) = Tail(WireOf(w, e.port))
    BY <2>1, <2>3, <2>4 DEF WireOf, S
  <2>6. Propagated(LinkOf(w, e.port), LinkOf(v, e.port), e.pkt)
    <3>1. LinkOf(v, e.port) = [LinkOf(w, e.port) EXCEPT !.wire = Tail(WireOf(w, e.port))]
      BY <1>1, <2>5 DEF LinkOf
    <3>2. LinkOf(w, e.port).wire = WireOf(w, e.port)
      BY DEF LinkOf
    <3> QED BY <2>5, <3>1, <3>2 DEF Propagated
  <2> QED BY <1>1, <1>3, <1>4, <1>5, <2>1, <2>6 DEF v
<1> QED BY <1>1, <1>3, <1>4, <1>5 DEF v

(* At most one packet is queued or dropped, at a port of node u. *)
Relays(w, v, u) ==
  \/ Calm(w, v, Port)
  \/ \E p \in Port, pkt \in Packet : p[1] = u /\ Enqueued(w, v, p, pkt, Port)

LEMMA CalmRelays ==
  ASSUME NEW w, NEW a, NEW v, NEW u, Calm(w, a, Port), Relays(a, v, u)
  PROVE  Relays(w, v, u)
BY DEF Calm, Enqueued, Relays

LEMMA RelaysCalm ==
  ASSUME NEW w, NEW a, NEW v, NEW u, Relays(w, a, u), Calm(a, v, Port)
  PROVE  Relays(w, v, u)
BY DEF Calm, Enqueued, Relays

(* What enqueue leaves alone. *)
LEMMA EnqueueKeeps ==
  ASSUME NEW w, DOMAIN w = Fields, NEW p, NEW pkt
  PROVE  LET v == enqueue(w, p, pkt)
         IN  /\ v.tx = w.tx /\ v.now = w.now /\ v.attempt = w.attempt
             /\ v.delivered = w.delivered
             /\ v.result = IF Len(w.port[p].waiting) = link(p).queue_capacity_pkts
                           THEN Drop(w, p, pkt).result ELSE w.result
<1> DEFINE u == [w EXCEPT !.port[p].waiting = Append(@, pkt)]
           x == [u EXCEPT !.port[p].waiting = Tail(@), !.port[p].busy = TRUE,
                          !.port[p].in_flight = Head(u.port[p].waiting)]
           v == enqueue(w, p, pkt)
           d == Drop(w, p, pkt)
<1>1. /\ DOMAIN u = Fields /\ u.tx = w.tx /\ u.now = w.now /\ u.attempt = w.attempt
      /\ u.delivered = w.delivered /\ u.result = w.result
  BY DEF Fields
<1>2. d.tx = w.tx /\ d.now = w.now /\ d.attempt = w.attempt /\ d.delivered = w.delivered
  BY DEF Drop, Fields
<1>3. \/ v = d /\ Len(w.port[p].waiting) = link(p).queue_capacity_pkts
      \/ (v = u \/ \E e : v = Push(x, e)) /\ Len(w.port[p].waiting) # link(p).queue_capacity_pkts
  BY DEF enqueue, StartIdle, start_tx
<1> HIDE DEF u, v, d
<1>4. /\ DOMAIN x = Fields /\ x.tx = w.tx /\ x.now = w.now /\ x.attempt = w.attempt
      /\ x.delivered = w.delivered /\ x.result = w.result
  BY <1>1 DEF Fields
<1> HIDE DEF x
<1>5. \A e : LET y == Push(x, e)
             IN  /\ y.tx = w.tx /\ y.now = w.now /\ y.attempt = w.attempt
                 /\ y.delivered = w.delivered /\ y.result = w.result
  BY <1>4 DEF Push, Fields
<1> QED BY <1>1, <1>2, <1>3, <1>5 DEF v, d

(* Every packet takes time to send: a sender sends once in a handler. *)
Paced == \A f \in Flow : period_ns(f) > 0

LEMMA TurnRelays ==
  ASSUME Settled, Paced, NEW w, Good(w), Links(w, Port), NEW f \in Flow
  PROVE  LET v == Turn(w, f)
         IN  \/ Idles(w, v, f)
             \/ /\ ~(w.now < w.tx[f].next_send_ns)
                /\ Links(v, Port) /\ v.now < v.tx[f].next_send_ns
                /\ Relays(w, v, spec[f].src)
<1> DEFINE v == Turn(w, f)
           p == nic(spec[f].src)
<1>1. SUFFICES ASSUME SendsOne(w, v, f)
      PROVE  /\ Links(v, Port) /\ v.now < v.tx[f].next_send_ns
             /\ Relays(w, v, spec[f].src)
  BY TurnSends DEF SendsOne
<1>2. PICK i \in Index(f) :
        \E u : \E ring \in Seq(Nat), next \in Nat :
          Sending(w, u, f, i, ring, next) /\ v = enqueue(u, p, DataPacket(f, i))
  BY <1>1 DEF SendsOne
<1>3. PICK u, ring, next :
        Sending(w, u, f, i, ring, next) /\ v = enqueue(u, p, DataPacket(f, i))
  BY <1>2
<1> HIDE DEF v
<1> DEFINE pkt == DataPacket(f, i)
<1>4. p \in Port /\ p[1] = spec[f].src /\ pkt \in Packet
  BY SendFacts, IsPacketTyped
<1> HIDE DEF p, pkt
<1>5. Calm(w, u, Port) /\ u.now = w.now /\ u.tx[f].next_send_ns = w.now + period_ns(f)
  BY <1>3 DEF Sending
<1>6. Enqueued(u, v, p, pkt, Port)
  BY <1>3, <1>4, <1>5, EnqueueLink DEF Calm, pkt
<1>7. v.tx = u.tx /\ v.now = u.now
  BY <1>3, <1>5, EnqueueKeeps DEF Calm, Links, Shaped
<1>8. w.now < w.now + period_ns(f)
  BY SendFacts DEF Links, Paced
<1>9. Relays(w, v, spec[f].src)
  BY <1>4, <1>5, <1>6, CalmRelays DEF Relays
<1> QED BY <1>5, <1>6, <1>7, <1>8, <1>9 DEF Enqueued

LEMMA SendLoopRelays ==
  ASSUME Settled, Paced, NEW w, Good(w), Links(w, Port), NEW f \in Flow, Released(w, f),
         ~w.tx[f].failed
  PROVE  Relays(w, SendLoop(w, f), spec[f].src)
<1>1. PICK N, t : Turns(w, f, t, N)
  BY SendLoopTurns
<1>2. /\ N \in Nat /\ t[0] = w /\ SendLoop(w, f) = t[N]
      /\ \A n \in 1 .. N : t[n] = Turn(t[n - 1], f) /\ Good(t[n - 1])
  BY <1>1 DEF Turns
<1> DEFINE Q(n) == /\ Links(t[n], Port)
                   /\ \/ Calm(w, t[n], Port)
                      \/ Relays(w, t[n], spec[f].src) /\ t[n].now < t[n].tx[f].next_send_ns
           T == {n \in 0 .. N : ~Q(n)}
<1>3. T = {}
  <2>1. SUFFICES ASSUME T # {} PROVE FALSE
    OBVIOUS
  <2> DEFINE m == Min(T)
  <2>2. m \in T /\ \A n \in T : m <= n
    <3>1. T \subseteq Nat
      BY <1>2
    <3> HIDE DEF T
    <3> QED BY <2>1, <3>1, NatMinimum
  <2>3. m \in 0 .. N /\ ~Q(m)
    BY <2>2
  <2> HIDE DEF m
  <2>4. Q(0)
    BY <1>2 DEF Calm
  <2>5. m \in 1 .. N /\ m - 1 \in 0 .. N /\ m - 1 \notin T
    <3>1. m # 0
      BY <2>3, <2>4
    <3> HIDE DEF T
    <3> QED BY <1>2, <2>2, <2>3, <3>1
  <2>6. Q(m - 1) /\ t[m] = Turn(t[m - 1], f) /\ Good(t[m - 1])
    BY <1>2, <2>5
  <2>7. PICK a, b : a = t[m - 1] /\ b = t[m]
    OBVIOUS
  <2>8. /\ Links(a, Port) /\ Good(a) /\ b = Turn(a, f)
        /\ \/ Calm(w, a, Port)
           \/ Relays(w, a, spec[f].src) /\ a.now < a.tx[f].next_send_ns
    BY <2>6, <2>7
  <2>9. \/ Calm(a, b, Port) /\ b.now = a.now /\ b.tx[f].next_send_ns = a.tx[f].next_send_ns
        \/ /\ ~(a.now < a.tx[f].next_send_ns)
           /\ Links(b, Port) /\ b.now < b.tx[f].next_send_ns
           /\ Relays(a, b, spec[f].src)
    BY <2>8, TurnRelays DEF Idles
  <2>10. /\ Links(b, Port)
         /\ \/ Calm(w, b, Port)
            \/ Relays(w, b, spec[f].src) /\ b.now < b.tx[f].next_send_ns
    BY <2>8, <2>9, CalmTrans, CalmRelays, RelaysCalm DEF Calm
  <2> QED BY <2>3, <2>7, <2>10
<1>4. Q(N)
  BY <1>2, <1>3
<1> QED BY <1>2, <1>4 DEF Relays

(* What a call of try_send does. *)
LEMMA CallsRelays ==
  ASSUME Settled, Paced, NEW w, Links(w, Port), NEW f \in Flow, NEW x, Calls(w, x, f)
  PROVE  Relays(w, x, spec[f].src)
<1>1. PICK u : /\ Good(u) /\ Silent(w, u, f)
               /\ x = u \/ (Released(u, f) /\ x = try_send(u, f))
  BY DEF Calls
<1>2. Calm(w, u, Port)
  <2>1. Aside(w, u)
    BY <1>1 DEF Good, Typed, Silent, Aside
  <2> QED BY <2>1, AsideCalm
<1>3. Calm(u, u, Port)
  BY <1>2 DEF Calm
<1>4. Relays(u, x, spec[f].src)
  BY <1>1, <1>2, <1>3, SendLoopRelays DEF try_send, Relays, Calm
<1> QED BY <1>2, <1>4, CalmRelays

-----------------------------------------------------------------------------
(* What leaves every link alone *)

Told(w) == /\ w.now \in Nat /\ w.tx \in [Flow -> TxState]
           /\ w.result \in [Flow -> FlowResult]

(* No link does anything, no packet is sent or received, and what is       *)
(* counted of a flow's packets stays.                                      *)
Undisturbed(w, v) ==
  /\ Calm(w, v, Port) /\ Told(v) /\ v.delivered = w.delivered
  /\ \A g \in Flow :
       /\ v.tx[g].next_seq = w.tx[g].next_seq
       /\ Tried(w, g) => Tried(v, g)
       /\ v.result[g].packets_delivered = w.result[g].packets_delivered
       /\ v.result[g].packets_dropped = w.result[g].packets_dropped
       /\ v.result[g].packets_retransmitted = w.result[g].packets_retransmitted

LEMMA UndisturbedTrans ==
  ASSUME NEW u, NEW v, NEW w, Undisturbed(u, v), Undisturbed(v, w)
  PROVE  Undisturbed(u, w)
BY CalmTrans DEF Undisturbed

LEMMA UndisturbedRefl ==
  ASSUME NEW w, Links(w, Port), Told(w)
  PROVE  Undisturbed(w, w)
BY DEF Undisturbed, Calm

LEMMA PushUndisturbed ==
  ASSUME NEW w, Links(w, Port), Told(w), NEW t, NEW d
  PROVE  Undisturbed(w, Push(w, Inject(t, d)))
<1> DEFINE v == Push(w, Inject(t, d))
<1>1. Calm(w, v, Port)
  BY PushCalm DEF Inject
<1>2. /\ v.now = w.now /\ v.tx = w.tx /\ v.result = w.result /\ v.delivered = w.delivered
      /\ v.attempt = w.attempt
  BY DEF Push, Links, Shaped, Fields
<1> HIDE DEF v
<1> QED BY <1>1, <1>2 DEF Undisturbed, Told, Tried, v

LEMMA ReleaseUndisturbed ==
  ASSUME NEW w, Links(w, Port), Told(w), NEW d \in Flow
  PROVE  Undisturbed(w, release_flow(w, d)) /\ Undisturbed(w, PushStart(w, d))
<1> DEFINE u == [w EXCEPT !.result[d].start_ns = w.now, !.tx[d].next_send_ns = w.now]
<1>1. release_flow(w, d) = Push(u, Inject(w.now, d))
  BY DEF release_flow
<1>2. Undisturbed(w, u)
  <2> DEFINE tt == [w.tx[d] EXCEPT !.next_send_ns = w.now]
             rr == [w.result[d] EXCEPT !.start_ns = w.now]
  <2>1. /\ tt \in TxState /\ tt.next_seq = w.tx[d].next_seq /\ tt.retx = w.tx[d].retx
        /\ rr \in FlowResult
        /\ rr.packets_delivered = w.result[d].packets_delivered
        /\ rr.packets_dropped = w.result[d].packets_dropped
        /\ rr.packets_retransmitted = w.result[d].packets_retransmitted
    BY DEF Told, TxState, FlowResult
  <2>2. /\ u.tx = [w.tx EXCEPT ![d] = tt] /\ u.result = [w.result EXCEPT ![d] = rr]
        /\ u.now = w.now /\ u.delivered = w.delivered /\ u.attempt = w.attempt
        /\ Aside(w, u)
    BY DEF Links, Shaped, Fields, Aside
  <2> HIDE DEF tt, rr, u
  <2>3. Calm(w, u, Port) /\ Told(u)
    BY <2>1, <2>2, AsideCalm DEF Told
  <2>4. ASSUME NEW g \in Flow
        PROVE  /\ u.tx[g].next_seq = w.tx[g].next_seq /\ u.tx[g].retx = w.tx[g].retx
               /\ u.result[g].packets_delivered = w.result[g].packets_delivered
               /\ u.result[g].packets_dropped = w.result[g].packets_dropped
               /\ u.result[g].packets_retransmitted = w.result[g].packets_retransmitted
    BY <2>1, <2>2 DEF Told
  <2>5. \A g \in Flow : Tried(w, g) => Tried(u, g)
    BY <2>2, <2>4 DEF Tried, InRing
  <2> QED BY <2>2, <2>3, <2>4, <2>5 DEF Undisturbed
<1> HIDE DEF u
<1>3. Undisturbed(u, Push(u, Inject(w.now, d)))
  BY <1>2, PushUndisturbed DEF Undisturbed, Calm
<1>4. Undisturbed(w, w) /\ Undisturbed(w, Push(w, Inject(spec[d].start_ns, d)))
  BY PushUndisturbed, UndisturbedRefl
<1> QED BY <1>1, <1>2, <1>3, <1>4, UndisturbedTrans DEF PushStart

LEMMA LoopUndisturbed ==
  ASSUME NEW loop, Quiet(loop), NEW f, NEW w, Links(w, Port), Told(w), NEW N \in Nat,
         \A n \in 1 .. N : IF loop = "release" THEN Dependents(f)[n] \in Flow ELSE n \in Flow,
         NEW t, IsLoop(loop, f, w, N, t)
  PROVE  Undisturbed(w, t[N])
<1>1. t[0] = w /\ \A n \in 1 .. N : t[n] = LoopBody(loop, f, t[n - 1], n)
  <2>1. 0 \in 0 .. N /\ \A n \in 1 .. N : n \in 0 .. N /\ n # 0
    OBVIOUS
  <2> QED BY <2>1 DEF IsLoop
<1> DEFINE T == {n \in 0 .. N : ~Undisturbed(w, t[n])}
<1>2. T = {}
  <2>1. SUFFICES ASSUME T # {} PROVE FALSE
    OBVIOUS
  <2> DEFINE m == Min(T)
  <2>2. m \in T /\ \A n \in T : m <= n
    <3>1. T \subseteq Nat
      OBVIOUS
    <3> HIDE DEF T
    <3> QED BY <2>1, <3>1, NatMinimum
  <2>3. m \in 0 .. N /\ ~Undisturbed(w, t[m])
    BY <2>2
  <2> HIDE DEF m
  <2>4. Undisturbed(w, t[0])
    BY <1>1, UndisturbedRefl
  <2>5. m \in 1 .. N /\ m - 1 \in 0 .. N /\ m - 1 \notin T
    <3>1. m # 0
      BY <2>3, <2>4
    <3> HIDE DEF T
    <3> QED BY <2>2, <2>3, <3>1
  <2>6. Undisturbed(w, t[m - 1])
    BY <2>5
  <2>7. t[m] = LoopBody(loop, f, t[m - 1], m)
    BY <1>1, <2>5
  <2>8. PICK a, b, d : a = t[m - 1] /\ b = t[m] /\ d = IF loop = "release" THEN Dependents(f)[m] ELSE m
    OBVIOUS
  <2>9. d \in Flow /\ b \in {release_flow(a, d), PushStart(a, d)}
    BY <2>5, <2>7, <2>8 DEF LoopBody, Quiet
  <2>10. Undisturbed(a, b)
    <3>1. Links(a, Port) /\ Told(a)
      BY <2>6, <2>8 DEF Undisturbed, Calm
    <3>2. Undisturbed(a, release_flow(a, d)) /\ Undisturbed(a, PushStart(a, d))
      BY ONLY <2>9, <3>1, ReleaseUndisturbed
    <3> QED BY <2>9, <3>2
  <2> QED BY <2>3, <2>6, <2>8, <2>10, UndisturbedTrans
<1> QED BY <1>2

LEMMA CompleteUndisturbed ==
  ASSUME Settled, NEW w, Links(w, Port), Told(w), NEW f \in Flow
  PROVE  Undisturbed(w, complete_flow(w, f))
<1>1. PICK N, u : N = Len(Dependents(f)) /\ u = Completed(w, f)
  OBVIOUS
<1>2. N \in Nat /\ \E t : IsLoop("release", f, u, N, t) /\ complete_flow(w, f) = t[N]
  BY <1>1, CompleteIs DEF CompleteShape
<1>3. \A n \in 1 .. N : Dependents(f)[n] \in Flow
  <2>1. Dependents(f) \in Seq(WaitFor(f))
    BY DependentsFacts
  <2>2. \A n \in 1 .. N : Dependents(f)[n] \in WaitFor(f)
    BY <1>1, <2>1
  <2> QED BY <2>2 DEF WaitFor
<1>4. Undisturbed(w, u)
  <2> DEFINE rr == [w.result[f] EXCEPT !.finish_ns = w.now, !.complete = TRUE]
  <2>1. /\ rr \in FlowResult
        /\ rr.packets_delivered = w.result[f].packets_delivered
        /\ rr.packets_dropped = w.result[f].packets_dropped
        /\ rr.packets_retransmitted = w.result[f].packets_retransmitted
    BY DEF Told, FlowResult
  <2>2. /\ DOMAIN u = Fields
        /\ u.result = [[w.result EXCEPT ![f] = [@ EXCEPT !.finish_ns = w.now]] EXCEPT ![f] = [@ EXCEPT !.complete = TRUE]]
        /\ u.tx = w.tx /\ u.now = w.now /\ u.delivered = w.delivered
        /\ u.attempt = w.attempt /\ Aside(w, u)
    BY <1>1 DEF Links, Shaped, Fields, Aside, Completed
  <2>3. u.result = [w.result EXCEPT ![f] = rr]
    BY <2>2 DEF Told
  <2> HIDE DEF rr
  <2>4. Calm(w, u, Port) /\ Told(u)
    BY <2>1, <2>2, <2>3, AsideCalm DEF Told
  <2>5. ASSUME NEW g \in Flow
        PROVE  /\ u.result[g].packets_delivered = w.result[g].packets_delivered
               /\ u.result[g].packets_dropped = w.result[g].packets_dropped
               /\ u.result[g].packets_retransmitted = w.result[g].packets_retransmitted
    BY <2>1, <2>3 DEF Told
  <2> QED BY <2>2, <2>4, <2>5 DEF Undisturbed, Tried
<1>5. Undisturbed(u, complete_flow(w, f))
  <2>1. Links(u, Port) /\ Told(u)
    BY <1>4 DEF Undisturbed, Calm
  <2>2. PICK t : IsLoop("release", f, u, N, t) /\ complete_flow(w, f) = t[N]
    BY <1>2
  <2>3. Undisturbed(u, t[N])
    BY <1>2, <1>3, <2>1, <2>2, LoopUndisturbed DEF Quiet
  <2> QED BY <2>2, <2>3
<1> QED BY <1>4, <1>5, UndisturbedTrans

-----------------------------------------------------------------------------
(* The receiver *)

(* Packet i of flow f is received, perhaps again; no link does anything.   *)
Hands(w, v, f, i) ==
  /\ Calm(w, v, Port) /\ Told(v)
  /\ v.delivered[f] = w.delivered[f] \cup {i}
  /\ \A g \in Flow \ {f} : /\ v.delivered[g] = w.delivered[g]
                           /\ v.result[g].packets_delivered = w.result[g].packets_delivered
  /\ v.result[f].packets_delivered =
       w.result[f].packets_delivered + (IF i \in w.delivered[f] THEN 0 ELSE 1)
  /\ \A g \in Flow :
       /\ v.tx[g].next_seq = w.tx[g].next_seq
       /\ Tried(w, g) => Tried(v, g)
       /\ v.result[g].packets_dropped = w.result[g].packets_dropped
       /\ v.result[g].packets_retransmitted = w.result[g].packets_retransmitted

LEMMA HandsOn ==
  ASSUME NEW f \in Flow, NEW i, NEW u, NEW v, NEW w, Hands(u, v, f, i), Undisturbed(v, w)
  PROVE  Hands(u, w, f, i)
BY CalmTrans DEF Hands, Undisturbed

LEMMA OnHands ==
  ASSUME NEW f \in Flow, NEW i, NEW u, NEW v, NEW w, Undisturbed(u, v), Hands(v, w, f, i)
  PROVE  Hands(u, w, f, i)
BY CalmTrans DEF Hands, Undisturbed

LEMMA AsideUndisturbed ==
  ASSUME NEW w, Links(w, Port), Told(w), NEW v, Aside(w, v),
         v.tx = w.tx, v.result = w.result, v.delivered = w.delivered, v.attempt = w.attempt
  PROVE  Undisturbed(w, v)
BY AsideCalm DEF Undisturbed, Told, Tried, Aside

LEMMA GoodTold == ASSUME NEW w, Good(w) PROVE Told(w) /\ w.delivered \in [Flow -> SUBSET Nat]
BY DEF Good, Typed, Told

LEMMA DeliverHands ==
  ASSUME Settled, NEW w, Links(w, Port), Told(w), w.delivered \in [Flow -> SUBSET Nat],
         NEW f \in Flow, NEW i, NEW bytes \in Nat
  PROVE  Hands(w, Deliver(w, f, i, bytes), f, i)
<1> DEFINE r == w.result[f]
           n == r.packets_delivered + 1
           b == r.delivered_bytes + bytes
           rr == [r EXCEPT !.packets_delivered = n, !.delivered_bytes = b]
           v == [w EXCEPT !.delivered[f] = @ \cup {i},
                          !.result[f].packets_delivered = @ + 1,
                          !.result[f].delivered_bytes = @ + bytes]
<1>1. CASE i \in w.delivered[f]
  <2>1. Deliver(w, f, i, bytes) = w
    BY <1>1 DEF Deliver
  <2>2. Undisturbed(w, w)
    BY UndisturbedRefl
  <2>3. w.result[f].packets_delivered \in Nat
    BY DEF Told, FlowResult
  <2> QED BY <1>1, <2>1, <2>2, <2>3 DEF Undisturbed, Hands
<1>2. CASE i \notin w.delivered[f]
  <2>1. Deliver(w, f, i, bytes) \in {v, complete_flow(v, f)}
    BY <1>2 DEF Deliver
  <2>2. /\ rr \in FlowResult /\ rr.packets_delivered = n
        /\ rr.packets_dropped = r.packets_dropped
        /\ rr.packets_retransmitted = r.packets_retransmitted
    <3>1. n \in Nat /\ b \in Nat /\ r \in FlowResult
      BY DEF Told, FlowResult
    <3> HIDE DEF n, b, r
    <3> QED BY <3>1 DEF FlowResult
  <2>3. v.result = [w.result EXCEPT ![f] = rr]
    <3> DEFINE h == [w.result EXCEPT ![f] = [r EXCEPT !.packets_delivered = n]]
    <3>1. v.result = [h EXCEPT ![f] = [h[f] EXCEPT !.delivered_bytes = h[f].delivered_bytes + bytes]]
      BY DEF Links, Shaped, Fields
    <3>2. h[f] = [r EXCEPT !.packets_delivered = n] /\ h[f].delivered_bytes = r.delivered_bytes
      <4> HIDE DEF n
      <4> QED BY DEF FlowResult, Told
    <3>3. [h EXCEPT ![f] = [h[f] EXCEPT !.delivered_bytes = b]] = [w.result EXCEPT ![f] = rr]
      <4> HIDE DEF n, b
      <4>1. [h[f] EXCEPT !.delivered_bytes = b] = rr
        BY <3>2 DEF FlowResult
      <4> QED BY <4>1 DEF Told
    <3> QED BY <3>1, <3>2, <3>3
  <2>4. /\ Aside(w, v) /\ v.tx = w.tx /\ v.attempt = w.attempt /\ v.now = w.now
        /\ v.delivered = [w.delivered EXCEPT ![f] = @ \cup {i}]
    BY DEF Links, Shaped, Fields, Aside
  <2> HIDE DEF v, rr, n
  <2>5. Calm(w, v, Port) /\ Told(v)
    BY <2>2, <2>3, <2>4, AsideCalm DEF Told
  <2>6. Hands(w, v, f, i)
    <3>1. v.result[f] = rr /\ \A g \in Flow \ {f} : v.result[g] = w.result[g]
      BY <2>3 DEF Told
    <3> QED BY <1>2, <2>2, <2>4, <2>5, <3>1 DEF Hands, Tried, n
  <2>7. Undisturbed(v, v) /\ Undisturbed(v, complete_flow(v, f))
    BY <2>5, CompleteUndisturbed, UndisturbedRefl DEF Calm
  <2> QED BY <2>1, <2>6, <2>7, HandsOn
<1> QED BY <1>1, <1>2

(* Data arrives: it is received, and an ack queued. *)
LEMMA ArrivalHands ==
  ASSUME Settled, NEW w, Links(w, Port), Told(w), w.delivered \in [Flow -> SUBSET Nat],
         NEW f \in Flow, NEW i, NEW bytes \in Nat
  PROVE  \E x : /\ Hands(w, x, f, i)
                /\ on_data_arrival(w, f, i, bytes) =
                     enqueue(x, nic(spec[f].dst), AckPacket(f, i))
<1> DEFINE v == [w EXCEPT !.received["Data"] = @ + bytes]
           u == Deliver(v, f, i, bytes)
           x == [u EXCEPT !.injected["Ack"] = @ + ack_bytes]
<1>1. on_data_arrival(w, f, i, bytes) = enqueue(x, nic(spec[f].dst), AckPacket(f, i))
  BY DEF on_data_arrival
<1>2. /\ Aside(w, v) /\ v.tx = w.tx /\ v.result = w.result /\ v.delivered = w.delivered
      /\ v.attempt = w.attempt
  BY DEF Links, Shaped, Fields, Kind, Aside
<1> HIDE DEF v
<1>3. Undisturbed(w, v)
  BY <1>2, AsideUndisturbed
<1>4. Hands(v, u, f, i)
  BY <1>2, <1>3, DeliverHands DEF Undisturbed, Calm
<1> HIDE DEF u
<1>5. Links(u, Port) /\ Told(u) /\ ack_bytes \in Nat
  BY <1>4, CfgFacts DEF Hands, Calm
<1>6. /\ Aside(u, x) /\ x.tx = u.tx /\ x.result = u.result /\ x.delivered = u.delivered
      /\ x.attempt = u.attempt
  <2> DEFINE s == [u.injected EXCEPT !["Ack"] = @ + ack_bytes]
  <2>1. DOMAIN u = Fields /\ u.injected \in [Kind -> Nat] /\ u.received \in [Kind -> Nat]
        /\ u.dropped \in [Kind -> Nat]
    BY <1>5 DEF Links, Shaped
  <2>2. s \in [Kind -> Nat]
    BY <1>5, <2>1 DEF Kind
  <2>3. x = [u EXCEPT !.injected = s]
    OBVIOUS
  <2> HIDE DEF s, x
  <2> QED BY <2>1, <2>2, <2>3 DEF Fields, Aside
<1> HIDE DEF x
<1>7. Undisturbed(u, x)
  BY <1>5, <1>6, AsideUndisturbed
<1> QED BY <1>1, <1>3, <1>4, <1>7, HandsOn, OnHands

-----------------------------------------------------------------------------
(* What a handler does to the links *)

(* Of the ports, that of an event that arrives lets its packet go, one     *)
(* that takes a packet takes one, and one whose service ends goes on.      *)
PortSteps(a, b, c) ==
  \/ b = a
  \/ \E pkt \in Packet : Taken(a, b, pkt, c)
  \/ Finished(a, b)
  \/ \E pkt \in Packet : Propagated(a, b, pkt)

LEMMA ArriveRelays ==
  ASSUME Settled, Paced, NEW w, Good(w), AllRest(w), Links(w, Port),
         NEW e \in w.events, e.type = "Arrive", Links(Popped(w, e), Port)
  PROVE  Relays(Popped(w, e), on_arrive(Popped(w, e), e), e.port[2])
<1> DEFINE v == Popped(w, e)
           at == e.port[2]
           pkt == e.pkt
           f == pkt.flow
           i == pkt.index
           x == on_arrive(v, e)
<1>1. Good(v) /\ AllRest(v) /\ Links(v, Port)
  BY PoppedGood DEF NetTypes
<1>2. MayCarry(w, v) /\ EventSound(w, e)
  BY PoppedFacts DEF MayCarry, Sent
<1> HIDE DEF v
<1>3. Homeward(v, e.port, pkt)
  BY <1>2, HomewardGrows DEF EventSound
<1>4. /\ IsPacket(pkt) /\ Released(v, f) /\ pkt \in Packet
      /\ pkt.kind = "Ack" => i \in v.delivered[f]
      /\ is_host(at) => at = Home(f, pkt.kind)
  BY <1>3, IsPacketTyped DEF Homeward, Carried
<1>5. f \in Flow /\ i \in Index(f) /\ pkt.kind \in Kind /\ pkt.bytes \in Nat
  BY <1>4 DEF IsPacket
<1>6. CASE ~is_host(at)
  <2>1. x = enqueue(v, select(pkt, at), pkt)
    BY <1>6 DEF on_arrive
  <2>2. select(pkt, at) \in Port /\ select(pkt, at)[1] = at
    BY <1>4, <1>6, SelectFacts
  <2>3. Enqueued(v, x, select(pkt, at), pkt, Port)
    BY <1>1, <1>4, <2>1, <2>2, EnqueueLink
  <2> QED BY <1>4, <2>2, <2>3 DEF Relays, v
<1>7. CASE is_host(at) /\ pkt.kind = "Ack"
  <2> DEFINE u == [v EXCEPT !.received["Ack"] = @ + pkt.bytes]
  <2>1. x = on_ack(u, f, i)
    BY <1>7 DEF on_arrive
  <2>2. Recounted(v, u)
    BY <1>1, <1>5 DEF Good, Typed, Fields, Recounted, Kind
  <2> HIDE DEF u
  <2>3. Good(u) /\ AllRest(u)
    BY <1>1, <2>2, RecountedGood
  <2>4. Released(u, f) /\ i \in u.delivered[f]
    BY <1>4, <1>7, <2>2 DEF Recounted, Released
  <2>5. Calls(u, x, f)
    BY <1>5, <2>1, <2>3, <2>4, AckGood
  <2>6. Calm(v, u, Port)
    BY <1>1, <2>2, AsideCalm DEF Recounted, Aside
  <2>7. Relays(u, x, spec[f].src)
    BY <1>5, <2>5, <2>6, CallsRelays DEF Calm
  <2>8. at = spec[f].src
    BY <1>4, <1>7 DEF Home
  <2> QED BY <2>6, <2>7, <2>8, CalmRelays DEF v
<1>8. CASE is_host(at) /\ pkt.kind # "Ack"
  <2>1. x = on_data_arrival(v, f, i, pkt.bytes) /\ at = spec[f].dst
    BY <1>4, <1>8 DEF on_arrive, Home
  <2>2. PICK u : Hands(v, u, f, i) /\ x = enqueue(u, nic(spec[f].dst), AckPacket(f, i))
    BY <1>1, <1>5, <2>1, ArrivalHands, GoodTold
  <2>3. /\ nic(spec[f].dst) \in Port /\ nic(spec[f].dst)[1] = at
        /\ AckPacket(f, i) \in Packet
    BY <1>5, <2>1, SendFacts, IsPacketTyped
  <2>4. Calm(v, u, Port)
    BY <2>2 DEF Hands
  <2>5. Enqueued(u, x, nic(spec[f].dst), AckPacket(f, i), Port)
    BY <2>2, <2>3, <2>4, EnqueueLink DEF Calm
  <2>6. Relays(u, x, at)
    BY <2>3, <2>5 DEF Relays
  <2> QED BY <2>4, <2>6, CalmRelays DEF v
<1> QED BY <1>6, <1>7, <1>8

LEMMA RelaysSteps ==
  ASSUME NEW w, Links(w, Port), NEW v, NEW u, Relays(w, v, u), NEW p \in Port
  PROVE  /\ Links(v, Port)
         /\ PortSteps(LinkOf(w, p), LinkOf(v, p), link(p).queue_capacity_pkts)
         /\ p[1] # u => LinkOf(v, p) = LinkOf(w, p)
BY DEF Relays, Calm, Enqueued, PortSteps

LEMMA HandlesLinks ==
  ASSUME Settled, Paced, NEW w, Good(w), AllRest(w), Links(w, Port),
         NEW e \in w.events, IsFirst(w, e), NEW v, Handles(w, e, v)
  PROVE  /\ Links(v, Port)
         /\ \A p \in Port : PortSteps(LinkOf(w, p), LinkOf(v, p), link(p).queue_capacity_pkts)
<1> DEFINE a == Popped(w, e)
           f == e.pkt.flow
<1>1. /\ Links(a, IF e.type = "TxComplete" THEN Port \ {e.port} ELSE Port)
      /\ e.type = "Arrive" => e.port \in Port /\ Propagated(LinkOf(w, e.port), LinkOf(a, e.port), e.pkt)
      /\ \A p \in Port : e.type # "Arrive" \/ p # e.port => LinkOf(a, p) = LinkOf(w, p)
  BY PoppedLinks DEF IsFirst
<1>2. EventSound(w, e) /\ a.port = w.port
  BY PoppedFacts
<1> HIDE DEF a
<1>3. CASE e.type \in {"Inject", "Timeout"}
  <2>1. f \in Flow /\ Links(a, Port)
    BY <1>1, <1>2, <1>3 DEF EventSound
  <2>2. Calls(a, v, f)
    BY <1>3, InjectGood, TimeoutGood DEF Handles, a
  <2>3. Relays(a, v, spec[f].src)
    BY <2>1, <2>2, CallsRelays
  <2>4. Links(v, Port)
    BY <2>3 DEF Relays, Calm, Enqueued
  <2>5. ASSUME NEW p \in Port
        PROVE  PortSteps(LinkOf(w, p), LinkOf(v, p), link(p).queue_capacity_pkts)
    <3>1. LinkOf(a, p) = LinkOf(w, p)
      BY <1>1, <1>3
    <3>2. PortSteps(LinkOf(a, p), LinkOf(v, p), link(p).queue_capacity_pkts)
      BY <2>1, <2>3, RelaysSteps
    <3> QED BY <3>1, <3>2
  <2> QED BY <2>4, <2>5
<1>4. CASE e.type = "TxComplete"
  <2>1. /\ e.port \in Port /\ a.port[e.port].busy /\ v = on_tx_complete(a, e)
        /\ Links(a, Port \ {e.port})
    BY <1>1, <1>2, <1>4 DEF EventSound, Handles, a
  <2>2. /\ Links(v, Port) /\ Finished(LinkOf(a, e.port), LinkOf(v, e.port))
        /\ \A q \in Port \ {e.port} : LinkOf(v, q) = LinkOf(a, q)
    BY <2>1, TxCompleteLink
  <2> QED BY <1>1, <1>4, <2>2 DEF PortSteps
<1>5. CASE e.type = "Arrive"
  <2>1. v = on_arrive(a, e) /\ Links(a, Port)
    BY <1>1, <1>5 DEF Handles, a
  <2>2. Relays(a, v, e.port[2]) /\ e.pkt \in Packet
    BY <1>2, <1>5, <2>1, ArriveRelays, IsPacketTyped DEF a, EventSound, Homeward, Carried
  <2>3. e.port \in Port /\ e.port[1] # e.port[2]
    BY <1>1, <1>5, CfgFacts
  <2>4. Links(v, Port) /\ LinkOf(v, e.port) = LinkOf(a, e.port)
    BY <2>1, <2>2, <2>3, RelaysSteps
  <2>5. PortSteps(LinkOf(w, e.port), LinkOf(v, e.port), link(e.port).queue_capacity_pkts)
    BY <1>1, <1>5, <2>2, <2>4 DEF PortSteps
  <2>6. \A p \in Port \ {e.port} :
          PortSteps(LinkOf(w, p), LinkOf(v, p), link(p).queue_capacity_pkts)
    BY <1>1, <2>1, <2>2, RelaysSteps
  <2> QED BY <2>4, <2>5, <2>6
<1> QED BY <1>3, <1>4, <1>5 DEF Handles

-----------------------------------------------------------------------------
(* The links of a run *)

Vacant == [waiting |-> <<>>, serving |-> <<>>, wire |-> <<>>, sent |-> 0, dropped |-> 0]

LEMMA EmptyWire ==
  ASSUME NEW w, NEW p, OnLink(w, p) = {}
  PROVE  WireOf(w, p) = <<>>
<1>1. Ranked({})
  BY FS_EmptySet DEF Ranked
<1>2. Line({}) \in Seq({}) /\ Len(Line({})) = 0
  BY <1>1, LineSeq, FS_EmptySet
<1>3. Line({}) = <<>>
  BY <1>2
<1>4. Pkts(<<>>) = <<>>
  BY DEF Pkts
<1> QED BY <1>3, <1>4 DEF WireOf

LEMMA FreshLinks ==
  ASSUME Settled
  PROVE  Links(Fresh, Port) /\ Told(Fresh) /\ \A p \in Port : LinkOf(Fresh, p) = Vacant
<1> DEFINE c == Fresh
           r == [waiting |-> <<>>, busy |-> FALSE, in_flight |-> NoPacket, sent |-> 0, dropped |-> 0]
<1>1. Shaped(c) /\ Told(c)
  BY FreshBooks, FreshKept DEF Books, Kept, Typed, Told
<1>2. c.events = {} /\ c.now = 0 /\ c.port = [p \in Port |-> r]
  BY DEF Fresh
<1>3. r.waiting = <<>> /\ ~r.busy /\ r.sent = 0 /\ r.dropped = 0 /\ Len(r.waiting) = 0
  OBVIOUS
<1> HIDE DEF c, r
<1>4. \A p \in Port : c.port[p] = r
  BY <1>2
<1>5. Links(c, Port)
  BY <1>1, <1>2, <1>3, <1>4, CfgFacts DEF Links
<1>6. \A p \in Port : LinkOf(c, p) = Vacant
  <2> TAKE p \in Port
  <2>1. OnLink(c, p) = {}
    BY <1>2 DEF OnLink
  <2>2. WireOf(c, p) = <<>>
    BY <2>1, EmptyWire
  <2> QED BY <1>3, <1>4, <2>2 DEF LinkOf, Vacant
<1> QED BY <1>1, <1>5, <1>6 DEF c

LEMMA BeginUndisturbed ==
  ASSUME Settled, NEW w, DOMAIN w = Fields
  PROVE  Undisturbed(Fresh, begin_run(w))
<1>1. PICK N, c : N = Len(spec) /\ c = Fresh
  OBVIOUS
<1>2. N \in Nat /\ \E t : IsLoop("begin", 0, c, N, t) /\ begin_run(Fresh) = t[N]
  BY <1>1, BeginIs DEF BeginShape
<1>3. PICK t : IsLoop("begin", 0, c, N, t) /\ begin_run(Fresh) = t[N]
  BY <1>2
<1>4. begin_run(w) = begin_run(Fresh)
  BY BeginGood
<1>5. Links(c, Port) /\ Told(c) /\ \A n \in 1 .. N : n \in Flow
  BY <1>1, FreshLinks, SpecFacts
<1>6. Undisturbed(c, t[N])
  BY <1>2, <1>3, <1>5, LoopUndisturbed DEF Quiet
<1> QED BY <1>1, <1>3, <1>4, <1>6

LEMMA ClockLinks ==
  ASSUME Settled, NEW w, Links(w, Port), NEW t \in Nat, w.now <= t
  PROVE  LET v == [w EXCEPT !.now = t]
         IN  Links(v, Port) /\ \A p \in Port : LinkOf(v, p) = LinkOf(w, p)
<1> DEFINE v == [w EXCEPT !.now = t]
<1>1. /\ DOMAIN v = Fields /\ v.now = t /\ v.port = w.port /\ v.events = w.events
      /\ v.next_seq = w.next_seq /\ v.injected = w.injected /\ v.received = w.received
      /\ v.dropped = w.dropped
  BY DEF Links, Shaped, Fields
<1> HIDE DEF v
<1>2. Shaped(v)
  BY <1>1 DEF Links, Shaped
<1>3. ASSUME NEW e \in v.events, e.type = "Arrive"
      PROVE  e.time \in Nat /\ e.time <= v.now + link(e.port).prop_delay_ns
  <2>1. e.time \in Nat /\ e.time <= w.now + link(e.port).prop_delay_ns
        /\ w.now \in Nat
    BY <1>1, <1>3 DEF Links
  <2>2. link(e.port).prop_delay_ns \in Nat
    BY <1>1, <1>3, CfgFacts DEF Links, Shaped
  <2> QED BY <1>1, <2>1, <2>2
<1>4. Links(v, Port)
  BY <1>1, <1>2, <1>3 DEF Links
<1>5. \A p \in Port : LinkOf(v, p) = LinkOf(w, p)
  BY <1>1, SameLink DEF OnLink
<1> QED BY <1>4, <1>5 DEF v

(* A port with nothing left to do. *)
LEMMA DrainedLinks ==
  ASSUME Settled, NEW w, Links(w, Port), w.events = {}, NEW p \in Port
  PROVE  LET a == LinkOf(w, p) IN a.waiting = <<>> /\ a.serving = <<>> /\ a.wire = <<>>
<1>1. ~w.port[p].busy /\ w.port[p].waiting = <<>> /\ OnLink(w, p) = {}
  BY DEF Links, OnLink
<1> QED BY <1>1, EmptyWire DEF LinkOf

LEMMA SameLinks ==
  ASSUME setting' = setting, Links(sim', Port)
  PROVE  Links(sim, Port)'
<1>1. cfg' = cfg /\ Port' = Port /\ \A u : is_host(u)' <=> is_host(u)
  BY SameSetting
<1>2. \A p : link(p)' = link(p)
  BY <1>1 DEF link
<1>3. Shaped(sim)'
  BY <1>1 DEF Links, Shaped, PortState
<1> QED BY <1>1, <1>2, <1>3 DEF Links

-----------------------------------------------------------------------------
(* Every port is a link *)

Restarted(a, b) == a.waiting = <<>> /\ a.serving = <<>> /\ a.wire = <<>> /\ b = Vacant

PacedInv == IInv /\ Paced /\ Links(sim, Port)

LEMMA StepLinks ==
  ASSUME PacedInv, [Next]_vars
  PROVE  /\ Links(sim', Port)
         /\ \A p \in Port :
              \/ PortSteps(LinkOf(sim, p), LinkOf(sim', p), link(p).queue_capacity_pkts)
              \/ Restarted(LinkOf(sim, p), LinkOf(sim', p))
<1>1. Settled /\ Good(sim) /\ AllRest(sim) /\ Paced /\ Links(sim, Port) /\ DOMAIN sim = Fields
  BY DEF PacedInv, IInv, Good, Typed
<1>2. CASE AdvanceClock
  <2> DEFINE times == {e.time : e \in sim.events}
  <2>1. PICK t : t = Min(times)
    OBVIOUS
  <2>2. times \subseteq Nat /\ times # {} /\ \A e \in sim.events : e.time > sim.now
    BY <1>1, <1>2 DEF Good, Typed, PendingEvent, AdvanceClock
  <2>3. t \in times
    <3> HIDE DEF times
    <3> QED BY <2>1, <2>2, NatMinimum
  <2>4. t \in Nat /\ sim.now <= t
    BY <1>1, <2>2, <2>3 DEF Links
  <2>5. sim' = [sim EXCEPT !.now = t]
    BY <1>2, <2>1 DEF AdvanceClock
  <2> HIDE DEF times
  <2> QED BY <1>1, <2>4, <2>5, ClockLinks DEF PortSteps
<1>3. CASE Dispatch
  <2>1. PICK e \in sim.events : IsFirst(sim, e) /\ Handles(sim, e, sim')
    BY <1>3 DEF Dispatch, IsFirst, Handles, Popped
  <2> QED BY <1>1, <2>1, HandlesLinks
<1>4. CASE Rerun
  <2>1. sim.events = {} /\ sim' = begin_run(sim)
    BY <1>4 DEF Rerun, Drained
  <2>2. Undisturbed(Fresh, sim')
    BY <1>1, <2>1, BeginUndisturbed
  <2>3. Links(sim', Port) /\ \A p \in Port : LinkOf(sim', p) = Vacant
    BY <1>1, <2>2, FreshLinks DEF Undisturbed, Calm
  <2> QED BY <1>1, <2>1, <2>3, DrainedLinks DEF Restarted
<1>5. CASE UNCHANGED vars
  BY <1>1, <1>5 DEF vars, PortSteps
<1> QED BY <1>2, <1>3, <1>4, <1>5 DEF Next, Stop

LEMMA InitPaced == Init /\ Paced => PacedInv
<1> SUFFICES ASSUME Init, Paced PROVE PacedInv
  OBVIOUS
<1>1. IInv /\ DOMAIN Built = Fields /\ sim = begin_run(Built)
  BY InitIInv DEF Built, Fields, Init
<1>2. Links(sim, Port)
  BY <1>1, BeginUndisturbed DEF IInv, Undisturbed, Calm
<1> QED BY <1>1, <1>2 DEF PacedInv

LEMMA StepPaced == PacedInv /\ [Next]_vars => PacedInv'
<1> SUFFICES ASSUME PacedInv, [Next]_vars PROVE PacedInv'
  OBVIOUS
<1>1. IInv' /\ setting' = setting
  BY StepIInv DEF PacedInv, Next, AdvanceClock, Dispatch, Rerun, Stop, vars
<1>2. Paced'
  <2>1. Flow' = Flow /\ \A f : period_ns(f)' = period_ns(f)
    BY <1>1, SameConfig, SameSetting
  <2> QED BY <2>1 DEF PacedInv, Paced
<1>3. Links(sim, Port)'
  BY <1>1, StepLinks, SameLinks
<1> QED BY <1>1, <1>2, <1>3 DEF PacedInv

(* The variables of Link(p) are the fields of LinkOf(sim, p). *)
Shows(a, waiting, serving, wire, sent, dropped) ==
  a = [waiting |-> waiting, serving |-> serving, wire |-> wire, sent |-> sent, dropped |-> dropped]

LEMMA LinkShows ==
  ASSUME NEW p
  PROVE  /\ Shows(LinkOf(sim, p), sim.port[p].waiting, Serving(p), Wire(p),
                  sim.port[p].sent, sim.port[p].dropped)
         /\ Shows(LinkOf(sim', p), sim'.port[p].waiting, Serving(p)', Wire(p)',
                  sim'.port[p].sent, sim'.port[p].dropped)
BY DEF Shows, LinkOf, Serving, Wire, WireOf, OnLink, Pkts

(* The packet a port has taken is its newest. *)
LEMMA NewestTaken ==
  ASSUME NEW a, NEW b, NEW pkt, NEW c \in Nat, Taken(a, b, pkt, c),
         NEW q \in Seq(Packet), NEW r \in Seq(Packet), NEW s, NEW t, NEW x, NEW y,
         NEW k, NEW l, NEW m, NEW n,
         Shows(a, q, s, x, k, m), Shows(b, r, t, y, l, n), t \in Seq(Packet), pkt \in Packet
  PROVE  \/ Len(q) = c /\ n = m + 1 /\ r = q /\ t = s /\ y = x /\ l = k
         \/ /\ Last(<<NoPacket>> \o t \o r) = pkt
            /\ \/ c > 0 /\ s = <<>> /\ t = <<pkt>> /\ r = q /\ y = x /\ l = k /\ n = m
               \/ /\ s # <<>> /\ Len(q) < c /\ r = Append(q, pkt)
                  /\ t = s /\ y = x /\ l = k /\ n = m
<1>1. /\ a.waiting = q /\ a.serving = s /\ a.wire = x /\ a.sent = k /\ a.dropped = m
      /\ b.waiting = r /\ b.serving = t /\ b.wire = y /\ b.sent = l /\ b.dropped = n
      /\ DOMAIN a = {"waiting", "serving", "wire", "sent", "dropped"}
  BY DEF Shows
<1>2. CASE Len(a.waiting) = c /\ b = [a EXCEPT !.dropped = @ + 1]
  BY <1>1, <1>2
<1>3. CASE a.serving = <<>> /\ a.waiting = <<>> /\ c > 0 /\ b = [a EXCEPT !.serving = <<pkt>>]
  <2>1. c > 0 /\ s = <<>> /\ t = <<pkt>> /\ r = q /\ q = <<>> /\ y = x /\ l = k /\ n = m
    BY <1>1, <1>3
  <2> DEFINE z == <<NoPacket>> \o <<pkt>>
  <2>2. z \in Seq({NoPacket, pkt}) /\ Len(z) = 2 /\ z[2] = pkt
    OBVIOUS
  <2> HIDE DEF z
  <2>3. z \o <<>> = z
    BY <2>2
  <2>4. Last(<<NoPacket>> \o t \o r) = pkt
    BY <2>1, <2>2, <2>3 DEF Last, z
  <2> QED BY <2>1, <2>4
<1>4. CASE a.serving # <<>> /\ Len(a.waiting) < c /\ b = [a EXCEPT !.waiting = Append(@, pkt)]
  <2>1. /\ s # <<>> /\ Len(q) < c /\ r = Append(q, pkt)
        /\ t = s /\ y = x /\ l = k /\ n = m
    BY <1>1, <1>4
  <2> DEFINE z == <<NoPacket>> \o t
             Pkt == Packet \cup {NoPacket}
  <2>2. z \in Seq(Pkt) /\ r \in Seq(Pkt) /\ Len(r) \in Nat /\ Len(r) > 0 /\ r[Len(r)] = pkt
    <3>1. r \in Seq(Packet) /\ t \in Seq(Packet)
      OBVIOUS
    <3>2. z \in Seq(Pkt) /\ r \in Seq(Pkt)
      BY <3>1
    <3>3. Len(q) \in Nat
      OBVIOUS
    <3>4. Len(Append(q, pkt)) = Len(q) + 1 /\ Append(q, pkt)[Len(q) + 1] = pkt
      OBVIOUS
    <3>5. Len(r) = Len(q) + 1
      BY <2>1, <3>4
    <3>6. r[Len(r)] = pkt
      BY <2>1, <3>4, <3>5
    <3> QED BY <3>2, <3>3, <3>5, <3>6
  <2> HIDE DEF z, Pkt
  <2>3. Len(z \o r) = Len(z) + Len(r) /\ Len(z) \in Nat
        /\ (z \o r)[Len(z) + Len(r)] = r[Len(r)]
    BY <2>2
  <2>4. Last(z \o r) = pkt
    BY <2>2, <2>3 DEF Last
  <2> QED BY <2>1, <2>4 DEF z
<1> QED BY <1>2, <1>3, <1>4 DEF Taken

LinkMoves(p) ==
  \E q \in {link(p).queue_capacity_pkts}, pkts \in {Newest(p)'} :
    Link(p, pkts, q)!Next \/ UNCHANGED Link(p, pkts, q)!vars

LEMMA PortMoves ==
  ASSUME Settled, NEW p \in Port, Links(sim, Port), Links(sim', Port),
         \/ PortSteps(LinkOf(sim, p), LinkOf(sim', p), link(p).queue_capacity_pkts)
         \/ Restarted(LinkOf(sim, p), LinkOf(sim', p))
  PROVE  LinkMoves(p)
<1> DEFINE a == LinkOf(sim, p)
           b == LinkOf(sim', p)
<1>1. PICK c, newest : c = link(p).queue_capacity_pkts /\ newest = Newest(p)'
  OBVIOUS
<1>2. SUFFICES Link(p, newest, c)!Next \/ UNCHANGED Link(p, newest, c)!vars
  BY <1>1 DEF LinkMoves
<1>3. /\ Shows(a, sim.port[p].waiting, Serving(p), Wire(p), sim.port[p].sent, sim.port[p].dropped)
      /\ Shows(b, sim'.port[p].waiting, Serving(p)', Wire(p)', sim'.port[p].sent,
               sim'.port[p].dropped)
  BY LinkShows
<1>4. /\ sim.port[p] \in PortState /\ sim'.port[p] \in PortState /\ c \in Nat
  BY <1>1, CfgFacts DEF Links, Shaped
<1>5. /\ sim.port[p].waiting \in Seq(Packet) /\ sim'.port[p].waiting \in Seq(Packet)
      /\ Serving(p)' \in Seq(Packet)
  BY <1>4 DEF PortState, Serving
<1>6. newest = {Last(<<NoPacket>> \o Serving(p)' \o sim'.port[p].waiting)}
  BY <1>1 DEF Newest, NoPacket
<1> HIDE DEF a, b
<1>7. CASE b = a
  <2>1. UNCHANGED <<sim.port[p].waiting, Serving(p), Wire(p), sim.port[p].sent,
                    sim.port[p].dropped>>
    BY <1>3, <1>7 DEF Shows
  <2> QED BY <2>1 DEF Link!vars
<1>8. CASE \E pkt \in Packet : Taken(a, b, pkt, c)
  <2>1. PICK pkt \in Packet : Taken(a, b, pkt, c)
    BY <1>8
  <2>2. \/ Len(sim.port[p].waiting) = c /\ sim'.port[p].dropped = sim.port[p].dropped + 1
           /\ UNCHANGED <<sim.port[p].waiting, Serving(p), Wire(p), sim.port[p].sent>>
        \/ /\ newest = {pkt}
           /\ \/ c > 0 /\ Serving(p) = <<>> /\ Serving(p)' = <<pkt>>
                 /\ UNCHANGED <<sim.port[p].waiting, Wire(p), sim.port[p].sent, sim.port[p].dropped>>
              \/ /\ Serving(p) # <<>> /\ Len(sim.port[p].waiting) < c
                 /\ sim'.port[p].waiting = Append(sim.port[p].waiting, pkt)
                 /\ UNCHANGED <<Serving(p), Wire(p), sim.port[p].sent, sim.port[p].dropped>>
    <3>1. PICK q, r, s, t, x, y :
            /\ q = sim.port[p].waiting /\ r = sim'.port[p].waiting
            /\ s = Serving(p) /\ t = Serving(p)' /\ x = Wire(p) /\ y = Wire(p)'
      OBVIOUS
    <3>2. PICK k, l, m, n :
            /\ k = sim.port[p].sent /\ l = sim'.port[p].sent
            /\ m = sim.port[p].dropped /\ n = sim'.port[p].dropped
      OBVIOUS
    <3>3. /\ Shows(a, q, s, x, k, m) /\ Shows(b, r, t, y, l, n)
          /\ q \in Seq(Packet) /\ r \in Seq(Packet) /\ t \in Seq(Packet) /\ c \in Nat
          /\ newest = {Last(<<NoPacket>> \o t \o r)}
      BY <1>3, <1>4, <1>5, <1>6, <3>1, <3>2
    <3>4. \/ Len(q) = c /\ n = m + 1 /\ r = q /\ t = s /\ y = x /\ l = k
          \/ /\ newest = {pkt}
             /\ \/ c > 0 /\ s = <<>> /\ t = <<pkt>> /\ r = q /\ y = x /\ l = k /\ n = m
                \/ /\ s # <<>> /\ Len(q) < c /\ r = Append(q, pkt)
                   /\ t = s /\ y = x /\ l = k /\ n = m
      BY ONLY <2>1, <3>3, NewestTaken
    <3> QED BY <3>1, <3>2, <3>4
  <2> QED BY <1>6, <2>2 DEF Link!Next, Link!Drop, Link!Serve, Link!Wait
<1>9. CASE Finished(a, b)
  <2>1. Link(p, newest, c)!Finish
    BY <1>3, <1>9 DEF Finished, Shows, Link!Finish
  <2> QED BY <2>1 DEF Link!Next
<1>10. CASE \E pkt \in Packet : Propagated(a, b, pkt)
  <2>1. Link(p, newest, c)!Arrive
    BY <1>3, <1>10 DEF Propagated, Shows, Link!Arrive
  <2> QED BY <2>1 DEF Link!Next
<1>11. CASE Restarted(a, b)
  <2>1. Link(p, newest, c)!Restart
    BY <1>3, <1>11 DEF Restarted, Vacant, Shows, Link!Restart
  <2> QED BY <2>1 DEF Link!Next
<1> QED BY <1>1, <1>7, <1>8, <1>9, <1>10, <1>11 DEF PortSteps, a, b

(* Where every packet takes time to send, each of the ports that all the   *)
(* flows share is at every step of every run the drop-tail link, whatever  *)
(* the fabric, its routes and the flows.                                   *)
THEOREM PortsRefine == Spec => (Paced => PortsAreLinks)
<1> DEFINE Move == \A p \in Port : LinkMoves(p)
           Start == \A p \in Port : \E q \in {link(p).queue_capacity_pkts} : Link(p, {}, q)!Init
<1>1. Init => Start
  <2> SUFFICES ASSUME Init, NEW p \in Port, NEW q PROVE Link(p, {}, q)!Init
    OBVIOUS
  <2>1. IInv /\ DOMAIN Built = Fields /\ sim = begin_run(Built)
    BY InitIInv DEF Built, Fields, Init
  <2>2. LinkOf(sim, p) = Vacant
    BY <2>1, BeginUndisturbed, FreshLinks DEF IInv, Undisturbed, Calm
  <2> QED BY <2>2, LinkShows DEF Shows, Vacant, Link!Init
<1>2. PacedInv /\ [Next]_vars => [Move]_vars
  <2> SUFFICES ASSUME PacedInv, [Next]_vars PROVE Move
    OBVIOUS
  <2>1. Links(sim, Port) /\ Settled
    BY DEF PacedInv, IInv
  <2> QED BY <2>1, StepLinks, PortMoves
<1>3. PortsAreLinks <=> Start /\ [][Move]_vars
  BY DEF PortsAreLinks, LinkMoves
<1> HIDE DEF Start, Move
<1> QED BY <1>1, <1>2, <1>3, InitPaced, StepPaced, PTL DEF Spec

-----------------------------------------------------------------------------
(* The packets of a port in the order it took them *)

Lane(a) == a.wire \o a.serving \o a.waiting

Lanes(w) == [p \in Port |-> Lane(LinkOf(w, p))]

LEMMA LinkSeqs ==
  ASSUME NEW w, NEW P, Links(w, P), NEW p \in Port
  PROVE  LET a == LinkOf(w, p)
         IN  /\ a.wire \in Seq(Packet) /\ a.serving \in Seq(Packet) /\ a.waiting \in Seq(Packet)
             /\ Len(a.serving) <= 1 /\ Lane(a) \in Seq(Packet)
             /\ Shows(a, a.waiting, a.serving, a.wire, a.sent, a.dropped)
<1> DEFINE a == LinkOf(w, p)
           S == OnLink(w, p)
<1>1. Line(S) \in Seq(S) /\ \A e \in S : e.pkt \in Packet
  <2>1. \A e \in S : e.pkt \in Packet
    BY DEF OnLink, Links, Shaped
  <2> QED BY <2>1, LinkRanked, LineSeq
<1>2. Pkts(Line(S)) \in Seq(Packet)
  <2> DEFINE l == Line(S)
             n == Len(l)
             s == Pkts(l)
  <2>1. n \in Nat /\ DOMAIN l = 1 .. n /\ \A k \in 1 .. n : l[k].pkt \in Packet
    <3> HIDE DEF S
    <3> QED BY <1>1
  <2>2. s = [k \in 1 .. n |-> l[k].pkt]
    BY <2>1 DEF Pkts
  <2> HIDE DEF l, n, s
  <2>3. s \in Seq(Packet)
    BY <2>1, <2>2
  <2> QED BY <2>3 DEF s, l
<1>3. w.port[p] \in PortState
  BY DEF Links, Shaped
<1>4. /\ a.wire \in Seq(Packet) /\ a.serving \in Seq(Packet) /\ a.waiting \in Seq(Packet)
      /\ Len(a.serving) <= 1
  BY <1>2, <1>3 DEF LinkOf, WireOf, PortState
<1>5. Shows(a, a.waiting, a.serving, a.wire, a.sent, a.dropped)
  BY DEF LinkOf, Shows
<1> HIDE DEF a
<1>6. Lane(a) \in Seq(Packet)
  BY <1>4 DEF Lane
<1> QED BY <1>4, <1>5, <1>6 DEF a

LEMMA LanesType == ASSUME NEW w, NEW P, Links(w, P) PROVE Lanes(w) \in [Port -> Seq(Packet)]
BY LinkSeqs DEF Lanes

(* A packet taken goes to the end of its lane. *)
LEMMA ConcatAppend ==
  ASSUME NEW S, NEW s \in Seq(S), NEW t \in Seq(S), NEW x \in S
  PROVE  s \o Append(t, x) = Append(s \o t, x)
<1> DEFINE a == s \o Append(t, x)
           b == Append(s \o t, x)
<1>1. a \in Seq(S) /\ b \in Seq(S) /\ Len(a) = Len(s) + Len(t) + 1 /\ Len(b) = Len(a)
      /\ Len(a) \in Nat
  OBVIOUS
<1>2. ASSUME NEW k \in 1 .. Len(a) PROVE a[k] = b[k]
  <2>1. Append(t, x) \in Seq(S) /\ Len(Append(t, x)) = Len(t) + 1 /\ s \o t \in Seq(S)
        /\ Len(s \o t) = Len(s) + Len(t) /\ Len(s) \in Nat /\ Len(t) \in Nat
    OBVIOUS
  <2>2. CASE k <= Len(s)
    BY <1>1, <2>1, <2>2
  <2>3. CASE k > Len(s) /\ k <= Len(s) + Len(t)
    BY <1>1, <2>1, <2>3
  <2>4. CASE k = Len(s) + Len(t) + 1
    BY <1>1, <2>1, <2>4
  <2> QED BY <1>1, <2>1, <2>2, <2>3, <2>4
<1> HIDE DEF a, b
<1>3. a = b
  BY <1>1, <1>2
<1> QED BY <1>3 DEF a, b

LEMMA LaneTaken ==
  ASSUME NEW a, NEW b, NEW pkt \in Packet, NEW c \in Nat, Taken(a, b, pkt, c),
         Shows(a, a.waiting, a.serving, a.wire, a.sent, a.dropped),
         a.wire \in Seq(Packet), a.serving \in Seq(Packet), a.waiting \in Seq(Packet)
  PROVE  IF Len(a.waiting) = c THEN Lane(b) = Lane(a) ELSE Lane(b) = Append(Lane(a), pkt)
<1> DEFINE x == a.wire
           y == a.serving
           z == a.waiting
<1>1. DOMAIN a = {"waiting", "serving", "wire", "sent", "dropped"}
  BY DEF Shows
<1>2. CASE Len(z) = c /\ b = [a EXCEPT !.dropped = @ + 1]
  BY <1>1, <1>2 DEF Lane
<1>3. CASE y = <<>> /\ z = <<>> /\ c > 0 /\ b = [a EXCEPT !.serving = <<pkt>>]
  <2>1. b.wire = x /\ b.serving = <<pkt>> /\ b.waiting = z /\ Len(z) # c
    BY <1>1, <1>3
  <2>2. x \o <<pkt>> \o <<>> = Append(x, pkt) /\ x \o <<>> \o <<>> = x
    OBVIOUS
  <2> QED BY <1>3, <2>1, <2>2 DEF Lane
<1>4. CASE y # <<>> /\ Len(z) < c /\ b = [a EXCEPT !.waiting = Append(@, pkt)]
  <2>1. b.wire = x /\ b.serving = y /\ b.waiting = Append(z, pkt) /\ Len(z) # c
    BY <1>1, <1>4
  <2>2. PICK s, t : s = x \o y /\ t = z
    OBVIOUS
  <2>3. s \in Seq(Packet) /\ t \in Seq(Packet)
    BY <2>2
  <2>4. s \o Append(t, pkt) = Append(s \o t, pkt)
    BY <2>3, ConcatAppend
  <2>5. (x \o y) \o Append(z, pkt) = Append((x \o y) \o z, pkt)
    BY <2>2, <2>4
  <2> QED BY <2>1, <2>5 DEF Lane
<1> QED BY <1>2, <1>3, <1>4 DEF Taken

LEMMA LaneFinished ==
  ASSUME NEW a, NEW b, Finished(a, b), Len(a.serving) <= 1,
         a.wire \in Seq(Packet), a.serving \in Seq(Packet), a.waiting \in Seq(Packet)
  PROVE  Lane(b) = Lane(a)
<1> DEFINE x == a.wire
           h == Head(a.serving)
           z == a.waiting
<1>1. a.serving = <<h>> /\ h \in Packet
  BY DEF Finished
<1>2. x \o <<h>> = Append(x, h) /\ Append(x, h) \in Seq(Packet)
  BY <1>1
<1>3. b.wire = Append(x, h)
  BY DEF Finished
<1>4. CASE z = <<>>
  <2>1. b.serving = <<>> /\ b.waiting = <<>>
    BY <1>4 DEF Finished
  <2>2. Append(x, h) \o <<>> \o <<>> = Append(x, h) /\ Append(x, h) \o <<>> = Append(x, h)
    BY <1>2
  <2> QED BY <1>1, <1>2, <1>3, <1>4, <2>1, <2>2 DEF Lane
<1>5. CASE z # <<>>
  <2>1. b.serving = <<Head(z)>> /\ b.waiting = Tail(z)
    BY <1>5 DEF Finished
  <2> DEFINE s == Append(x, h)
  <2>2. s \in Seq(Packet) /\ Head(z) \in Packet /\ Tail(z) \in Seq(Packet)
    BY <1>2, <1>5
  <2> HIDE DEF s
  <2>3. s \o <<Head(z)>> \o Tail(z) = s \o z
    <3>1. s \o <<Head(z)>> \o Tail(z) = s \o (<<Head(z)>> \o Tail(z))
      <4>1. PICK t, u : t = <<Head(z)>> /\ u = Tail(z)
        OBVIOUS
      <4>2. t \in Seq(Packet) /\ u \in Seq(Packet)
        BY <2>2, <4>1
      <4>3. s \o t \o u = s \o (t \o u)
        BY <2>2, <4>2, ConcatAssociative
      <4> QED BY <4>1, <4>3
    <3>2. <<Head(z)>> \o Tail(z) = z
      BY <1>5
    <3> QED BY <3>1, <3>2
  <2> QED BY <1>1, <1>2, <1>3, <2>1, <2>3 DEF Lane, s
<1> QED BY <1>4, <1>5

LEMMA ConcatTail ==
  ASSUME NEW S, NEW s \in Seq(S), NEW t \in Seq(S), s # <<>>
  PROVE  s \o t # <<>> /\ Head(s \o t) = Head(s) /\ Tail(s \o t) = Tail(s) \o t
<1> DEFINE a == Tail(s \o t)
           b == Tail(s) \o t
<1>1. /\ s \o t \in Seq(S) /\ Len(s \o t) = Len(s) + Len(t) /\ Len(s) \in Nat /\ Len(t) \in Nat
      /\ Len(s) > 0 /\ Tail(s) \in Seq(S) /\ Len(Tail(s)) = Len(s) - 1
  OBVIOUS
<1>2. s \o t # <<>> /\ Head(s \o t) = Head(s)
  BY <1>1
<1>3. a \in Seq(S) /\ b \in Seq(S) /\ Len(a) = Len(s) + Len(t) - 1 /\ Len(b) = Len(a)
  BY <1>1, <1>2
<1>4. ASSUME NEW k \in 1 .. Len(a) PROVE a[k] = b[k]
  <2>1. a[k] = (s \o t)[k + 1] /\ k + 1 \in 1 .. Len(s) + Len(t)
    BY <1>1, <1>2, <1>3
  <2>2. CASE k <= Len(s) - 1
    BY <1>1, <1>3, <2>1, <2>2
  <2>3. CASE k > Len(s) - 1
    BY <1>1, <1>3, <2>1, <2>3
  <2> QED BY <1>1, <1>3, <2>2, <2>3
<1> HIDE DEF a, b
<1>5. a = b
  BY <1>3, <1>4
<1> QED BY <1>2, <1>5 DEF a, b

LEMMA LanePropagated ==
  ASSUME NEW a, NEW b, NEW pkt, Propagated(a, b, pkt),
         Shows(a, a.waiting, a.serving, a.wire, a.sent, a.dropped),
         a.wire \in Seq(Packet), a.serving \in Seq(Packet), a.waiting \in Seq(Packet)
  PROVE  Lane(a) # <<>> /\ Head(Lane(a)) = pkt /\ Lane(b) = Tail(Lane(a))
<1> DEFINE x == a.wire
           y == a.serving
           z == a.waiting
<1>1. x # <<>> /\ Head(x) = pkt /\ b.wire = Tail(x) /\ b.serving = y /\ b.waiting = z
  BY DEF Propagated, Shows
<1>2. PICK s, t, u : s = x /\ t = y /\ u = z
  OBVIOUS
<1>3. /\ s \in Seq(Packet) /\ t \in Seq(Packet) /\ u \in Seq(Packet)
      /\ s # <<>> /\ Head(s) = pkt
  BY <1>1, <1>2
<1>4. s \o t # <<>> /\ Head(s \o t) = pkt /\ Tail(s \o t) = Tail(s) \o t
  BY <1>3, ConcatTail
<1>5. PICK r : r = s \o t
  OBVIOUS
<1>6. r \in Seq(Packet) /\ r # <<>> /\ Head(r) = pkt
  BY <1>3, <1>4, <1>5
<1>7. r \o u # <<>> /\ Head(r \o u) = pkt /\ Tail(r \o u) = Tail(r) \o u
  BY <1>3, <1>6, ConcatTail
<1> QED BY <1>1, <1>2, <1>4, <1>5, <1>7 DEF Lane

-----------------------------------------------------------------------------
(* The path of a flow *)

(* The port that the data of flow f goes to from port p: the same for      *)
(* every packet.                                                           *)
Hop(f, p) == select(DataPacket(f, 0), p[2])

Onward(f, S) == \A r \in S : ~is_host(r[2]) => Hop(f, r) \in S

(* The ports that the data of f may still pass after port p. *)
Later(f, p) ==
  {q \in Port : /\ ~is_host(p[2])
                /\ \A S \in SUBSET Port : Hop(f, p) \in S /\ Onward(f, S) => q \in S}

Route(f) == LET p == nic(spec[f].src) IN {p} \cup Later(f, p)

LEMMA HopFacts ==
  ASSUME Settled, NEW f \in Flow, NEW p, ~is_host(p[2])
  PROVE  /\ Hop(f, p) \in Port /\ Hop(f, p)[1] = p[2]
         /\ \A pkt : IsPacket(pkt) /\ pkt.kind = "Data" /\ pkt.flow = f
                       => select(pkt, p[2]) = Hop(f, p)
<1> DEFINE pkt == DataPacket(f, 0)
<1>1. 0 \in Index(f)
  BY PacketsFacts DEF Index
<1>2. IsPacket(pkt)
  BY <1>1, SendFacts
<1>3. pkt.flow = f /\ pkt.kind = "Data"
  BY DEF DataPacket
<1> HIDE DEF pkt
<1>4. Hop(f, p) = select(pkt, p[2])
  BY DEF Hop, pkt
<1>5. select(pkt, p[2]) \in Port /\ select(pkt, p[2])[1] = p[2]
  BY <1>2, SelectFacts
<1>6. ASSUME NEW x, x.kind = "Data", x.flow = f
      PROVE  select(x, p[2]) = select(pkt, p[2])
  BY <1>3, <1>6 DEF select
<1> QED BY <1>4, <1>5, <1>6

LEMMA LaterFacts ==
  ASSUME Settled, NEW f \in Flow, NEW p
  PROVE  /\ Later(f, p) \subseteq Port
         /\ is_host(p[2]) => Later(f, p) = {}
         /\ ~is_host(p[2]) => Hop(f, p) \in Later(f, p)
         /\ \A q \in Later(f, p) : ~is_host(q[2]) => Hop(f, q) \in Later(f, p)
         /\ \A q \in Later(f, p) : q = Hop(f, p) \/ q \in Later(f, Hop(f, p))
<1>1. Later(f, p) \subseteq Port /\ (is_host(p[2]) => Later(f, p) = {})
  BY DEF Later
<1>2. \A r : ~is_host(r[2]) => Hop(f, r) \in Later(f, r)
  BY HopFacts DEF Later
<1>3. \A r : \A q \in Later(f, r) : ~is_host(q[2]) => Hop(f, q) \in Later(f, r)
  BY HopFacts DEF Later, Onward
<1>4. ASSUME NEW q \in Later(f, p)
      PROVE  q = Hop(f, p) \/ q \in Later(f, Hop(f, p))
  <2> DEFINE h == Hop(f, p)
             S == {h} \cup Later(f, h)
  <2>1. h \in Port
    BY <1>4, HopFacts DEF Later
  <2>2. S \in SUBSET Port
    BY <2>1 DEF Later
  <2>3. Onward(f, S)
    <3> HIDE DEF h
    <3> QED BY <1>2, <1>3 DEF Onward
  <2>4. h \in S
    OBVIOUS
  <2> HIDE DEF S
  <2>5. q \in S
    BY <2>2, <2>3, <2>4 DEF Later
  <2> QED BY <2>5 DEF S
<1> QED BY <1>1, <1>2, <1>3, <1>4

-----------------------------------------------------------------------------
(* The data of a flow in the lanes *)

IsData(pkt, f) == pkt.kind = "Data" /\ pkt.flow = f

Spot(L, f, p, k) == p \in Port /\ k \in 1 .. Len(L[p]) /\ IsData(L[p][k], f)

(* Ahead of place k of port q: further on, or before it at the same port.  *)
Ahead(f, p, j, q, k) == p \in Later(f, q) \/ (p = q /\ j < k)

(* The packets of flow f in the lanes are those of the index set I, each   *)
(* once, all on the flow's path, and the lower index is always ahead.      *)
Ordered(L, f, I) ==
  /\ \A p, k : Spot(L, f, p, k) => p \in Route(f) /\ L[p][k].index \in I
  /\ \A i \in I : \E p, k : Spot(L, f, p, k) /\ L[p][k].index = i
  /\ \A p, j, q, k : Spot(L, f, p, j) /\ Spot(L, f, q, k) =>
       /\ L[p][j].index = L[q][k].index => p = q /\ j = k
       /\ L[p][j].index < L[q][k].index => Ahead(f, p, j, q, k)

(* Packet i is put at the end of port q, the others standing as they must. *)
Fits(L, f, q, i) ==
  /\ q \in Route(f)
  /\ \A p, k : Spot(L, f, p, k) => /\ L[p][k].index < i => p = q \/ p \in Later(f, q)
                                   /\ L[p][k].index > i => q \in Later(f, p)

LEMMA OrderedSpot ==
  ASSUME NEW L, NEW f, NEW I, Ordered(L, f, I), NEW p, NEW k, Spot(L, f, p, k)
  PROVE  p \in Route(f) /\ L[p][k].index \in I
BY DEF Ordered

LEMMA OrderedPair ==
  ASSUME NEW L, NEW f, NEW I, Ordered(L, f, I), NEW p, NEW j, NEW q, NEW k,
         Spot(L, f, p, j), Spot(L, f, q, k)
  PROVE  /\ L[p][j].index = L[q][k].index => p = q /\ j = k
         /\ L[p][j].index < L[q][k].index => Ahead(f, p, j, q, k)
BY DEF Ordered

LEMMA OrderedAppend ==
  ASSUME NEW L \in [Port -> Seq(Packet)], NEW f, NEW I \in SUBSET Nat, Ordered(L, f, I),
         NEW q \in Port, NEW pkt \in Packet, IsData(pkt, f) => pkt.index \notin I /\ Fits(L, f, q, pkt.index)
  PROVE  Ordered([L EXCEPT ![q] = Append(L[q], pkt)], f,
                 IF IsData(pkt, f) THEN I \cup {pkt.index} ELSE I)
<1> DEFINE M == [L EXCEPT ![q] = Append(L[q], pkt)]
           n == Len(L[q])
           J == IF IsData(pkt, f) THEN I \cup {pkt.index} ELSE I
<1>1. \A p \in Port : L[p] \in Seq(Packet) /\ Len(L[p]) \in Nat
  OBVIOUS
<1>2. Len(Append(L[q], pkt)) = n + 1 /\ Append(L[q], pkt)[n + 1] = pkt /\ n \in Nat
      /\ \A k \in 1 .. n : Append(L[q], pkt)[k] = L[q][k]
  <2>1. L[q] \in Seq(Packet)
    OBVIOUS
  <2> QED BY <2>1
<1>3. /\ Len(M[q]) = n + 1 /\ M[q][n + 1] = pkt /\ \A k \in 1 .. n : M[q][k] = L[q][k]
      /\ \A p \in Port \ {q} : M[p] = L[p]
  BY <1>2
<1> HIDE DEF M, J
<1>4. \A p, k : Spot(L, f, p, k) => /\ Spot(M, f, p, k) /\ M[p][k] = L[p][k]
                                    /\ p # q \/ k < n + 1
  BY <1>1, <1>2, <1>3 DEF Spot, n
<1>5. \A p, k : Spot(M, f, p, k) =>
        \/ Spot(L, f, p, k) /\ M[p][k] = L[p][k] /\ (p # q \/ k < n + 1)
        \/ p = q /\ k = n + 1 /\ M[p][k] = pkt /\ IsData(pkt, f)
  BY <1>1, <1>2, <1>3 DEF Spot, n
<1>6. IsData(pkt, f) => Spot(M, f, q, n + 1)
  BY <1>2, <1>3 DEF Spot
<1>7. \A p, k : Spot(M, f, p, k) => p \in Route(f) /\ M[p][k].index \in J
  BY <1>5 DEF Ordered, Fits, J
<1>8. \A i \in J : \E p, k : Spot(M, f, p, k) /\ M[p][k].index = i
  <2> TAKE i \in J
  <2>1. CASE i \in I
    BY <1>4, <2>1 DEF Ordered
  <2>2. CASE i \notin I
    BY <1>3, <1>6, <2>2 DEF J
  <2> QED BY <2>1, <2>2
<1>9. ASSUME NEW p, NEW j, NEW r, NEW k, Spot(M, f, p, j), Spot(M, f, r, k)
      PROVE  /\ M[p][j].index = M[r][k].index => p = r /\ j = k
             /\ M[p][j].index < M[r][k].index => Ahead(f, p, j, r, k)
  <2>1. CASE Spot(L, f, p, j) /\ Spot(L, f, r, k)
    <3>1. M[p][j] = L[p][j] /\ M[r][k] = L[r][k]
      BY <1>4, <2>1
    <3>2. /\ L[p][j].index = L[r][k].index => p = r /\ j = k
          /\ L[p][j].index < L[r][k].index => Ahead(f, p, j, r, k)
      BY ONLY <2>1, Ordered(L, f, I), OrderedPair
    <3> QED BY <3>1, <3>2
  <2>2. CASE Spot(L, f, p, j) /\ ~Spot(L, f, r, k)
    <3>1. r = q /\ k = n + 1 /\ M[r][k] = pkt /\ IsData(pkt, f)
      BY <1>5, <1>9, <2>2
    <3>2. M[p][j] = L[p][j] /\ (p # q \/ j < n + 1) /\ L[p][j].index \in I
      BY <1>4, <2>2 DEF Ordered
    <3> QED BY <2>2, <3>1, <3>2 DEF Fits, Ahead
  <2>3. CASE ~Spot(L, f, p, j) /\ Spot(L, f, r, k)
    <3>1. p = q /\ j = n + 1 /\ M[p][j] = pkt /\ IsData(pkt, f)
      BY <1>5, <1>9, <2>3
    <3>2. M[r][k] = L[r][k] /\ L[r][k].index \in I /\ L[r][k].index \in Nat /\ pkt.index \in Nat
      BY <1>4, <2>3 DEF Ordered, Packet
    <3>3. pkt.index < L[r][k].index => L[r][k].index > pkt.index
      BY <3>2
    <3> QED BY <2>3, <3>1, <3>2, <3>3 DEF Fits, Ahead
  <2>4. CASE ~Spot(L, f, p, j) /\ ~Spot(L, f, r, k)
    <3>1. p = r /\ j = k /\ M[p][j].index = pkt.index /\ M[r][k].index = pkt.index /\ pkt.index \in Nat
      BY <1>5, <1>9, <2>4 DEF Packet
    <3> QED BY <3>1
  <2> QED BY <2>1, <2>2, <2>3, <2>4
<1>10. Ordered(M, f, J)
  BY <1>7, <1>8, <1>9 DEF Ordered
<1> QED BY <1>10 DEF M, J

(* The first packet of port p is taken out. *)
LEMMA OrderedTail ==
  ASSUME NEW L \in [Port -> Seq(Packet)], NEW f, NEW I \in SUBSET Nat, Ordered(L, f, I),
         NEW p \in Port, L[p] # <<>>
  PROVE  LET M == [L EXCEPT ![p] = Tail(L[p])]
             pkt == Head(L[p])
             i == pkt.index
         IN  /\ Ordered(M, f, IF IsData(pkt, f) THEN I \ {i} ELSE I)
             /\ IsData(pkt, f) =>
                  /\ i \in I /\ p \in Route(f)
                  /\ \A r, k : Spot(M, f, r, k) =>
                       /\ M[r][k].index < i => r \in Later(f, p)
                       /\ M[r][k].index > i => p \in Later(f, r) \/ r = p
<1> DEFINE M == [L EXCEPT ![p] = Tail(L[p])]
           pkt == Head(L[p])
           i == pkt.index
           J == IF IsData(pkt, f) THEN I \ {i} ELSE I
           Up(r, k) == IF r = p THEN k + 1 ELSE k
<1>1. \A r \in Port : L[r] \in Seq(Packet) /\ Len(L[r]) \in Nat
  OBVIOUS
<1>2. /\ Len(Tail(L[p])) = Len(L[p]) - 1 /\ Len(L[p]) \in Nat \ {0} /\ L[p][1] = pkt
      /\ \A k \in 1 .. Len(L[p]) - 1 : Tail(L[p])[k] = L[p][k + 1]
      /\ pkt \in Packet
  <2>1. L[p] \in Seq(Packet) /\ L[p] # <<>>
    OBVIOUS
  <2> QED BY <2>1
<1>3. /\ Len(M[p]) = Len(L[p]) - 1 /\ \A k \in 1 .. Len(L[p]) - 1 : M[p][k] = L[p][k + 1]
      /\ \A r \in Port \ {p} : M[r] = L[r]
  BY <1>2
<1> HIDE DEF M, J, pkt
<1>4. ASSUME NEW r, NEW k, Spot(M, f, r, k)
      PROVE  /\ Spot(L, f, r, Up(r, k)) /\ M[r][k] = L[r][Up(r, k)]
             /\ r # p \/ Up(r, k) > 1
  <2>1. r \in Port /\ k \in 1 .. Len(M[r]) /\ IsData(M[r][k], f)
    BY <1>4 DEF Spot
  <2>2. CASE r = p
    <3>1. k \in 1 .. Len(L[p]) - 1 /\ k + 1 \in 1 .. Len(L[p]) /\ k + 1 > 1
      <4>1. PICK m, n : m = Len(M[p]) /\ n = Len(L[p])
        OBVIOUS
      <4>2. n \in Nat /\ m = n - 1 /\ k \in 1 .. m
        BY <1>2, <1>3, <2>1, <2>2, <4>1
      <4>3. k \in 1 .. n - 1 /\ k + 1 \in 1 .. n /\ k + 1 > 1
        BY <4>2
      <4> QED BY <4>1, <4>3
    <3>2. M[p][k] = L[p][k + 1] /\ Up(r, k) = k + 1
      BY <1>3, <2>2, <3>1
    <3> QED BY <2>1, <2>2, <3>1, <3>2 DEF Spot
  <2>3. CASE r # p
    BY <1>3, <2>1, <2>3 DEF Spot
  <2> QED BY <2>2, <2>3
<1>5. ASSUME NEW r, NEW k, Spot(L, f, r, k), r # p \/ k # 1
      PROVE  \E j : Spot(M, f, r, j) /\ M[r][j] = L[r][k]
  <2>1. r \in Port /\ k \in 1 .. Len(L[r]) /\ IsData(L[r][k], f)
    BY <1>5 DEF Spot
  <2>2. CASE r = p
    <3>1. k - 1 \in 1 .. Len(M[r]) /\ M[r][k - 1] = L[r][k]
      <4>1. k - 1 \in 1 .. Len(L[p]) - 1 /\ (k - 1) + 1 = k
        BY <1>2, <1>5, <2>1, <2>2
      <4> QED BY <1>3, <2>2, <4>1
    <3> QED BY <2>1, <3>1 DEF Spot
  <2>3. CASE r # p
    BY <1>3, <2>1, <2>3 DEF Spot
  <2> QED BY <2>2, <2>3
<1>6. IsData(pkt, f) => Spot(L, f, p, 1) /\ i \in I /\ p \in Route(f) /\ i \in Nat
  <2> SUFFICES ASSUME IsData(pkt, f)
               PROVE  Spot(L, f, p, 1) /\ i \in I /\ p \in Route(f) /\ i \in Nat
    OBVIOUS
  <2>1. 1 \in 1 .. Len(L[p]) /\ L[p][1] = pkt
    BY <1>2
  <2>2. Spot(L, f, p, 1)
    BY <2>1 DEF Spot
  <2>3. p \in Route(f) /\ L[p][1].index \in I
    BY <2>2, OrderedSpot
  <2> QED BY <2>1, <2>2, <2>3
<1>7. ASSUME NEW r, NEW k, Spot(M, f, r, k)
      PROVE  r \in Route(f) /\ M[r][k].index \in J
  <2>1. /\ Spot(L, f, r, Up(r, k)) /\ M[r][k] = L[r][Up(r, k)] /\ (r # p \/ Up(r, k) > 1)
    BY <1>4, <1>7
  <2>2. r \in Route(f) /\ M[r][k].index \in I
    BY <2>1 DEF Ordered
  <2>3. IsData(pkt, f) => M[r][k].index # i
    <3>1. PICK j : j = Up(r, k)
      OBVIOUS
    <3>2. Spot(L, f, r, j) /\ M[r][k] = L[r][j] /\ (r # p \/ j > 1)
      BY <2>1, <3>1
    <3>3. r # p \/ j # 1
      BY <3>2 DEF Spot
    <3>4. ASSUME Spot(L, f, p, 1)
          PROVE  L[r][j].index = L[p][1].index => r = p /\ j = 1
      <4>1. PICK c : c = 1
        OBVIOUS
      <4>2. Spot(L, f, p, c)
        BY <3>4, <4>1
      <4>3. /\ L[r][j].index = L[p][c].index => r = p /\ j = c
            /\ L[r][j].index < L[p][c].index => Ahead(f, r, j, p, c)
        BY ONLY <3>2, <4>2, Ordered(L, f, I), OrderedPair
      <4> QED BY <4>1, <4>3
    <3> QED BY <1>2, <1>6, <3>2, <3>3, <3>4
  <2> QED BY <2>2, <2>3 DEF J
<1>8. ASSUME NEW j \in J
      PROVE  \E r, k : Spot(M, f, r, k) /\ M[r][k].index = j
  <2>1. j \in I /\ (IsData(pkt, f) => j # i)
    BY DEF J
  <2>2. PICK r, k : Spot(L, f, r, k) /\ L[r][k].index = j
    BY <2>1 DEF Ordered
  <2>3. r # p \/ k # 1
    BY <1>2, <2>1, <2>2 DEF Spot
  <2> QED BY <1>5, <2>2, <2>3
<1>9. ASSUME NEW q, NEW j, NEW r, NEW k, Spot(M, f, q, j), Spot(M, f, r, k)
      PROVE  /\ M[q][j].index = M[r][k].index => q = r /\ j = k
             /\ M[q][j].index < M[r][k].index => Ahead(f, q, j, r, k)
  <2>1. /\ Spot(L, f, q, Up(q, j)) /\ M[q][j] = L[q][Up(q, j)]
        /\ Spot(L, f, r, Up(r, k)) /\ M[r][k] = L[r][Up(r, k)]
    BY <1>4, <1>9
  <2>2. /\ M[q][j].index = M[r][k].index => q = r /\ Up(q, j) = Up(r, k)
        /\ M[q][j].index < M[r][k].index => Ahead(f, q, Up(q, j), r, Up(r, k))
    <3>1. PICK a, b : a = Up(q, j) /\ b = Up(r, k)
      OBVIOUS
    <3>2. /\ Spot(L, f, q, a) /\ M[q][j] = L[q][a]
          /\ Spot(L, f, r, b) /\ M[r][k] = L[r][b]
      BY <2>1, <3>1
    <3>3. /\ L[q][a].index = L[r][b].index => q = r /\ a = b
          /\ L[q][a].index < L[r][b].index => Ahead(f, q, a, r, b)
      BY <3>2, OrderedPair
    <3> QED BY <3>1, <3>2, <3>3
  <2>3. j \in Nat /\ k \in Nat
    BY <1>3, <1>9 DEF Spot
  <2> QED BY <2>2, <2>3 DEF Ahead
<1>10. Ordered(M, f, J)
  BY <1>7, <1>8, <1>9 DEF Ordered
<1>11. ASSUME IsData(pkt, f), NEW r, NEW k, Spot(M, f, r, k)
       PROVE  /\ M[r][k].index < i => r \in Later(f, p)
              /\ M[r][k].index > i => p \in Later(f, r) \/ r = p
  <2>1. PICK j : j = Up(r, k)
    OBVIOUS
  <2>2. Spot(L, f, r, j) /\ M[r][k] = L[r][j] /\ (r # p \/ j > 1)
    BY <1>4, <1>11, <2>1
  <2>3. /\ L[r][j].index < i => Ahead(f, r, j, p, 1)
        /\ i < L[r][j].index => Ahead(f, p, 1, r, j)
    BY <1>2, <1>6, <1>11, <2>2 DEF Ordered
  <2>4. j \in Nat /\ (r = p => ~(j < 1))
    BY <2>2 DEF Spot
  <2>5. L[r][j].index \in I
    BY <2>2 DEF Ordered
  <2>6. L[r][j].index > i => i < L[r][j].index
    BY <1>6, <1>11, <2>5
  <2> QED BY <2>2, <2>3, <2>4, <2>6 DEF Ahead
<1> QED BY <1>6, <1>10, <1>11 DEF M, J, pkt

-----------------------------------------------------------------------------
(* What the handlers do to the lanes *)

(* Packet pkt is put at the end of the lane of port q, or dropped; data    *)
(* that is dropped is counted against its flow.                            *)
Joins(w, v, q, pkt) ==
  /\ Links(v, Port) /\ v.tx = w.tx /\ v.attempt = w.attempt /\ v.delivered = w.delivered
  /\ \A g \in Flow :
       /\ v.result[g].packets_delivered = w.result[g].packets_delivered
       /\ v.result[g].packets_retransmitted = w.result[g].packets_retransmitted
  /\ \/ /\ Lanes(v) = [Lanes(w) EXCEPT ![q] = Append(Lanes(w)[q], pkt)]
        /\ \A g \in Flow : v.result[g].packets_dropped = w.result[g].packets_dropped
     \/ /\ Lanes(v) = Lanes(w)
        /\ \A g \in Flow : v.result[g].packets_dropped =
             w.result[g].packets_dropped + (IF IsData(pkt, g) THEN 1 ELSE 0)

LEMMA EnqueueJoins ==
  ASSUME Settled, NEW w, Links(w, Port), w.result \in [Flow -> FlowResult],
         NEW q \in Port, NEW pkt \in Packet, pkt.flow \in Flow
  PROVE  Joins(w, enqueue(w, q, pkt), q, pkt)
<1> DEFINE v == enqueue(w, q, pkt)
           c == link(q).queue_capacity_pkts
           a == LinkOf(w, q)
           b == LinkOf(v, q)
           full == Len(w.port[q].waiting) = c
<1>1. /\ Links(v, Port) /\ Taken(a, b, pkt, c)
      /\ \A p \in Port \ {q} : LinkOf(v, p) = LinkOf(w, p)
  BY EnqueueLink DEF Enqueued
<1>2. DOMAIN w = Fields /\ c \in Nat
  BY CfgFacts DEF Links, Shaped
<1>3. /\ v.tx = w.tx /\ v.attempt = w.attempt /\ v.delivered = w.delivered
      /\ v.result = IF full THEN Drop(w, q, pkt).result ELSE w.result
  BY <1>2, EnqueueKeeps
<1>4. a.waiting = w.port[q].waiting
  BY DEF LinkOf
<1> HIDE DEF v, a, b, c
<1>5. IF full THEN Lane(b) = Lane(a) ELSE Lane(b) = Append(Lane(a), pkt)
  BY <1>1, <1>2, <1>4, LinkSeqs, LaneTaken DEF a
<1>6. \A p \in Port \ {q} : Lane(LinkOf(v, p)) = Lane(LinkOf(w, p))
  BY <1>1
<1>7. IF full THEN Lanes(v) = Lanes(w)
      ELSE Lanes(v) = [Lanes(w) EXCEPT ![q] = Append(Lanes(w)[q], pkt)]
  BY <1>5, <1>6 DEF Lanes, a, b
<1>8. CASE ~full
  BY <1>1, <1>3, <1>7, <1>8 DEF Joins, v
<1>9. CASE full
  <2> DEFINE n == IF pkt.kind = "Ack" THEN w.result[pkt.flow].packets_dropped
                  ELSE w.result[pkt.flow].packets_dropped + 1
  <2>1. v.result = [w.result EXCEPT ![pkt.flow] = [@ EXCEPT !.packets_dropped = n]]
    BY <1>2, <1>3, <1>9 DEF Drop, Fields
  <2>2. \A g \in Flow : /\ v.result[g].packets_delivered = w.result[g].packets_delivered
                        /\ v.result[g].packets_retransmitted = w.result[g].packets_retransmitted
                        /\ v.result[g].packets_dropped =
                             IF g = pkt.flow THEN n ELSE w.result[g].packets_dropped
    BY <2>1 DEF FlowResult
  <2>3. pkt.kind \in Kind /\ \A g \in Flow : w.result[g].packets_dropped \in Nat
    BY DEF Packet, FlowResult
  <2>4. \A g \in Flow : v.result[g].packets_dropped =
          w.result[g].packets_dropped + (IF IsData(pkt, g) THEN 1 ELSE 0)
    BY <2>2, <2>3 DEF IsData, Kind
  <2> QED BY <1>1, <1>3, <1>7, <1>9, <2>2, <2>4 DEF Joins, v
<1> QED BY <1>8, <1>9

(* Nothing of flow f has been lost or sent again. *)
Clean(w, f) == w.result[f].packets_dropped = 0 /\ w.result[f].packets_retransmitted = 0

LEMMA JoinsOrdered ==
  ASSUME NEW w, Links(w, Port), NEW v, NEW q \in Port, NEW pkt \in Packet, Joins(w, v, q, pkt),
         NEW g \in Flow, w.result[g].packets_dropped \in Nat,
         NEW I \in SUBSET Nat, Ordered(Lanes(w), g, I),
         IsData(pkt, g) => pkt.index \notin I /\ Fits(Lanes(w), g, q, pkt.index), Clean(v, g)
  PROVE  Ordered(Lanes(v), g, IF IsData(pkt, g) THEN I \cup {pkt.index} ELSE I)
<1>1. PICK L, M : L = Lanes(w) /\ M = Lanes(v)
  OBVIOUS
<1>2. L \in [Port -> Seq(Packet)]
  BY <1>1, LanesType
<1>3. CASE M = [L EXCEPT ![q] = Append(L[q], pkt)]
  <2>1. Ordered(L, g, I) /\ (IsData(pkt, g) => pkt.index \notin I /\ Fits(L, g, q, pkt.index))
    BY <1>1
  <2>2. Ordered([L EXCEPT ![q] = Append(L[q], pkt)], g, IF IsData(pkt, g) THEN I \cup {pkt.index} ELSE I)
    BY <1>2, <2>1, OrderedAppend
  <2> QED BY <1>1, <1>3, <2>2
<1>4. CASE M = L /\ v.result[g].packets_dropped =
             w.result[g].packets_dropped + (IF IsData(pkt, g) THEN 1 ELSE 0)
  <2>1. ~IsData(pkt, g)
    BY <1>4 DEF Clean
  <2> QED BY <1>1, <1>4, <2>1
<1> QED BY <1>1, <1>3, <1>4 DEF Joins

LEMMA JoinsClean ==
  ASSUME NEW w, NEW v, NEW q, NEW pkt, Joins(w, v, q, pkt), NEW g \in Flow,
         w.result[g].packets_dropped \in Nat, Clean(v, g)
  PROVE  Clean(w, g)
BY DEF Joins, Clean

Under(w, f) == w.result[f].packets_delivered .. w.tx[f].next_seq - 1

(* The order of the packets of flow f: those sent and not yet delivered    *)
(* are on their way, the oldest ahead, and were none lost or sent again.   *)
InLine(w, f) ==
  /\ Tried(w, f)
  /\ Clean(w, f) => /\ Ordered(Lanes(w), f, Under(w, f))
                    /\ w.delivered[f] = 0 .. w.result[f].packets_delivered - 1

AllInLine(w) == Links(w, Port) /\ \A f \in Flow : InLine(w, f)

LEMMA CalmLanes == ASSUME NEW w, NEW v, Calm(w, v, Port) PROVE Lanes(v) = Lanes(w)
BY DEF Calm, Lanes

LEMMA UndisturbedInLine ==
  ASSUME NEW w, NEW v, Undisturbed(w, v), AllInLine(w)
  PROVE  AllInLine(v)
<1>1. Lanes(v) = Lanes(w)
  BY CalmLanes DEF Undisturbed
<1> QED BY <1>1 DEF Undisturbed, AllInLine, InLine, Clean, Under, Calm

LEMMA AckInLine ==
  ASSUME NEW w, AllInLine(w), Told(w), NEW v, NEW q \in Port, NEW pkt \in Packet,
         Joins(w, v, q, pkt), pkt.kind = "Ack"
  PROVE  AllInLine(v)
<1> SUFFICES ASSUME NEW g \in Flow PROVE InLine(v, g)
  BY DEF AllInLine, Joins
<1>1. ~IsData(pkt, g)
  BY DEF IsData
<1>2. /\ Under(v, g) = Under(w, g) /\ v.delivered[g] = w.delivered[g] /\ (Tried(w, g) => Tried(v, g))
      /\ v.result[g].packets_delivered = w.result[g].packets_delivered
  BY DEF Joins, Under, Tried
<1>3. w.result[g].packets_dropped \in Nat /\ Under(w, g) \subseteq Nat
  BY DEF Told, TxState, FlowResult, Under
<1>4. Clean(v, g) => Clean(w, g)
  BY <1>3, JoinsClean
<1>5. Clean(v, g) /\ Ordered(Lanes(w), g, Under(w, g)) => Ordered(Lanes(v), g, Under(w, g))
  BY <1>1, <1>3, JoinsOrdered DEF AllInLine
<1> QED BY <1>2, <1>4, <1>5 DEF InLine, AllInLine

LEMMA ToldCounts ==
  ASSUME NEW w, Told(w), NEW g \in Flow
  PROVE  /\ w.result[g].packets_dropped \in Nat /\ w.result[g].packets_retransmitted \in Nat
         /\ w.result[g].packets_delivered \in Nat /\ w.tx[g].next_seq \in Nat
         /\ Under(w, g) \in SUBSET Nat
<1>1. /\ w.result[g].packets_dropped \in Nat /\ w.result[g].packets_retransmitted \in Nat
      /\ w.result[g].packets_delivered \in Nat /\ w.tx[g].next_seq \in Nat
  BY DEF Told, TxState, FlowResult
<1> QED BY <1>1 DEF Under

(* What is received does not go beyond what is sent. *)
LEMMA ReceivedSent ==
  ASSUME NEW w, Good(w), NEW f \in Flow,
         w.delivered[f] = 0 .. w.result[f].packets_delivered - 1
  PROVE  w.result[f].packets_delivered <= w.tx[f].next_seq
<1> DEFINE m == w.result[f].packets_delivered
           n == w.tx[f].next_seq
<1>1. m \in Nat /\ n \in Nat
  BY GoodTold, ToldCounts
<1>2. 0 .. m - 1 \subseteq 0 .. n - 1
  BY DEF Good, Received, Sent
<1> HIDE DEF m, n
<1>3. m # 0 => m - 1 \in 0 .. m - 1
  BY <1>1
<1>4. m # 0 => m - 1 \in 0 .. n - 1
  BY <1>2, <1>3
<1>5. m <= n
  BY <1>1, <1>4
<1> QED BY <1>5 DEF m, n

LEMMA TurnInLine ==
  ASSUME Settled, NEW w, Good(w), AllInLine(w), NEW f \in Flow, Released(w, f), ~w.tx[f].failed
  PROVE  AllInLine(Turn(w, f))
<1> DEFINE v == Turn(w, f)
           p == nic(spec[f].src)
<1>1. /\ Sends(w, v, f) /\ Told(w) /\ Told(v) /\ w.tx[f] \in TxState /\ v.tx[f] \in TxState
      /\ Idles(w, v, f) \/ SendsOne(w, v, f)
  BY TurnGood, TurnSends, GoodTold DEF AllInLine, Told
<1> HIDE DEF v
<1>2. /\ v.attempt = w.attempt /\ v.delivered = w.delivered
      /\ \A g \in Flow : v.result[g].packets_delivered = w.result[g].packets_delivered
      /\ \A g \in Flow \ {f} : v.tx[g] = w.tx[g]
  BY <1>1 DEF Sends
<1>3. \A g \in Flow \ {f} : (Tried(w, g) => Tried(v, g)) /\ Under(v, g) = Under(w, g)
  BY <1>2 DEF Tried, Under
<1>4. InSeq(v.tx[f].retx) \subseteq InSeq(w.tx[f].retx) /\ Tried(w, f) => Tried(v, f)
  BY <1>2 DEF Tried, InRing, InSeq
<1>5. CASE Idles(w, v, f)
  <2>1. Lanes(v) = Lanes(w) /\ v.result = w.result /\ Links(v, Port)
    BY <1>5, CalmLanes DEF Idles, Calm
  <2>2. Under(v, f) = Under(w, f) /\ (Tried(w, f) => Tried(v, f))
    BY <1>4, <1>5, <2>1 DEF Idles, Under
  <2>3. \A g \in Flow : (Tried(w, g) => Tried(v, g)) /\ Under(v, g) = Under(w, g)
    BY <1>3, <2>2
  <2>4. \A g \in Flow : InLine(w, g) => InLine(v, g)
    BY <1>2, <2>1, <2>3 DEF InLine, Clean
  <2>5. AllInLine(v)
    BY <2>1, <2>4 DEF AllInLine
  <2> QED BY <2>5 DEF v
<1>6. CASE SendsOne(w, v, f)
  <2>1. PICK i \in Index(f) : \E u : \E ring \in Seq(Nat), next \in Nat :
       /\ Sending(w, u, f, i, ring, next)
       /\ v = enqueue(u, nic(spec[f].src), DataPacket(f, i))
       /\ InSeq(ring) \subseteq InSeq(w.tx[f].retx)
       /\ \/ i = w.tx[f].next_seq /\ next = i + 1
          \/ next = w.tx[f].next_seq /\ i \in InSeq(w.tx[f].retx)
    BY <1>6 DEF SendsOne
  <2>2. PICK u, ring, next :
       /\ Sending(w, u, f, i, ring, next)
       /\ v = enqueue(u, p, DataPacket(f, i))
       /\ InSeq(ring) \subseteq InSeq(w.tx[f].retx)
       /\ \/ i = w.tx[f].next_seq /\ next = i + 1
          \/ next = w.tx[f].next_seq /\ i \in InSeq(w.tx[f].retx)
    BY <2>1
  <2> DEFINE pkt == DataPacket(f, i)
  <2>3. /\ p \in Port /\ pkt \in Packet /\ pkt.flow = f /\ pkt.kind = "Data" /\ pkt.index = i
    BY SendFacts, IsPacketTyped DEF DataPacket
  <2>4. Links(u, Port) /\ u.result \in [Flow -> FlowResult] /\ Lanes(u) = Lanes(w)
    BY <2>2, CalmLanes DEF Sending, Calm
  <2>5. Joins(u, v, p, pkt)
    BY <2>2, <2>3, <2>4, EnqueueJoins
  <2> HIDE DEF pkt, p
  <2>6. /\ v.tx[f].retx = ring /\ v.tx[f].next_seq = next /\ Links(v, Port)
        /\ u.result[f].packets_retransmitted =
             w.result[f].packets_retransmitted + (IF w.attempt[f][i] > 0 THEN 1 ELSE 0)
        /\ \A g \in Flow \ {f} : u.result[g] = w.result[g]
        /\ u.result[f].packets_dropped = w.result[f].packets_dropped
    BY <2>2, <2>5 DEF Sending, Joins
  <2>7. \A g \in Flow : u.result[g].packets_dropped \in Nat
    BY <2>4 DEF FlowResult
  <2>8. ASSUME NEW g \in Flow \ {f} PROVE InLine(v, g)
    <3>1. Clean(v, g) => Clean(w, g)
      BY <2>5, <2>6, <2>7, JoinsClean DEF Clean
    <3>2. ~IsData(pkt, g) /\ Under(w, g) \in SUBSET Nat
      BY <1>1, <2>3, <2>8, ToldCounts DEF IsData
    <3>3. Clean(v, g) /\ Ordered(Lanes(u), g, Under(w, g)) => Ordered(Lanes(v), g, Under(w, g))
      BY <2>3, <2>4, <2>5, <2>7, <3>2, JoinsOrdered
    <3> QED BY <1>2, <1>3, <2>4, <3>1, <3>3 DEF AllInLine, InLine
  <2>9. InLine(v, f)
    <3>1. Tried(v, f) /\ Tried(w, f)
      BY <1>4, <2>2, <2>6 DEF AllInLine, InLine
    <3>2. SUFFICES ASSUME Clean(v, f)
                   PROVE  /\ Ordered(Lanes(v), f, Under(v, f))
                          /\ v.delivered[f] = 0 .. v.result[f].packets_delivered - 1
      BY <3>1 DEF InLine
    <3>3. Clean(u, f)
      BY <2>5, <2>7, <3>2, JoinsClean
    <3>4. ~(w.attempt[f][i] > 0) /\ Clean(w, f)
      BY <1>1, <2>6, <3>3, ToldCounts DEF Clean
    <3>5. i \notin InSeq(w.tx[f].retx)
      BY <3>1, <3>4 DEF Tried, InRing, InSeq
    <3>6. i = w.tx[f].next_seq /\ v.tx[f].next_seq = i + 1
      BY <2>2, <2>6, <3>5
    <3>7. Ordered(Lanes(w), f, Under(w, f)) /\ w.delivered[f] = 0 .. w.result[f].packets_delivered - 1
      BY <3>4 DEF AllInLine, InLine
    <3>8. w.result[f].packets_delivered <= i
      BY <3>6, <3>7, ReceivedSent
    <3>9. Under(v, f) = Under(w, f) \cup {i} /\ i \notin Under(w, f) /\ Under(w, f) \in SUBSET Nat
          /\ \A j \in Under(w, f) : j < i /\ ~(j > i)
      <4>1. PICK m : m = w.result[f].packets_delivered
        OBVIOUS
      <4>2. m \in Nat /\ i \in Nat /\ m <= i
        BY <1>1, <3>6, <3>8, <4>1, ToldCounts
      <4>3. Under(w, f) = m .. i - 1 /\ Under(v, f) = m .. i
        BY <1>2, <3>6, <4>1, <4>2 DEF Under
      <4>4. m .. i = (m .. i - 1) \cup {i} /\ i \notin m .. i - 1
            /\ \A j \in m .. i - 1 : j < i /\ ~(j > i)
        BY <4>2
      <4> QED BY <4>2, <4>3, <4>4
    <3>10. Fits(Lanes(w), f, p, i)
      <4>1. p \in Route(f) /\ \A q \in Route(f) : q = p \/ q \in Later(f, p)
        BY DEF Route, p
      <4>2. \A q, k : Spot(Lanes(w), f, q, k) =>
              /\ q \in Route(f) /\ Lanes(w)[q][k].index \in Under(w, f)
        BY <3>7, OrderedSpot
      <4> QED BY <3>9, <4>1, <4>2 DEF Fits
    <3>11. Ordered(Lanes(v), f, IF IsData(pkt, f) THEN Under(w, f) \cup {pkt.index} ELSE Under(w, f))
      BY <2>3, <2>4, <2>5, <2>7, <3>2, <3>7, <3>9, <3>10, JoinsOrdered
    <3> QED BY <1>2, <2>3, <3>7, <3>9, <3>11 DEF IsData
  <2>10. AllInLine(v)
    BY <2>6, <2>8, <2>9 DEF AllInLine
  <2> QED BY <2>10 DEF v
<1> QED BY <1>1, <1>5, <1>6 DEF v

LEMMA SendLoopInLine ==
  ASSUME Settled, NEW w, Good(w), AllInLine(w), NEW f \in Flow, Released(w, f), ~w.tx[f].failed
  PROVE  AllInLine(SendLoop(w, f))
<1>1. PICK N, t : Turns(w, f, t, N)
  BY SendLoopTurns
<1>2. /\ N \in Nat /\ t[0] = w /\ SendLoop(w, f) = t[N]
      /\ \A n \in 1 .. N : /\ t[n] = Turn(t[n - 1], f) /\ Good(t[n - 1])
                           /\ Released(t[n - 1], f) /\ ~t[n - 1].tx[f].failed
  BY <1>1 DEF Turns
<1> DEFINE T == {n \in 0 .. N : ~AllInLine(t[n])}
<1>3. T = {}
  <2>1. SUFFICES ASSUME T # {} PROVE FALSE
    OBVIOUS
  <2> DEFINE m == Min(T)
  <2>2. m \in T /\ \A n \in T : m <= n
    <3>1. T \subseteq Nat
      BY <1>2
    <3> HIDE DEF T
    <3> QED BY <2>1, <3>1, NatMinimum
  <2>3. m \in 0 .. N /\ ~AllInLine(t[m])
    BY <2>2
  <2> HIDE DEF m
  <2>4. m \in 1 .. N /\ m - 1 \in 0 .. N /\ m - 1 \notin T
    <3>1. m # 0
      BY <1>2, <2>3
    <3> HIDE DEF T
    <3> QED BY <1>2, <2>2, <2>3, <3>1
  <2>5. AllInLine(t[m - 1])
    BY <2>4
  <2>6. AllInLine(Turn(t[m - 1], f))
    BY <1>2, <2>4, <2>5, TurnInLine
  <2> QED BY <1>2, <2>3, <2>4, <2>6
<1> QED BY <1>2, <1>3

LEMMA CallsInLine ==
  ASSUME Settled, NEW w, AllInLine(w), NEW f \in Flow, NEW x, Calls(w, x, f)
  PROVE  AllInLine(x)
<1>1. PICK u : /\ Good(u) /\ Silent(w, u, f)
               /\ x = u \/ (Released(u, f) /\ x = try_send(u, f))
  BY DEF Calls
<1>2. Undisturbed(w, u)
  <2>1. Aside(w, u)
    BY <1>1 DEF Good, Typed, Silent, Aside
  <2>2. Calm(w, u, Port) /\ Told(u)
    BY <1>1, <2>1, AsideCalm, GoodTold DEF AllInLine
  <2>3. \A g \in Flow \ {f} : Tried(w, g) => Tried(u, g)
    BY <1>1 DEF Silent, Tried
  <2> QED BY <1>1, <2>2, <2>3 DEF Silent, Undisturbed
<1>3. AllInLine(u)
  BY <1>2, UndisturbedInLine
<1> QED BY <1>1, <1>3, SendLoopInLine DEF try_send

(* What every event leaves alone but that of a sender or a receiver. *)
Spared(w, v) == /\ v.tx = w.tx /\ v.attempt = w.attempt /\ v.delivered = w.delivered
                /\ v.result = w.result

LEMMA SparedInLine ==
  ASSUME NEW w, NEW v, Spared(w, v), Links(v, Port), Lanes(v) = Lanes(w),
         \A f \in Flow : InLine(w, f)
  PROVE  AllInLine(v)
BY DEF Spared, AllInLine, InLine, Tried, Clean, Under

LEMMA FinishSpares ==
  ASSUME Settled, NEW w, NEW e, e.port \in Port, Links(w, Port \ {e.port}), w.port[e.port].busy
  PROVE  Spared(w, on_tx_complete(w, e))
<1> DEFINE p == e.port
           u == [w EXCEPT !.port[p].sent = @ + 1]
           y(v) == [v EXCEPT !.port[p].waiting = Tail(@), !.port[p].busy = TRUE,
                             !.port[p].in_flight = Head(v.port[p].waiting)]
           b(v) == [v EXCEPT !.port[p].busy = FALSE]
           x == on_tx_complete(w, e)
<1>1. DOMAIN w = Fields
  BY DEF Links, Shaped
<1>2. \A v, d : DOMAIN v = Fields => DOMAIN Push(v, d) = Fields /\ Spared(v, Push(v, d))
  BY DEF Push, Fields, Spared
<1>3. \A v : DOMAIN v = Fields => /\ DOMAIN y(v) = Fields /\ DOMAIN b(v) = Fields
                                  /\ Spared(v, y(v)) /\ Spared(v, b(v))
  BY DEF Fields, Spared
<1>4. DOMAIN u = Fields /\ Spared(w, u)
  BY <1>1 DEF Fields, Spared
<1>5. \A v : \E d : start_tx(v, p) = Push(y(v), d)
  BY DEF start_tx
<1>6. \E d : x = IF Push(u, d).port[p].waiting # <<>> THEN start_tx(Push(u, d), p) ELSE b(Push(u, d))
  BY DEF on_tx_complete
<1> HIDE DEF u, y, b, x
<1>7. PICK d : x = IF Push(u, d).port[p].waiting # <<>> THEN start_tx(Push(u, d), p) ELSE b(Push(u, d))
  BY <1>6
<1>8. PICK v : v = Push(u, d)
  OBVIOUS
<1>9. DOMAIN v = Fields /\ Spared(w, v)
  BY <1>2, <1>4, <1>8 DEF Spared
<1>10. x = start_tx(v, p) \/ x = b(v)
  BY <1>7, <1>8
<1>11. Spared(v, x)
  BY <1>2, <1>3, <1>5, <1>9, <1>10 DEF Spared
<1>12. Spared(w, x)
  BY <1>9, <1>11 DEF Spared
<1> QED BY <1>12 DEF x

LEMMA PoppedSpares == ASSUME NEW w, NEW e, DOMAIN w = Fields PROVE Spared(w, Popped(w, e))
BY DEF Popped, Spared, Fields

LEMMA FinishInLine ==
  ASSUME Settled, NEW w, NEW e, e.port \in Port, Links(w, Port \ {e.port}), w.port[e.port].busy,
         \A f \in Flow : InLine(w, f)
  PROVE  AllInLine(on_tx_complete(w, e))
<1> DEFINE v == on_tx_complete(w, e)
           a == LinkOf(w, e.port)
           b == LinkOf(v, e.port)
<1>1. /\ Links(v, Port) /\ Finished(a, b)
      /\ \A q \in Port \ {e.port} : LinkOf(v, q) = LinkOf(w, q)
  BY TxCompleteLink
<1>2. Spared(w, v)
  BY FinishSpares
<1> HIDE DEF v, a, b
<1>3. Lane(b) = Lane(a)
  BY <1>1, LinkSeqs, LaneFinished DEF a
<1>4. Lanes(v) = Lanes(w)
  BY <1>1, <1>3 DEF Lanes, a, b
<1>5. AllInLine(v)
  BY <1>1, <1>2, <1>4, SparedInLine
<1> QED BY <1>5 DEF v

(* A packet comes off the wire of port p: v is the state w without it.     *)
Leaves(w, v, p, pkt) ==
  /\ Links(v, Port) /\ Spared(w, v) /\ p \in Port
  /\ Lanes(w)[p] # <<>> /\ Head(Lanes(w)[p]) = pkt
  /\ Lanes(v) = [Lanes(w) EXCEPT ![p] = Tail(Lanes(w)[p])]

LEMMA PoppedLeaves ==
  ASSUME Settled, NEW w, Links(w, Port), NEW e \in w.events, IsFirst(w, e), e.type = "Arrive"
  PROVE  Leaves(w, Popped(w, e), e.port, e.pkt)
<1> DEFINE v == Popped(w, e)
           a == LinkOf(w, e.port)
           b == LinkOf(v, e.port)
<1>1. /\ Links(v, Port) /\ e.port \in Port /\ Propagated(a, b, e.pkt)
      /\ \A q \in Port \ {e.port} : LinkOf(v, q) = LinkOf(w, q)
  BY PoppedLinks DEF IsFirst
<1>2. Spared(w, v)
  BY PoppedSpares DEF Links, Shaped
<1> HIDE DEF v, a, b
<1>3. Lane(a) # <<>> /\ Head(Lane(a)) = e.pkt /\ Lane(b) = Tail(Lane(a))
  BY <1>1, LinkSeqs, LanePropagated DEF a
<1>4. Lanes(v) = [Lanes(w) EXCEPT ![e.port] = Tail(Lanes(w)[e.port])]
  BY <1>1, <1>3 DEF Lanes, a, b
<1>5. Lanes(w)[e.port] = Lane(a)
  BY <1>1 DEF Lanes, a
<1>6. Leaves(w, v, e.port, e.pkt)
  BY <1>1, <1>2, <1>3, <1>4, <1>5 DEF Leaves
<1> QED BY <1>6 DEF v

(* What is left of the order of flow f. *)
LEMMA LeavesOrdered ==
  ASSUME NEW w, AllInLine(w), Told(w), NEW v, NEW p, NEW pkt, Leaves(w, v, p, pkt),
         NEW f \in Flow, Clean(w, f)
  PROVE  LET i == pkt.index
         IN  /\ Ordered(Lanes(v), f, IF IsData(pkt, f) THEN Under(w, f) \ {i} ELSE Under(w, f))
             /\ IsData(pkt, f) =>
                  /\ i \in Under(w, f) /\ p \in Route(f)
                  /\ \A r, k : Spot(Lanes(v), f, r, k) =>
                       /\ Lanes(v)[r][k].index < i => r \in Later(f, p)
                       /\ Lanes(v)[r][k].index > i => p \in Later(f, r) \/ r = p
<1>1. PICK L, M, I : L = Lanes(w) /\ M = Lanes(v) /\ I = Under(w, f)
  OBVIOUS
<1>2. L \in [Port -> Seq(Packet)] /\ I \in SUBSET Nat
  BY <1>1, LanesType, ToldCounts DEF AllInLine
<1>3. Ordered(L, f, I)
  BY <1>1 DEF AllInLine, InLine
<1>4. p \in Port /\ L[p] # <<>> /\ Head(L[p]) = pkt /\ M = [L EXCEPT ![p] = Tail(L[p])]
  BY <1>1 DEF Leaves
<1>5. LET i == pkt.index
      IN  /\ Ordered(M, f, IF IsData(pkt, f) THEN I \ {i} ELSE I)
          /\ IsData(pkt, f) =>
               /\ i \in I /\ p \in Route(f)
               /\ \A r, k : Spot(M, f, r, k) =>
                    /\ M[r][k].index < i => r \in Later(f, p)
                    /\ M[r][k].index > i => p \in Later(f, r) \/ r = p
  BY <1>2, <1>3, <1>4, OrderedTail
<1> QED BY <1>1, <1>5

(* At a switch the packet joins the port that its whole flow goes to.      *)
LEMMA SwitchInLine ==
  ASSUME Settled, NEW w, AllInLine(w), Told(w), NEW v, NEW p, NEW pkt, Leaves(w, v, p, pkt),
         IsPacket(pkt), ~is_host(p[2])
  PROVE  AllInLine(enqueue(v, select(pkt, p[2]), pkt))
<1> DEFINE q == select(pkt, p[2])
           x == enqueue(v, q, pkt)
           i == pkt.index
<1>1. pkt \in Packet /\ pkt.flow \in Flow /\ q \in Port /\ i \in Nat
  BY SelectFacts, IsPacketTyped DEF IsPacket, Packet
<1>2. v.result \in [Flow -> FlowResult] /\ Links(v, Port)
  BY DEF Told, Leaves, Spared
<1> HIDE DEF q
<1>3. Joins(v, x, q, pkt)
  BY <1>1, <1>2, EnqueueJoins
<1> HIDE DEF x
<1>4. SUFFICES ASSUME NEW f \in Flow PROVE InLine(x, f)
  BY <1>3 DEF Joins, AllInLine, x, q
<1>5. /\ Tried(x, f) /\ Under(x, f) = Under(w, f) /\ x.delivered[f] = w.delivered[f]
      /\ x.result[f].packets_delivered = w.result[f].packets_delivered
  <2>1. Tried(w, f)
    BY DEF AllInLine, InLine
  <2> QED BY <1>3, <2>1 DEF Joins, Leaves, Spared, Under, Tried
<1>6. SUFFICES ASSUME Clean(x, f) PROVE Ordered(Lanes(x), f, Under(w, f)) /\ Clean(w, f)
  BY <1>5 DEF InLine, AllInLine
<1>7. v.result[f].packets_dropped \in Nat /\ Under(w, f) \in SUBSET Nat
  BY <1>2, ToldCounts DEF FlowResult
<1>8. Clean(w, f)
  BY <1>3, <1>6, <1>7, JoinsClean DEF Leaves, Spared, Clean
<1>9. /\ Ordered(Lanes(v), f, IF IsData(pkt, f) THEN Under(w, f) \ {i} ELSE Under(w, f))
      /\ IsData(pkt, f) =>
           /\ i \in Under(w, f) /\ p \in Route(f)
           /\ \A r, k : Spot(Lanes(v), f, r, k) =>
                /\ Lanes(v)[r][k].index < i => r \in Later(f, p)
                /\ Lanes(v)[r][k].index > i => p \in Later(f, r) \/ r = p
  BY <1>8, LeavesOrdered
<1>10. CASE ~IsData(pkt, f)
  <2>1. Ordered(Lanes(x), f, Under(w, f))
    BY <1>1, <1>2, <1>3, <1>6, <1>7, <1>9, <1>10, JoinsOrdered
  <2> QED BY <1>8, <2>1
<1>11. CASE IsData(pkt, f)
  <2> DEFINE I == Under(w, f) \ {i}
  <2>1. q = Hop(f, p)
    BY <1>11, HopFacts DEF q, IsData
  <2>2. /\ q \in Later(f, p)
        /\ \A r \in Later(f, p) : r = q \/ r \in Later(f, q)
        /\ \A r : p \in Later(f, r) => q \in Later(f, r)
    BY <2>1, LaterFacts
  <2>3. q \in Route(f)
    BY <1>9, <1>11, <2>2 DEF Route
  <2>4. Fits(Lanes(v), f, q, i)
    BY <1>9, <1>11, <2>2, <2>3 DEF Fits
  <2>5. Ordered(Lanes(v), f, I) /\ I \in SUBSET Nat /\ i \notin I /\ I \cup {i} = Under(w, f)
    BY <1>7, <1>9, <1>11
  <2> HIDE DEF I
  <2>6. Ordered(Lanes(x), f, IF IsData(pkt, f) THEN I \cup {i} ELSE I)
    BY <1>1, <1>2, <1>3, <1>6, <1>7, <2>4, <2>5, JoinsOrdered
  <2> QED BY <1>8, <1>11, <2>5, <2>6
<1> QED BY <1>10, <1>11

(* At its destination data is the oldest that is missing.                  *)
LEMMA ReceiverInLine ==
  ASSUME Settled, NEW w, AllInLine(w), Told(w), NEW v, NEW p, NEW pkt, Leaves(w, v, p, pkt),
         is_host(p[2]), NEW f \in Flow, IsData(pkt, f), NEW u, Hands(v, u, f, pkt.index)
  PROVE  AllInLine(u)
<1> DEFINE i == pkt.index
<1>1. Lanes(u) = Lanes(v) /\ Links(u, Port)
  BY CalmLanes DEF Hands, Calm
<1>2. \A g \in Flow : Tried(u, g) /\ (Clean(u, g) <=> Clean(w, g))
  <2>1. \A g \in Flow : Tried(v, g)
    BY DEF AllInLine, InLine, Tried, Leaves, Spared
  <2> QED BY <2>1 DEF Hands, Leaves, Spared, Clean
<1>3. ASSUME NEW g \in Flow \ {f}, Clean(u, g)
      PROVE  /\ Ordered(Lanes(u), g, Under(u, g))
             /\ u.delivered[g] = 0 .. u.result[g].packets_delivered - 1
  <2>1. ~IsData(pkt, g) /\ Clean(w, g)
    BY <1>2, <1>3 DEF IsData
  <2>2. Ordered(Lanes(v), g, Under(w, g))
    BY <2>1, LeavesOrdered
  <2>3. Under(u, g) = Under(w, g) /\ u.delivered[g] = w.delivered[g]
        /\ u.result[g].packets_delivered = w.result[g].packets_delivered
    BY DEF Hands, Leaves, Spared, Under
  <2> QED BY <1>1, <2>1, <2>2, <2>3 DEF AllInLine, InLine
<1>4. ASSUME Clean(u, f)
      PROVE  /\ Ordered(Lanes(u), f, Under(u, f))
             /\ u.delivered[f] = 0 .. u.result[f].packets_delivered - 1
  <2>1. PICK m, n : m = w.result[f].packets_delivered /\ n = w.tx[f].next_seq
    OBVIOUS
  <2>2. m \in Nat /\ n \in Nat /\ Under(w, f) = m .. n - 1
    BY <2>1, ToldCounts DEF Under
  <2>3. Clean(w, f) /\ w.delivered[f] = 0 .. m - 1
    BY <1>2, <1>4, <2>1 DEF AllInLine, InLine
  <2>4. /\ Ordered(Lanes(v), f, (m .. n - 1) \ {i}) /\ i \in m .. n - 1
        /\ \A r, k : Spot(Lanes(v), f, r, k) => ~(Lanes(v)[r][k].index < i)
    <3>1. Later(f, p) = {}
      BY LaterFacts
    <3> QED BY <2>2, <2>3, <3>1, LeavesOrdered
  <2>5. i = m
    <3>1. SUFFICES ASSUME i # m PROVE FALSE
      OBVIOUS
    <3>2. m \in (m .. n - 1) \ {i} /\ m < i
      BY <2>2, <2>4, <3>1
    <3>3. PICK r, k : Spot(Lanes(v), f, r, k) /\ Lanes(v)[r][k].index = m
      BY <2>4, <3>2 DEF Ordered
    <3> QED BY <2>4, <3>2, <3>3
  <2>6. m \notin 0 .. m - 1 /\ 0 .. (m + 1) - 1 = (0 .. m - 1) \cup {m}
        /\ (m .. n - 1) \ {m} = m + 1 .. n - 1
    BY <2>2
  <2>7. u.delivered[f] = 0 .. (m + 1) - 1 /\ u.result[f].packets_delivered = m + 1
        /\ u.tx[f].next_seq = n
    BY <2>1, <2>3, <2>5, <2>6 DEF Hands, Leaves, Spared
  <2> QED BY <1>1, <2>4, <2>5, <2>6, <2>7 DEF Under
<1> QED BY <1>1, <1>2, <1>3, <1>4 DEF AllInLine, InLine

LEMMA ArriveInLine ==
  ASSUME Settled, NEW w, Good(w), AllRest(w), AllInLine(w),
         NEW e \in w.events, IsFirst(w, e), e.type = "Arrive"
  PROVE  AllInLine(on_arrive(Popped(w, e), e))
<1> DEFINE v == Popped(w, e)
           at == e.port[2]
           pkt == e.pkt
           f == pkt.flow
           i == pkt.index
           x == on_arrive(v, e)
<1>1. Good(v) /\ AllRest(v) /\ Leaves(w, v, e.port, pkt) /\ Told(w) /\ Told(v)
  BY PoppedGood, PoppedLeaves, GoodTold DEF NetTypes, AllInLine
<1>2. MayCarry(w, v) /\ EventSound(w, e)
  BY PoppedFacts DEF MayCarry, Sent
<1> HIDE DEF v
<1>3. Homeward(v, e.port, pkt)
  BY <1>2, HomewardGrows DEF EventSound
<1>4. /\ IsPacket(pkt) /\ Released(v, f)
      /\ pkt.kind = "Ack" => i \in v.delivered[f]
      /\ is_host(at) => at = Home(f, pkt.kind)
  BY <1>3 DEF Homeward, Carried
<1>5. f \in Flow /\ i \in Index(f) /\ pkt.kind \in Kind /\ pkt.bytes \in Nat /\ Links(v, Port)
  BY <1>1, <1>4 DEF IsPacket, Leaves
<1>6. CASE ~is_host(at)
  <2>1. x = enqueue(v, select(pkt, at), pkt)
    BY <1>6 DEF on_arrive
  <2> QED BY <1>1, <1>4, <1>6, <2>1, SwitchInLine DEF v
<1>7. CASE is_host(at) /\ pkt.kind = "Ack"
  <2> DEFINE u == [v EXCEPT !.received["Ack"] = @ + pkt.bytes]
  <2>1. x = on_ack(u, f, i)
    BY <1>7 DEF on_arrive
  <2>2. Recounted(v, u)
    BY <1>1, <1>5 DEF Good, Typed, Fields, Recounted, Kind
  <2> HIDE DEF u
  <2>3. Good(u) /\ AllRest(u)
    BY <1>1, <2>2, RecountedGood
  <2>4. Released(u, f) /\ i \in u.delivered[f]
    BY <1>4, <1>7, <2>2 DEF Recounted, Released
  <2>5. Calls(u, x, f)
    BY <1>5, <2>1, <2>3, <2>4, AckGood
  <2>6. Undisturbed(v, u)
    BY <1>1, <1>5, <2>2, AsideUndisturbed DEF Recounted, Aside
  <2>7. AllInLine(v)
    <3>1. \A g \in Flow : ~IsData(pkt, g)
      BY <1>7 DEF IsData
    <3>2. \A g \in Flow : Clean(w, g) => Ordered(Lanes(v), g, Under(w, g))
      BY <1>1, <3>1, LeavesOrdered
    <3> QED BY <1>1, <1>5, <3>2 DEF AllInLine, InLine, Leaves, Spared, Tried, Clean, Under
  <2>8. AllInLine(u)
    BY <2>6, <2>7, UndisturbedInLine
  <2>9. AllInLine(x)
    BY <1>5, <2>5, <2>8, CallsInLine
  <2> QED BY <2>9 DEF v
<1>8. CASE is_host(at) /\ pkt.kind # "Ack"
  <2>1. x = on_data_arrival(v, f, i, pkt.bytes) /\ at = spec[f].dst /\ IsData(pkt, f)
    BY <1>4, <1>5, <1>8 DEF on_arrive, Home, IsData, Kind
  <2>2. PICK u : Hands(v, u, f, i) /\ x = enqueue(u, nic(spec[f].dst), AckPacket(f, i))
    BY <1>1, <1>5, <2>1, ArrivalHands, GoodTold
  <2>3. /\ nic(spec[f].dst) \in Port /\ AckPacket(f, i) \in Packet
        /\ AckPacket(f, i).kind = "Ack" /\ AckPacket(f, i).flow = f
    BY <1>5, <2>1, SendFacts, IsPacketTyped DEF AckPacket
  <2>4. AllInLine(u) /\ Told(u)
    BY <1>1, <1>5, <1>8, <2>1, <2>2, ReceiverInLine DEF Hands
  <2>5. Joins(u, x, nic(spec[f].dst), AckPacket(f, i))
    BY <1>5, <2>2, <2>3, <2>4, EnqueueJoins DEF AllInLine, Told
  <2>6. AllInLine(x)
    BY <2>3, <2>4, <2>5, AckInLine
  <2> QED BY <2>6 DEF v
<1> QED BY <1>6, <1>7, <1>8

LEMMA HandlesInLine ==
  ASSUME Settled, NEW w, Good(w), AllRest(w), AllInLine(w),
         NEW e \in w.events, IsFirst(w, e), NEW v, Handles(w, e, v)
  PROVE  AllInLine(v)
<1> DEFINE a == Popped(w, e)
           f == e.pkt.flow
<1>1. /\ Links(a, IF e.type = "TxComplete" THEN Port \ {e.port} ELSE Port)
      /\ e.type # "Arrive" => \A p \in Port : LinkOf(a, p) = LinkOf(w, p)
  BY PoppedLinks DEF IsFirst, AllInLine
<1>2. EventSound(w, e) /\ a.port = w.port
  BY PoppedFacts
<1>3. Spared(w, a)
  BY PoppedSpares DEF Good, Typed
<1> HIDE DEF a
<1>4. e.type # "Arrive" => Lanes(a) = Lanes(w) /\ \A g \in Flow : InLine(a, g)
  <2> SUFFICES ASSUME e.type # "Arrive"
               PROVE  Lanes(a) = Lanes(w) /\ \A g \in Flow : InLine(a, g)
    OBVIOUS
  <2>1. Lanes(a) = Lanes(w)
    BY <1>1 DEF Lanes
  <2> QED BY <1>3, <2>1 DEF Spared, AllInLine, InLine, Tried, Clean, Under
<1>5. CASE e.type \in {"Inject", "Timeout"}
  <2>1. f \in Flow /\ AllInLine(a)
    BY <1>1, <1>2, <1>4, <1>5 DEF EventSound, AllInLine
  <2>2. Calls(a, v, f)
    BY <1>5, InjectGood, TimeoutGood DEF Handles, a
  <2> QED BY <2>1, <2>2, CallsInLine
<1>6. CASE e.type = "TxComplete"
  <2>1. /\ e.port \in Port /\ a.port[e.port].busy /\ v = on_tx_complete(a, e)
        /\ Links(a, Port \ {e.port})
    BY <1>1, <1>2, <1>6 DEF EventSound, Handles, a
  <2> QED BY <1>4, <1>6, <2>1, FinishInLine
<1>7. CASE e.type = "Arrive"
  BY <1>7, ArriveInLine DEF Handles
<1> QED BY <1>5, <1>6, <1>7 DEF Handles

-----------------------------------------------------------------------------
(* The order of a run *)

LEMMA NoLanes == <<>> \o <<>> \o <<>> = <<>>
OBVIOUS

LEMMA FreshInLine == ASSUME Settled PROVE AllInLine(Fresh)
<1> DEFINE w == Fresh
<1>1. Links(w, Port) /\ \A p \in Port : LinkOf(w, p) = Vacant
  BY FreshLinks
<1>2. ASSUME NEW f \in Flow
      PROVE  /\ w.tx[f].next_seq = 0 /\ w.tx[f].retx = <<>>
             /\ w.result[f].packets_delivered = 0 /\ w.delivered[f] = {}
  BY DEF Fresh
<1> HIDE DEF w
<1>3. \A p \in Port : Lanes(w)[p] = <<>>
  BY <1>1, NoLanes DEF Lanes, Lane, Vacant
<1>4. ASSUME NEW f \in Flow PROVE InLine(w, f)
  <2>1. Tried(w, f)
    BY <1>2 DEF Tried, InRing
  <2>2. \A p, k : ~Spot(Lanes(w), f, p, k)
    BY <1>3 DEF Spot
  <2>3. Under(w, f) = {} /\ 0 .. 0 - 1 = {}
    BY <1>2 DEF Under
  <2>4. Ordered(Lanes(w), f, {})
    BY <2>2 DEF Ordered
  <2> QED BY <1>2, <2>1, <2>3, <2>4 DEF InLine
<1> QED BY <1>1, <1>4 DEF AllInLine, w

OrderInv == IInv /\ AllInLine(sim)

LEMMA StepInLine == ASSUME OrderInv, [Next]_vars PROVE AllInLine(sim')
<1>1. Settled /\ Good(sim) /\ AllRest(sim) /\ AllInLine(sim) /\ Links(sim, Port) /\ DOMAIN sim = Fields
  BY DEF OrderInv, IInv, Good, Typed, AllInLine
<1>2. CASE AdvanceClock
  <2> DEFINE times == {e.time : e \in sim.events}
  <2>1. PICK t : t = Min(times)
    OBVIOUS
  <2>2. times \subseteq Nat /\ times # {} /\ \A e \in sim.events : e.time > sim.now
    BY <1>1, <1>2 DEF Good, Typed, PendingEvent, AdvanceClock
  <2>3. t \in times
    <3> HIDE DEF times
    <3> QED BY <2>1, <2>2, NatMinimum
  <2>4. t \in Nat /\ sim.now <= t
    <3>1. \A x \in times : x \in Nat /\ x > sim.now
      BY <2>2
    <3>2. sim.now \in Nat
      BY <1>1 DEF Links
    <3> HIDE DEF times
    <3> QED BY <2>3, <3>1, <3>2
  <2>5. sim' = [sim EXCEPT !.now = t]
    BY <1>2, <2>1 DEF AdvanceClock
  <2> HIDE DEF times
  <2>6. Links(sim', Port) /\ \A p \in Port : LinkOf(sim', p) = LinkOf(sim, p)
    BY <1>1, <2>4, <2>5, ClockLinks
  <2>7. Lanes(sim') = Lanes(sim) /\ Spared(sim, sim')
    BY <1>1, <2>5, <2>6 DEF Lanes, Spared, Fields
  <2> QED BY <1>1, <2>6, <2>7, SparedInLine DEF AllInLine
<1>3. CASE Dispatch
  <2>1. PICK e \in sim.events : IsFirst(sim, e) /\ Handles(sim, e, sim')
    BY <1>3 DEF Dispatch, IsFirst, Handles, Popped
  <2> QED BY <1>1, <2>1, HandlesInLine
<1>4. CASE Rerun
  <2>1. sim' = begin_run(sim)
    BY <1>4 DEF Rerun
  <2> QED BY <1>1, <2>1, BeginUndisturbed, FreshInLine, UndisturbedInLine
<1>5. CASE UNCHANGED vars
  BY <1>1, <1>5 DEF vars
<1> QED BY <1>2, <1>3, <1>4, <1>5 DEF Next, Stop

LEMMA SameLater ==
  ASSUME setting' = setting
  PROVE  (\A f, p : Later(f, p)' = Later(f, p)) /\ (\A f : Route(f)' = Route(f))
<1>1. /\ spec' = spec /\ Port' = Port /\ (\A u : is_host(u)' <=> is_host(u))
      /\ (\A h : nic(h)' = nic(h)) /\ (\A pkt, u : select(pkt, u)' = select(pkt, u))
      /\ (\A f, i : DataPacket(f, i)' = DataPacket(f, i))
  BY SameSetting, SameConfig
<1>2. \A f, p : Hop(f, p)' = Hop(f, p)
  BY <1>1 DEF Hop
<1>3. \A f, S : Onward(f, S)' <=> Onward(f, S)
  BY <1>1, <1>2 DEF Onward
<1>4. \A f, p : Later(f, p)' = Later(f, p)
  BY <1>1, <1>2, <1>3 DEF Later
<1> QED BY <1>1, <1>4 DEF Route

LEMMA SameInLine ==
  ASSUME setting' = setting, AllInLine(sim')
  PROVE  AllInLine(sim)'
<1>1. /\ Flow' = Flow /\ Port' = Port /\ \A f : Index(f)' = Index(f)
      /\ (\A f, p : Later(f, p)' = Later(f, p)) /\ (\A f : Route(f)' = Route(f))
  BY SameSetting, SameLater
<1>2. Links(sim, Port)'
  BY SameLinks DEF AllInLine
<1>3. ASSUME NEW L, NEW f, NEW I, Ordered(L, f, I) PROVE Ordered(L, f, I)'
  <2>1. \A p, k : Spot(L, f, p, k)' <=> Spot(L, f, p, k)
    BY <1>1 DEF Spot
  <2>2. \A p, j, q, k : Ahead(f, p, j, q, k)' <=> Ahead(f, p, j, q, k)
    BY <1>1 DEF Ahead
  <2>3. (\A p, k : Spot(L, f, p, k) => p \in Route(f) /\ L[p][k].index \in I)'
    BY <1>1, <1>3, <2>1, OrderedSpot
  <2>4. (\A i \in I : \E p, k : Spot(L, f, p, k) /\ L[p][k].index = i)'
    BY <1>3, <2>1 DEF Ordered
  <2>5. (\A p, j, q, k : Spot(L, f, p, j) /\ Spot(L, f, q, k) =>
           /\ L[p][j].index = L[q][k].index => p = q /\ j = k
           /\ L[p][j].index < L[q][k].index => Ahead(f, p, j, q, k))'
    BY <1>3, <2>1, <2>2, OrderedPair
  <2> QED BY <2>3, <2>4, <2>5 DEF Ordered
<1>4. Lanes(sim)' = Lanes(sim')
  BY <1>1 DEF Lanes
<1>5. \A f : (Tried(sim, f)' <=> Tried(sim', f)) /\ Under(sim, f)' = Under(sim', f)
  BY <1>1 DEF Tried, Under
<1>6. ASSUME NEW f, InLine(sim', f) PROVE InLine(sim, f)'
  BY <1>3, <1>4, <1>5, <1>6 DEF InLine, Clean
<1> QED BY <1>1, <1>2, <1>6 DEF AllInLine

LEMMA InitOrder == Init => OrderInv
<1> SUFFICES ASSUME Init PROVE OrderInv
  OBVIOUS
<1>1. IInv /\ DOMAIN Built = Fields /\ sim = begin_run(Built)
  BY InitIInv DEF Built, Fields, Init
<1>2. AllInLine(sim)
  BY <1>1, BeginUndisturbed, FreshInLine, UndisturbedInLine DEF IInv
<1> QED BY <1>1, <1>2 DEF OrderInv

LEMMA StepOrder == OrderInv /\ [Next]_vars => OrderInv'
<1> SUFFICES ASSUME OrderInv, [Next]_vars PROVE OrderInv'
  OBVIOUS
<1>1. IInv' /\ setting' = setting
  BY StepIInv DEF OrderInv, Next, AdvanceClock, Dispatch, Rerun, Stop, vars
<1>2. AllInLine(sim)'
  BY <1>1, StepInLine, SameInLine
<1> QED BY <1>1, <1>2 DEF OrderInv

LEMMA OrderInvInOrder == OrderInv => InOrder
BY DEF OrderInv, AllInLine, InLine, Clean, InOrder

(* A flow that lost and resent nothing is received in the order in which   *)
(* it was sent, whatever the fabric, the table and the other flows.        *)
THEOREM OrderKept == Spec => []InOrder
BY InitOrder, StepOrder, OrderInvInOrder, PTL DEF Spec

-----------------------------------------------------------------------------
(* Percentiles *)

(* The order in which the times x[i] of the flows in D are sorted. *)
Sooner(x, i, j) == x[i] < x[j] \/ (x[i] = x[j] /\ i < j)

Earlier(x, D, i) == {j \in D : Sooner(x, j, i)}

Standing(x, D, i) == Cardinality(Earlier(x, D, i))

LEMMA SoonerOrders ==
  ASSUME NEW D, D \subseteq Nat, NEW x, \A i \in D : x[i] \in Int,
         NEW i \in D, NEW j \in D
  PROVE  /\ ~Sooner(x, i, i)
         /\ i = j \/ Sooner(x, i, j) \/ Sooner(x, j, i)
         /\ \A k \in D : Sooner(x, k, i) /\ Sooner(x, i, j) => Sooner(x, k, j)
BY DEF Sooner

(* The places are 0 to one less than the number of flows, each taken once. *)
LEMMA PlaceTaken ==
  ASSUME NEW D, IsFiniteSet(D), D \subseteq Nat, NEW x, \A i \in D : x[i] \in Int,
         NEW k \in 1 .. Cardinality(D)
  PROVE  \E i \in D : Standing(x, D, i) = k - 1
<1> DEFINE n == Cardinality(D)
           R == {Standing(x, D, i) : i \in D}
           g == [i \in D |-> Standing(x, D, i)]
<1>1. n \in Nat
  BY FS_CardinalityType
<1>2. ASSUME NEW i \in D PROVE IsFiniteSet(Earlier(x, D, i)) /\ Standing(x, D, i) \in 0 .. n - 1
  <2>1. Earlier(x, D, i) \subseteq D /\ Earlier(x, D, i) # D
    BY SoonerOrders DEF Earlier
  <2>2. /\ IsFiniteSet(Earlier(x, D, i)) /\ Standing(x, D, i) <= n
        /\ Standing(x, D, i) # n /\ Standing(x, D, i) \in Nat
    BY <2>1, FS_Subset, FS_CardinalityType DEF Standing
  <2> QED BY <1>1, <2>2
<1>3. ASSUME NEW i \in D, NEW j \in D, Sooner(x, i, j)
      PROVE  Standing(x, D, i) # Standing(x, D, j)
  <2>1. Earlier(x, D, i) \subseteq Earlier(x, D, j) /\ i \in Earlier(x, D, j)
        /\ i \notin Earlier(x, D, i)
    BY <1>3, SoonerOrders DEF Earlier
  <2> QED BY <1>2, <2>1, FS_Subset DEF Standing
<1>4. g \in Surjection(D, R)
  BY DEF Surjection
<1>5. g \in Injection(D, R)
  <2>1. ASSUME NEW i \in D, NEW j \in D, Standing(x, D, i) = Standing(x, D, j) PROVE i = j
    BY <1>3, <2>1, SoonerOrders
  <2> QED BY <2>1 DEF Injection, IsInjective
<1>6. R \subseteq 0 .. n - 1
  BY <1>2
<1> HIDE DEF R, g
<1>7. Cardinality(R) = n
  BY <1>4, <1>5, FS_Surjection DEF n
<1>8. IsFiniteSet(0 .. n - 1) /\ Cardinality(0 .. n - 1) = n
  <2>1. 0 \in Int /\ n - 1 \in Int /\ (IF 0 > n - 1 THEN 0 ELSE n - 1 - 0 + 1) = n
    BY <1>1
  <2> QED BY <2>1, FS_Interval
<1>9. 0 .. n - 1 = R
  BY <1>6, <1>7, <1>8, FS_Subset
<1>10. k - 1 \in 0 .. n - 1
  BY <1>1
<1> QED BY <1>9, <1>10 DEF R

(* How many flows of D take at most v. *)
AtMost(x, D, v) == Cardinality({i \in D : x[i] <= v})

Fewer(x, D, v) == Cardinality({i \in D : x[i] <= v - 1})

(* The flow at place k - 1: its time is not exceeded by k flows, and fewer *)
(* than k take less.                                                       *)
LEMMA PlaceCounts ==
  ASSUME NEW D, IsFiniteSet(D), D \subseteq Nat, NEW x, \A i \in D : x[i] \in Int,
         NEW i \in D
  PROVE  /\ AtMost(x, D, x[i]) \in Nat /\ Fewer(x, D, x[i]) \in Nat
         /\ AtMost(x, D, x[i]) >= Standing(x, D, i) + 1
         /\ Fewer(x, D, x[i]) <= Standing(x, D, i)
         /\ AtMost(x, D, x[i]) <= Cardinality(D)
<1> DEFINE E == Earlier(x, D, i)
           A == {j \in D : x[j] <= x[i]}
           B == {j \in D : x[j] <= x[i] - 1}
<1>1. E \subseteq D /\ A \subseteq D /\ B \subseteq D
  BY DEF Earlier
<1>2. E \cup {i} \subseteq A /\ i \notin E /\ B \subseteq E
  <2>1. \A j \in D : x[j] \in Int /\ j \in Int
    OBVIOUS
  <2>2. \A j \in D : Sooner(x, j, i) => x[j] <= x[i]
    BY <2>1 DEF Sooner
  <2>3. \A j \in D : x[j] <= x[i] - 1 => Sooner(x, j, i)
    BY <2>1 DEF Sooner
  <2>4. ~Sooner(x, i, i) /\ x[i] <= x[i]
    BY <2>1 DEF Sooner
  <2> QED BY <2>2, <2>3, <2>4 DEF Earlier
<1> HIDE DEF E, A, B
<1>3. /\ IsFiniteSet(E) /\ IsFiniteSet(A) /\ IsFiniteSet(B)
      /\ Cardinality(A) <= Cardinality(D)
  BY <1>1, FS_Subset
<1>4. /\ Cardinality(E) \in Nat /\ Cardinality(A) \in Nat /\ Cardinality(B) \in Nat
      /\ Cardinality(E \cup {i}) = Cardinality(E) + 1
  BY <1>2, <1>3, FS_CardinalityType, FS_AddElement
<1>5. Cardinality(B) <= Cardinality(E) /\ Cardinality(E) + 1 <= Cardinality(A)
  BY <1>2, <1>3, <1>4, FS_Subset
<1> QED BY <1>3, <1>4, <1>5 DEF AtMost, Fewer, Standing, A, B, E

(* The flow that sorting puts at place k: its time is not exceeded by at   *)
(* least k flows, and fewer than k take less.                              *)
Ranks(x, D, i, k) ==
  /\ AtMost(x, D, x[i]) \in Nat /\ Fewer(x, D, x[i]) \in Nat
  /\ AtMost(x, D, x[i]) >= k /\ AtMost(x, D, x[i]) <= Cardinality(D)
  /\ Fewer(x, D, x[i]) <= k - 1

LEMMA PlaceRanks ==
  ASSUME NEW D, IsFiniteSet(D), D \subseteq Nat, NEW x, \A i \in D : x[i] \in Int,
         NEW k \in Nat, NEW i \in D, Standing(x, D, i) = k - 1
  PROVE  Ranks(x, D, i, k)
<1>1. (k - 1) + 1 = k
  OBVIOUS
<1>2. /\ AtMost(x, D, x[i]) \in Nat /\ Fewer(x, D, x[i]) \in Nat
      /\ AtMost(x, D, x[i]) >= Standing(x, D, i) + 1
      /\ Fewer(x, D, x[i]) <= Standing(x, D, i)
      /\ AtMost(x, D, x[i]) <= Cardinality(D)
  BY PlaceCounts
<1> QED BY <1>1, <1>2 DEF Ranks

Times(r) == [i \in DOMAIN r |-> fct_ns(r[i])]

Done(r) == {i \in DOMAIN r : r[i].complete}

LEMMA DoneFacts ==
  ASSUME NEW r \in Seq(FlowResult)
  PROVE  /\ IsFiniteSet(DOMAIN r) /\ Cardinality(DOMAIN r) = Len(r) /\ Len(r) \in Nat
         /\ Done(r) \subseteq Nat /\ IsFiniteSet(Done(r)) /\ Cardinality(Done(r)) \in Nat
         /\ \A i \in Done(r) : Times(r)[i] = fct_ns(r[i]) /\ Times(r)[i] \in Int
<1>1. Len(r) \in Nat /\ DOMAIN r = 1 .. Len(r) /\ \A i \in DOMAIN r : r[i] \in FlowResult
  OBVIOUS
<1>2. IsFiniteSet(DOMAIN r) /\ Cardinality(DOMAIN r) = Len(r)
  <2>1. PICK n \in Nat : n = Len(r)
    BY <1>1
  <2>2. 1 \in Int /\ n \in Int /\ (IF 1 > n THEN 0 ELSE n - 1 + 1) = n
    BY <2>1
  <2> QED BY <1>1, <2>1, <2>2, FS_Interval
<1>3. Done(r) \subseteq DOMAIN r
  BY DEF Done
<1>4. IsFiniteSet(Done(r)) /\ Cardinality(Done(r)) \in Nat
  BY <1>2, <1>3, FS_Subset, FS_CardinalityType
<1>5. ASSUME NEW i \in Done(r) PROVE Times(r)[i] = fct_ns(r[i]) /\ Times(r)[i] \in Int
  <2>1. r[i].finish_ns \in Nat /\ r[i].start_ns \in Nat
    BY <1>1, <1>3 DEF FlowResult
  <2> QED BY <1>3, <2>1 DEF Times, fct_ns
<1> QED BY <1>1, <1>2, <1>3, <1>4, <1>5

(* What completed_fcts returns: the times of the complete flows, each at   *)
(* the place where sorting puts it.                                        *)
LEMMA SortedTimes ==
  ASSUME NEW r \in Seq(FlowResult)
  PROVE  LET s == completed_fcts(r)
         IN  /\ Len(s) = Cardinality(Done(r))
             /\ \A k \in 1 .. Cardinality(Done(r)) :
                  \E i \in Done(r) : /\ s[k] = Times(r)[i]
                                     /\ Ranks(Times(r), Done(r), i, k)
<1>1. PICK D, x : D = Done(r) /\ x = Times(r)
  OBVIOUS
<1>2. /\ D \subseteq Nat /\ IsFiniteSet(D) /\ Cardinality(D) \in Nat
      /\ \A i \in D : x[i] = fct_ns(r[i]) /\ x[i] \in Int
  BY <1>1, DoneFacts
<1>3. PICK n \in Nat : n = Cardinality(D)
  BY <1>2
<1>4. D = {i \in DOMAIN r : is_complete(r[i])}
  BY <1>1 DEF Done, is_complete
<1>5. ASSUME NEW i \in D
      PROVE  Standing(x, D, i) = Cardinality({j \in D :
               \/ fct_ns(r[j]) < fct_ns(r[i])
               \/ fct_ns(r[j]) = fct_ns(r[i]) /\ j < i})
  BY <1>2 DEF Standing, Earlier, Sooner
<1> DEFINE s == completed_fcts(r)
<1>6. DOMAIN s = 1 .. n /\ s = [k \in 1 .. n |-> s[k]]
  BY <1>3, <1>4 DEF completed_fcts
<1>7. ASSUME NEW k \in 1 .. n
      PROVE  \E i \in D : s[k] = x[i] /\ Ranks(x, D, i, k)
  <2> DEFINE c == CHOOSE i \in D :
                    Cardinality({j \in D : \/ fct_ns(r[j]) < fct_ns(r[i])
                                           \/ fct_ns(r[j]) = fct_ns(r[i]) /\ j < i}) = k - 1
  <2>1. \E i \in D : Standing(x, D, i) = k - 1
    BY <1>2, <1>3, PlaceTaken
  <2>2. c \in D /\ Standing(x, D, c) = k - 1
    BY <1>5, <2>1
  <2>3. s[k] = fct_ns(r[c])
    BY <1>3, <1>4 DEF completed_fcts
  <2> HIDE DEF c, s
  <2>4. Ranks(x, D, c, k)
    <3>1. PICK e \in D : e = c
      BY <2>2
    <3>2. Standing(x, D, e) = k - 1 /\ k \in Nat
      BY <1>3, <2>2, <3>1
    <3>3. IsFiniteSet(D) /\ D \subseteq Nat /\ \A m \in D : x[m] \in Int
      BY <1>2
    <3>4. Ranks(x, D, e, k)
      BY <3>2, <3>3, PlaceRanks
    <3> QED BY <3>1, <3>4
  <2> QED BY <1>2, <2>2, <2>3, <2>4
<1> HIDE DEF s
<1>8. Len(s) = n
  <2>1. \A k \in 1 .. n : s[k] \in Int
    BY <1>2, <1>7
  <2>2. [k \in 1 .. n |-> s[k]] \in Seq(Int)
    BY <1>3, <2>1
  <2> QED BY <1>3, <1>6, <2>2
<1> QED BY <1>1, <1>3, <1>7, <1>8 DEF s

(* A percentile is the least time that so many flows do not exceed.        *)
LEMMA PercentileLeast ==
  ASSUME NEW r \in Seq(FlowResult), Done(r) # {},
         NEW permille \in {500, 900, 990}
  PROVE  LET n == Cardinality(Done(r))
             v == percentile_ns(completed_fcts(r), permille)
         IN  /\ AtMost(Times(r), Done(r), v) * 1000 >= permille * n
             /\ Fewer(Times(r), Done(r), v) * 1000 < permille * n
<1>1. PICK D, x, s : D = Done(r) /\ x = Times(r) /\ s = completed_fcts(r)
  OBVIOUS
<1>2. /\ D \subseteq Nat /\ IsFiniteSet(D) /\ Cardinality(D) \in Nat /\ D # {}
      /\ \A i \in D : x[i] \in Int
  BY <1>1, DoneFacts
<1>3. PICK n \in Nat \ {0} : n = Cardinality(D)
  BY <1>2, FS_EmptySet
<1>4. PICK q \in Nat : q = permille * n
  BY <1>3
<1>5. 1 <= q /\ q <= 1000 * n
  <2>1. CASE permille = 500
    BY <1>3, <1>4, <2>1
  <2>2. CASE permille = 900
    BY <1>3, <1>4, <2>2
  <2>3. CASE permille = 990
    BY <1>3, <1>4, <2>3
  <2> QED BY <2>1, <2>2, <2>3
<1>6. PICK k \in Nat : k = (q + 999) \div 1000
  BY <1>4
<1>7. k \in 1 .. n /\ k * 1000 >= q /\ (k - 1) * 1000 < q
  <2>1. k * 1000 <= q + 999 /\ q + 999 < k * 1000 + 1000
    BY <1>4, <1>6, DivFacts
  <2>2. n \in Nat /\ k \in Nat /\ q \in Nat
    BY <1>3, <1>4, <1>6
  <2> QED BY <1>5, <2>1, <2>2
<1>8. percentile_ns(s, permille) = s[k]
  <2>1. Len(s) = n
    BY <1>1, <1>3, SortedTimes
  <2>2. rank_up(permille, n) = k
    BY <1>4, <1>6 DEF rank_up
  <2>3. Max({1, k}) = k
    <3>1. Max({1, k}) \in {1, k} /\ Max({1, k}) >= 1 /\ Max({1, k}) >= k
      BY <1>7, MaxOfTwo
    <3> QED BY <1>7, <3>1
  <2> QED BY <2>1, <2>2, <2>3 DEF percentile_ns
<1>9. PICK i \in D : s[k] = x[i] /\ Ranks(x, D, i, k)
  BY <1>1, <1>3, <1>7, SortedTimes
<1>10. PICK a \in Nat, b \in Nat : /\ a = AtMost(x, D, x[i]) /\ b = Fewer(x, D, x[i])
                                   /\ a >= k /\ b <= k - 1
  BY <1>9 DEF Ranks
<1>11. a * 1000 >= q /\ b * 1000 < q
  BY <1>4, <1>7, <1>10
<1> QED BY <1>1, <1>3, <1>4, <1>8, <1>9, <1>10, <1>11

(* The flows counted as complete and as incomplete are all of them, and    *)
(* none takes longer than the maximum.                                     *)
LEMMA SummaryAccounts ==
  ASSUME NEW r \in Seq(FlowResult)
  PROVE  /\ summarize_fct(r).flows_total = Len(r)
         /\ summarize_fct(r).flows_incomplete + Cardinality(Done(r)) = Len(r)
         /\ summarize_fct(r).flows_incomplete = Cardinality({i \in DOMAIN r : ~r[i].complete})
         /\ Done(r) # {} =>
              /\ summarize_fct(r).p50_ns = percentile_ns(completed_fcts(r), 500)
              /\ summarize_fct(r).p90_ns = percentile_ns(completed_fcts(r), 900)
              /\ summarize_fct(r).p99_ns = percentile_ns(completed_fcts(r), 990)
              /\ AtMost(Times(r), Done(r), summarize_fct(r).max_ns) = Cardinality(Done(r))
<1>0. PICK s, m : s = summarize_fct(r) /\ m = s.max_ns
  OBVIOUS
<1>1. PICK D, x, c : D = Done(r) /\ x = Times(r) /\ c = completed_fcts(r)
  OBVIOUS
<1>2. /\ D \subseteq Nat /\ IsFiniteSet(D) /\ D \subseteq DOMAIN r
      /\ \A i \in D : x[i] \in Int
      /\ IsFiniteSet(DOMAIN r) /\ Cardinality(DOMAIN r) = Len(r) /\ Len(r) \in Nat
  BY <1>1, DoneFacts DEF Done
<1>3. PICK n \in Nat : n = Cardinality(D)
  BY <1>2, FS_CardinalityType
<1>4. Len(c) = n
  BY <1>1, <1>3, SortedTimes
<1>5. Cardinality({i \in DOMAIN r : ~r[i].complete}) = Len(r) - n
  <2>1. {i \in DOMAIN r : ~r[i].complete} = DOMAIN r \ D
    BY <1>1 DEF Done
  <2>2. DOMAIN r \cap D = D
    BY <1>2
  <2> QED BY <1>2, <1>3, <2>1, <2>2, FS_Difference
<1>6. n = 0 <=> D = {}
  BY <1>2, <1>3, FS_EmptySet
<1>7. CASE n = 0
  <2>1. s.flows_total = Len(r) /\ s.flows_incomplete = Len(r)
    BY <1>0, <1>1, <1>4, <1>7 DEF summarize_fct, NoFlows
  <2>2. s.flows_incomplete + n = Len(r) /\ s.flows_incomplete = Len(r) - n
    BY <1>2, <1>7, <2>1
  <2> QED BY <1>0, <1>1, <1>3, <1>5, <1>6, <1>7, <2>1, <2>2
<1>8. CASE n # 0
  <2>1. n \in 1 .. n
    BY <1>3, <1>8
  <2>2. PICK i \in D : c[n] = x[i] /\ Ranks(x, D, i, n)
    BY <1>1, <1>3, <2>1, SortedTimes
  <2>3. /\ s.flows_total = Len(r) /\ s.flows_incomplete = Len(r) - n /\ m = c[n]
        /\ s.p50_ns = percentile_ns(c, 500) /\ s.p90_ns = percentile_ns(c, 900)
        /\ s.p99_ns = percentile_ns(c, 990)
    BY <1>0, <1>1, <1>4, <1>8 DEF summarize_fct
  <2>4. AtMost(x, D, m) = n
    <3>1. m = x[i]
      BY <2>2, <2>3
    <3>2. AtMost(x, D, x[i]) \in Nat /\ AtMost(x, D, x[i]) <= n /\ AtMost(x, D, x[i]) >= n
      BY <1>3, <2>2 DEF Ranks
    <3> QED BY <1>3, <3>1, <3>2
  <2>5. s.flows_incomplete + n = Len(r)
    BY <1>2, <1>3, <2>3
  <2> QED BY <1>0, <1>1, <1>3, <1>5, <2>3, <2>4, <2>5
<1> QED BY <1>7, <1>8

(* When a run is over, each percentile that is reported is the least       *)
(* completion time that so many of the complete flows do not exceed, and   *)
(* the flows left out are those counted as incomplete (percentile_ns and   *)
(* summarize_fct of metrics/fct.cpp).                                      *)
THEOREM PercentilesRight == Spec => []NearestRank
<1>1. IInv => NearestRank
  <2> SUFFICES ASSUME IInv PROVE NearestRank
    OBVIOUS
  <2>1. PICK r : r = sim.result
    OBVIOUS
  <2>2. r \in Seq(FlowResult) /\ DOMAIN r = Flow
    <3>1. r \in [Flow -> FlowResult] /\ Len(spec) \in Nat /\ Flow = 1 .. Len(spec)
      BY <2>1, SpecFacts DEF IInv, Good, Typed
    <3> QED BY <3>1
  <2>3. Done(r) = {f \in Flow : sim.result[f].complete}
    BY <2>1, <2>2 DEF Done
  <2>4. \A v : /\ AtMost(Times(r), Done(r), v)
                    = Cardinality({f \in Done(r) : fct_ns(sim.result[f]) <= v})
               /\ Fewer(Times(r), Done(r), v)
                    = Cardinality({f \in Done(r) : fct_ns(sim.result[f]) <= v - 1})
    <3>1. \A f \in Done(r) : Times(r)[f] = fct_ns(sim.result[f])
      BY <2>1, <2>2, DoneFacts
    <3> QED BY <3>1 DEF AtMost, Fewer
  <2>5. end_run.flows_incomplete = Cardinality({f \in DOMAIN r : ~r[f].complete})
    BY <2>1, <2>2 DEF end_run
  <2>6. /\ summarize_fct(r).flows_incomplete = end_run.flows_incomplete
        /\ summarize_fct(r).flows_incomplete + Cardinality(Done(r)) = summarize_fct(r).flows_total
    BY <2>2, <2>5, SummaryAccounts
  <2>7. ASSUME Done(r) # {}
        PROVE  /\ summarize_fct(r).p50_ns = percentile_ns(completed_fcts(r), 500)
               /\ summarize_fct(r).p90_ns = percentile_ns(completed_fcts(r), 900)
               /\ summarize_fct(r).p99_ns = percentile_ns(completed_fcts(r), 990)
               /\ AtMost(Times(r), Done(r), summarize_fct(r).max_ns) = Cardinality(Done(r))
    BY <2>2, <2>7, SummaryAccounts
  <2>8. ASSUME Done(r) # {}, NEW permille \in {500, 900, 990}
        PROVE  /\ AtMost(Times(r), Done(r), percentile_ns(completed_fcts(r), permille)) * 1000
                    >= permille * Cardinality(Done(r))
               /\ Fewer(Times(r), Done(r), percentile_ns(completed_fcts(r), permille)) * 1000
                    < permille * Cardinality(Done(r))
    BY <2>2, <2>8, PercentileLeast
  <2>9. PICK s, d : s = summarize_fct(r) /\ d = Done(r)
    OBVIOUS
  <2>10. d # {} =>
           /\ AtMost(Times(r), d, s.p50_ns) * 1000 >= 500 * Cardinality(d)
           /\ Fewer(Times(r), d, s.p50_ns) * 1000 < 500 * Cardinality(d)
           /\ AtMost(Times(r), d, s.p90_ns) * 1000 >= 900 * Cardinality(d)
           /\ Fewer(Times(r), d, s.p90_ns) * 1000 < 900 * Cardinality(d)
           /\ AtMost(Times(r), d, s.p99_ns) * 1000 >= 990 * Cardinality(d)
           /\ Fewer(Times(r), d, s.p99_ns) * 1000 < 990 * Cardinality(d)
           /\ AtMost(Times(r), d, s.max_ns) = Cardinality(d)
    <3>1. 500 \in {500, 900, 990} /\ 900 \in {500, 900, 990} /\ 990 \in {500, 900, 990}
      OBVIOUS
    <3> QED BY <2>7, <2>8, <2>9, <3>1
  <2>11. \A v : /\ AtMost(Times(r), d, v)
                     = Cardinality({f \in d : fct_ns(sim.result[f]) <= v})
                /\ Fewer(Times(r), d, v)
                     = Cardinality({f \in d : fct_ns(sim.result[f]) <= v - 1})
    BY <2>4, <2>9
  <2>12. d = {f \in Flow : sim.result[f].complete} /\ s = summarize_fct(sim.result)
    BY <2>1, <2>3, <2>9
  <2>13. /\ s.flows_incomplete = end_run.flows_incomplete
         /\ s.flows_incomplete + Cardinality(d) = s.flows_total
    BY <2>6, <2>9
  <2> QED BY <2>10, <2>11, <2>12, <2>13 DEF NearestRank
<1> QED BY <1>1, Invariant, PTL
=============================================================================
