-------------------------- MODULE AllReduceProofs ---------------------------
(***************************************************************************)
(* The ring all-reduce is right for any number of ranks.  The flows of one *)
(* chunk form a chain, one flow in each step, so what is complete of a     *)
(* chunk is a prefix of its chain; a flow of step s carries the sum of the *)
(* s + 1 ranks from the chunk's own onwards.                               *)
(***************************************************************************)
EXTENDS AllReduce, TLAPS

(* Division is decided by the bounds of the remainder. *)
LEMMA Division == ASSUME NEW a \in Nat, NEW n \in Nat \ {0}, NEW q \in Int, NEW c \in Nat,
                         c < n, a = q * n + c
                  PROVE  a \div n = q /\ a % n = c
<1> DEFINE d == a \div n
           m == a % n
<1>1. d \in Int /\ m \in Nat /\ m < n /\ a = d * n + m
  BY SMT
<1> HIDE DEF d, m
<1>2. CASE d < q
  <2>1. (d + 1) * n <= q * n
    BY <1>1, <1>2, SMT
  <2> QED
    BY <1>1, <2>1, SMT
<1>3. CASE d > q
  <2>1. (q + 1) * n <= d * n
    BY <1>1, <1>3, SMT
  <2> QED
    BY <1>1, <2>1, SMT
<1>4. d = q
  BY <1>1, <1>2, <1>3, SMT
<1>5. m = c
  BY <1>1, <1>4, SMT
<1> QED
  BY <1>4, <1>5 DEF d, m

-----------------------------------------------------------------------------
(* The rank before r on the ring, and how far along the ring rank q is from
   rank c. *)
Before(r) == IF r = 0 THEN gpus - 1 ELSE r - 1

Along(c, q) == IF q >= c THEN q - c ELSE q - c + gpus

Several == gpus \in Nat \ {0, 1}

(* A flow is its step and its sender. *)
LEMMA FlowParts ==
  ASSUME Several, NEW f \in Flows
  PROVE  /\ Step(f) \in 0 .. 2 * gpus - 3
         /\ From(f) \in Ranks
         /\ f = Step(f) * gpus + From(f)
<1> DEFINE s == f \div gpus
           r == f % gpus
<1>1. gpus \in Nat /\ gpus >= 2 /\ f \in Nat /\ f < 2 * (gpus - 1) * gpus
  BY SMT DEF Several, Flows, steps
<1>2. s \in Int /\ r \in Nat /\ r < gpus /\ f = s * gpus + r
  BY <1>1, SMT
<1> HIDE DEF s, r
<1>3. s >= 0
  <2>1. CASE s <= -1
    <3>1. s * gpus <= (-1) * gpus
      BY <1>1, <1>2, <2>1, SMT
    <3> QED
      BY <1>1, <1>2, <3>1, SMT
  <2> QED
    BY <1>2, <2>1, SMT
<1>4. s < 2 * (gpus - 1)
  <2>1. CASE s >= 2 * (gpus - 1)
    <3>1. s * gpus >= 2 * (gpus - 1) * gpus
      BY <1>1, <1>2, <2>1, SMT
    <3> QED
      BY <1>1, <1>2, <3>1, SMT
  <2> QED
    BY <1>1, <1>2, <2>1, SMT
<1>5. Step(f) = s /\ From(f) = r
  BY DEF Step, From, step, rank, s, r
<1> QED
  BY <1>1, <1>2, <1>3, <1>4, <1>5, SMT DEF Ranks

(* And every step and sender make one. *)
LEMMA FlowOf ==
  ASSUME Several, NEW s \in 0 .. 2 * gpus - 3, NEW r \in Ranks
  PROVE  /\ s * gpus + r \in Flows
         /\ Step(s * gpus + r) = s
         /\ From(s * gpus + r) = r
<1>1. gpus \in Nat /\ gpus >= 2 /\ s \in Nat /\ r \in Nat /\ r < gpus /\ s + 1 <= 2 * (gpus - 1)
  BY SMT DEF Several, Ranks
<1>2. (s + 1) * gpus <= 2 * (gpus - 1) * gpus /\ s * gpus >= 0
  BY <1>1, SMT
<1> DEFINE a == s * gpus + r
<1>3. a \in Nat /\ a <= 2 * (gpus - 1) * gpus - 1 /\ a = s * gpus + r
  BY <1>1, <1>2, SMT
<1>4. a \in Flows
  BY <1>1, <1>3, SMT DEF Flows, steps
<1> HIDE DEF a
<1>5. a \div gpus = s /\ a % gpus = r
  BY <1>1, <1>3, Division
<1>6. Step(a) = s /\ From(a) = r
  BY <1>5 DEF Step, From, step, rank
<1> QED
  BY <1>4, <1>6 DEF a

(* The receiver is the next rank on the ring. *)
LEMMA Receiver ==
  ASSUME Several, NEW f \in Flows
  PROVE  To(f) = IF From(f) = gpus - 1 THEN 0 ELSE From(f) + 1
<1> DEFINE r == From(f)
<1>1. gpus \in Nat /\ gpus >= 2 /\ r \in Nat /\ r < gpus
  BY FlowParts, SMT DEF Several, Ranks
<1>2. To(f) = (r + 1) % gpus
  BY DEF To, dst, From
<1> HIDE DEF r
<1>3. CASE r = gpus - 1
  <2>1. r + 1 = 1 * gpus + 0 /\ r + 1 \in Nat
    BY <1>1, <1>3, SMT
  <2>2. (r + 1) % gpus = 0
    BY <1>1, <2>1, Division, SMT
  <2> QED
    BY <1>2, <1>3, <2>2 DEF r
<1>4. CASE r # gpus - 1
  <2>1. r + 1 = 0 * gpus + (r + 1) /\ r + 1 \in Nat /\ r + 1 < gpus
    BY <1>1, <1>4, SMT
  <2>2. (r + 1) % gpus = r + 1
    BY <1>1, <2>1, Division, SMT
  <2> QED
    BY <1>2, <1>4, <2>2 DEF r
<1> QED
  BY <1>3, <1>4

(* The chunk is the rank Step(f) before the sender. *)
LEMMA ChunkOf ==
  ASSUME Several, NEW f \in Flows
  PROVE  Chunk(f) = IF Step(f) <= From(f) THEN From(f) - Step(f)
                    ELSE IF Step(f) <= From(f) + gpus THEN From(f) - Step(f) + gpus
                    ELSE From(f) - Step(f) + 2 * gpus
<1> DEFINE r == From(f)
           s == Step(f)
           a == r + 2 * (gpus - 1) * gpus - s
<1>1. gpus \in Nat /\ gpus >= 2 /\ r \in Nat /\ r < gpus /\ s \in Nat /\ s <= 2 * gpus - 3
  BY FlowParts, SMT DEF Several, Ranks
<1>2. Chunk(f) = a % gpus
  BY DEF Chunk, steps
<1> HIDE DEF r, s
<1>3. a \in Nat
  <2>1. 2 * (gpus - 1) * gpus >= 2 * (gpus - 1)
    BY <1>1, SMT
  <2> QED
    BY <1>1, <2>1, SMT
<1>4. a = r + 2 * (gpus - 1) * gpus - s
  OBVIOUS
<1> HIDE DEF a
<1>5. gpus \in Nat \ {0}
  BY <1>1, SMT
<1>6. CASE s <= r
  <2> DEFINE q == 2 * (gpus - 1)
             c == r - s
  <2>1. q \in Int /\ c \in Nat /\ c < gpus
    BY <1>1, <1>6, SMT
  <2>2. a = q * gpus + c
    BY <1>1, <1>4, SMT
  <2>3. Chunk(f) = c
    <3> HIDE DEF q, c
    <3> QED
      BY <1>2, <1>3, <1>5, <2>1, <2>2, Division
  <2> QED
    BY <1>6, <2>3 DEF r, s
<1>7. CASE ~(s <= r) /\ s <= r + gpus
  <2> DEFINE q == 2 * (gpus - 1) - 1
             c == r - s + gpus
  <2>1. q \in Int /\ c \in Nat /\ c < gpus
    BY <1>1, <1>7, SMT
  <2>2. a = q * gpus + c
    BY <1>1, <1>4, SMT
  <2>3. Chunk(f) = c
    <3> HIDE DEF q, c
    <3> QED
      BY <1>2, <1>3, <1>5, <2>1, <2>2, Division
  <2> QED
    BY <1>7, <2>3 DEF r, s
<1>8. CASE ~(s <= r) /\ ~(s <= r + gpus)
  <2> DEFINE q == 2 * (gpus - 1) - 2
             c == r - s + 2 * gpus
  <2>1. q \in Int /\ c \in Nat /\ c < gpus
    BY <1>1, <1>8, SMT
  <2>2. a = q * gpus + c
    BY <1>1, <1>4, SMT
  <2>3. Chunk(f) = c
    <3> HIDE DEF q, c
    <3> QED
      BY <1>2, <1>3, <1>5, <2>1, <2>2, Division
  <2> QED
    BY <1>8, <2>3 DEF r, s
<1> QED
  BY <1>6, <1>7, <1>8 DEF r, s

(* A flow waits for the previous one of its chunk, which arrives where it is
   sent from. *)
LEMMA WaitsFor ==
  ASSUME Several, NEW f \in Flows
  PROVE  IF Step(f) = 0 THEN Waits(f) = {}
         ELSE \E w \in Flows : /\ Waits(f) = {w}
                               /\ Step(w) = Step(f) - 1
                               /\ From(w) = Before(From(f))
<1> DEFINE s == Step(f)
           r == From(f)
           b == Before(r)
<1>1. gpus \in Nat /\ gpus >= 2 /\ r \in Nat /\ r < gpus /\ s \in Nat /\ s <= 2 * gpus - 3
  BY FlowParts, SMT DEF Several, Ranks
<1>2. Waits(f) = IF s > 0 THEN {(s - 1) * gpus + ((r + gpus - 1) % gpus)} ELSE {}
  BY DEF Waits, depends_on, upstream, Step, From
<1> HIDE DEF s, r
<1>3. b \in Ranks /\ b \in Nat /\ b < gpus
  BY <1>1, SMT DEF Before, Ranks
<1>4. (r + gpus - 1) % gpus = b
  <2> DEFINE a == r + gpus - 1
             q == IF r = 0 THEN 0 ELSE 1
  <2>1. a \in Nat /\ q \in Int /\ gpus \in Nat \ {0}
    BY <1>1, SMT
  <2>2. a = q * gpus + b
    BY <1>1, SMT DEF Before
  <2> HIDE DEF a, q, b
  <2>3. a % gpus = b
    BY <1>3, <2>1, <2>2, Division
  <2> QED
    BY <2>3 DEF a
<1>5. CASE s = 0
  BY <1>2, <1>5, SMT DEF s
<1>6. CASE s # 0
  <2> DEFINE w == (s - 1) * gpus + b
  <2>1. s - 1 \in 0 .. 2 * gpus - 3
    BY <1>1, <1>6, SMT
  <2>2. w \in Flows /\ Step(w) = s - 1 /\ From(w) = b
    BY <1>3, <2>1, FlowOf
  <2>3. Waits(f) = {w}
    BY <1>1, <1>2, <1>4, <1>6, SMT
  <2> QED
    BY <1>6, <2>2, <2>3 DEF s, r
<1> QED
  BY <1>5, <1>6

LEMMA WaitsArrives ==
  ASSUME Several, NEW f \in Flows, NEW w \in Waits(f)
  PROVE  /\ w \in Flows /\ Waits(f) = {w}
         /\ Step(f) = Step(w) + 1
         /\ To(w) = From(f)
         /\ Chunk(w) = Chunk(f)
<1>1. /\ w \in Flows /\ Waits(f) = {w}
      /\ Step(w) = Step(f) - 1 /\ From(w) = Before(From(f))
  BY WaitsFor
<1>2. /\ gpus \in Nat /\ gpus >= 2 /\ From(f) \in 0 .. gpus - 1 /\ From(w) \in 0 .. gpus - 1
      /\ Step(f) \in 0 .. 2 * gpus - 3 /\ Step(w) \in 0 .. 2 * gpus - 3
  BY <1>1, FlowParts, SMT DEF Several, Ranks
<1>3. To(w) = From(f)
  BY <1>1, <1>2, Receiver, SMT DEF Before
<1>4. Chunk(w) = Chunk(f)
  BY <1>1, <1>2, ChunkOf, SMT DEF Before
<1> QED
  BY <1>1, <1>2, <1>3, <1>4, SMT

(* A chunk has one flow in each step. *)
LEMMA OneFlow ==
  ASSUME Several, NEW f \in Flows, NEW g \in Flows, Step(f) = Step(g), Chunk(f) = Chunk(g)
  PROVE  f = g
<1>1. /\ gpus \in Nat /\ gpus >= 2 /\ From(f) \in 0 .. gpus - 1 /\ From(g) \in 0 .. gpus - 1
      /\ Step(f) \in 0 .. 2 * gpus - 3
  BY FlowParts, SMT DEF Several, Ranks
<1>2. From(f) = From(g)
  BY <1>1, ChunkOf, SMT
<1>3. f = Step(f) * gpus + From(f) /\ g = Step(g) * gpus + From(g)
  BY FlowParts
<1> QED
  BY <1>2, <1>3

(* A rank receives a chunk again only a whole turn of the ring later. *)
LEMMA TurnLater ==
  ASSUME Several, NEW f \in Flows, NEW g \in Flows, To(f) = To(g), Chunk(f) = Chunk(g),
         Step(f) < Step(g)
  PROVE  Step(g) = Step(f) + gpus
<1>1. /\ gpus \in Nat /\ gpus >= 2 /\ From(f) \in 0 .. gpus - 1 /\ From(g) \in 0 .. gpus - 1
      /\ Step(f) \in 0 .. 2 * gpus - 3 /\ Step(g) \in 0 .. 2 * gpus - 3
  BY FlowParts, SMT DEF Several, Ranks
<1>2. From(f) = From(g)
  BY <1>1, Receiver, SMT
<1> QED
  BY <1>1, <1>2, ChunkOf, SMT

LEMMA Places ==
  ASSUME Several, NEW f \in Flows
  PROVE  /\ To(f) \in Ranks /\ Chunk(f) \in Ranks
         /\ Step(f) = 0 => Chunk(f) = From(f)
         /\ Step(f) < gpus - 1 => Along(Chunk(f), To(f)) = Step(f) + 1
<1>1. /\ gpus \in Nat /\ gpus >= 2 /\ From(f) \in 0 .. gpus - 1
      /\ Step(f) \in 0 .. 2 * gpus - 3
  BY FlowParts, SMT DEF Several, Ranks
<1>2. To(f) \in Ranks
  BY <1>1, Receiver, SMT DEF Ranks
<1>3. Chunk(f) \in Ranks
  BY <1>1, ChunkOf, SMT DEF Ranks
<1>4. Step(f) = 0 => Chunk(f) = From(f)
  BY <1>1, ChunkOf, SMT
<1>5. Step(f) < gpus - 1 => Along(Chunk(f), To(f)) = Step(f) + 1
  BY <1>1, ChunkOf, Receiver, SMT DEF Along
<1> QED
  BY <1>2, <1>3, <1>4, <1>5

-----------------------------------------------------------------------------
(* The parts of the ranks up to s further than c. *)
SoFar(c, s) == [q \in Ranks |-> IF Along(c, q) <= s THEN 1 ELSE 0]

LEMMA SumOwn == ASSUME Several, NEW c \in Ranks
                PROVE  Own(c)[c] = SoFar(c, 0)
<1>1. \A q \in Ranks : Along(c, q) <= 0 <=> q = c
  BY SMT DEF Along, Ranks, Several
<1> QED
  BY <1>1 DEF Own, SoFar

LEMMA SumNext == ASSUME Several, NEW c \in Ranks, NEW r \in Ranks, NEW s \in Nat,
                        Along(c, r) = s + 1
                 PROVE  Added(Own(r)[c], SoFar(c, s)) = SoFar(c, s + 1)
<1>1. \A q \in Ranks : (IF q = r THEN 1 ELSE 0) + (IF Along(c, q) <= s THEN 1 ELSE 0)
                       = IF Along(c, q) <= s + 1 THEN 1 ELSE 0
  BY SMT DEF Along, Ranks, Several
<1>2. Own(r)[c] = [q \in Ranks |-> IF q = r THEN 1 ELSE 0]
  BY DEF Own
<1> QED
  BY <1>1, <1>2 DEF Added, SoFar

LEMMA SumAll == ASSUME Several, NEW c \in Ranks, NEW s \in Nat, s >= gpus - 1
                PROVE  SoFar(c, s) = Everyone
<1>1. \A q \in Ranks : Along(c, q) <= s
  BY SMT DEF Along, Ranks, Several
<1> QED
  BY <1>1 DEF SoFar, Everyone

-----------------------------------------------------------------------------
(* The invariant.  What has started is what waits for nothing that is not
   complete; the complete flows of a chunk are the first of its chain. *)
Shape == /\ Several
         /\ complete \subseteq started
         /\ started = {f \in Flows : Waits(f) \subseteq complete}

Chained == \A f \in complete, g \in Flows :
             Chunk(g) = Chunk(f) /\ Step(g) < Step(f) => g \in complete

(* A flow carries the sum so far; a rank holds its own part of a chunk until
   the chunk first arrives, and then what the last arrival made of it. *)
Carries == payload = [f \in started |-> SoFar(Chunk(f), Step(f))]

Boxes == buffer \in [Ranks -> [Ranks -> [Ranks -> Nat]]]

Arrives(f, r, c) == To(f) = r /\ Chunk(f) = c

Untouched == \A r \in Ranks, c \in Ranks :
               (\A f \in complete : ~Arrives(f, r, c)) => buffer[r][c] = Own(r)[c]

Latest(f) == \A g \in complete : Arrives(g, To(f), Chunk(f)) => Step(g) <= Step(f)

Holds == \A f \in complete :
           Latest(f) => buffer[To(f)][Chunk(f)] = SoFar(Chunk(f), Step(f) + 1)

IInv == Shape /\ Chained /\ Carries /\ Boxes /\ Untouched /\ Holds

LEMMA Initially == Init => IInv
<1> SUFFICES ASSUME Init
             PROVE  IInv
  OBVIOUS
<1>1. Several
  BY RingsAssumption DEF Init, Several
<1>2. Shape
  BY <1>1 DEF Init, Shape
<1>3. Chained /\ Holds
  BY DEF Init, Chained, Holds
<1>4. Carries
  <2>1. \A f \in started : buffer[From(f)][Chunk(f)] = SoFar(Chunk(f), Step(f))
    <3> SUFFICES ASSUME NEW f \in started
                 PROVE  buffer[From(f)][Chunk(f)] = SoFar(Chunk(f), Step(f))
      OBVIOUS
    <3>1. f \in Flows /\ Waits(f) = {}
      BY DEF Init
    <3>2. Step(f) = 0
      BY <1>1, <3>1, WaitsFor
    <3>3. Chunk(f) \in Ranks /\ Chunk(f) = From(f)
      BY <1>1, <3>1, <3>2, Places
    <3>4. buffer[From(f)] = Own(From(f))
      BY <3>3 DEF Init
    <3> QED
      BY <1>1, <3>2, <3>3, <3>4, SumOwn
  <2> QED
    BY <2>1 DEF Init, Carries
<1>5. Boxes
  BY DEF Init, Boxes, Own
<1>6. Untouched
  BY DEF Init, Untouched
<1> QED
  BY <1>2, <1>3, <1>4, <1>5, <1>6 DEF IInv

-----------------------------------------------------------------------------
(* What completes next in a chunk is the next of its chain. *)
LEMMA NextOfChain ==
  ASSUME IInv, NEW f \in Flows, f \in started \ complete, NEW g \in Flows,
         Chunk(g) = Chunk(f)
  PROVE  g \in complete <=> Step(g) < Step(f)
<1>1. Several /\ Step(f) \in Nat /\ Step(g) \in Nat
  <2>1. Several
    BY DEF IInv, Shape
  <2> QED
    BY <2>1, FlowParts, SMT
<1>2. CASE Step(g) < Step(f)
  <2>1. PICK w \in Flows : Waits(f) = {w} /\ Step(w) = Step(f) - 1
    BY <1>1, <1>2, WaitsFor, SMT
  <2>2. w \in complete
    BY <2>1 DEF IInv, Shape
  <2>3. Chunk(w) = Chunk(f)
    BY <1>1, <2>1, WaitsArrives
  <2>4. CASE Step(g) = Step(w)
    BY <1>1, <1>2, <2>2, <2>3, <2>4, OneFlow
  <2>5. CASE Step(g) < Step(w)
    BY <1>2, <2>2, <2>3, <2>5 DEF IInv, Chained
  <2> QED
    BY <1>1, <1>2, <2>1, <2>2, <2>4, <2>5, SMT
<1>3. CASE Step(g) = Step(f)
  <2>1. f = g
    BY <1>1, <1>3, OneFlow
  <2> QED
    BY <1>1, <2>1, SMT
<1>4. CASE Step(f) < Step(g)
  <2>1. g \notin complete
    BY <1>4 DEF IInv, Chained
  <2> QED
    BY <1>1, <1>4, <2>1, SMT
<1> QED
  BY <1>1, <1>2, <1>3, <1>4, SMT

(* So an arrival makes the next partial sum of what it finds and brings. *)
LEMMA Arrival ==
  ASSUME IInv, NEW f \in Flows, f \in started \ complete
  PROVE  Received(f) = [buffer EXCEPT ![To(f)][Chunk(f)] = SoFar(Chunk(f), Step(f) + 1)]
<1> DEFINE c == Chunk(f)
           r == To(f)
           s == Step(f)
<1>1. Several /\ gpus \in Nat /\ gpus >= 2 /\ s \in Nat /\ c \in Ranks /\ r \in Ranks
  <2>1. Several
    BY DEF IInv, Shape
  <2> QED
    BY <2>1, FlowParts, Places, SMT DEF Several
<1>2. payload[f] = SoFar(c, s)
  BY DEF IInv, Carries
<1>3. CASE s < gpus - 1
  <2>1. \A g \in complete : ~Arrives(g, r, c)
    <3> SUFFICES ASSUME NEW g \in complete, Arrives(g, r, c)
                 PROVE  FALSE
      OBVIOUS
    <3>1. g \in Flows /\ To(g) = To(f) /\ Chunk(g) = Chunk(f)
      BY DEF IInv, Shape, Arrives
    <3>2. Step(g) < Step(f)
      BY <3>1, NextOfChain
    <3>3. Step(f) = Step(g) + gpus /\ Step(g) \in Nat
      BY <1>1, <3>1, <3>2, TurnLater, FlowParts, SMT
    <3> QED
      BY <1>1, <1>3, <3>3, SMT
  <2>2. buffer[r][c] = Own(r)[c]
    BY <1>1, <2>1 DEF IInv, Untouched
  <2>3. Along(c, r) = s + 1
    BY <1>1, <1>3, Places
  <2>4. Added(buffer[r][c], payload[f]) = SoFar(c, s + 1)
    BY <1>1, <1>2, <2>2, <2>3, SumNext
  <2>5. Received(f) = [buffer EXCEPT ![r][c] = Added(@, payload[f])]
    BY <1>3 DEF Received
  <2> QED
    BY <2>4, <2>5
<1>4. CASE ~(s < gpus - 1)
  <2>1. SoFar(c, s) = Everyone /\ SoFar(c, s + 1) = Everyone
    BY <1>1, <1>4, SumAll, SMT
  <2>2. Received(f) = [buffer EXCEPT ![r][c] = payload[f]]
    BY <1>4 DEF Received
  <2> QED
    BY <1>2, <2>1, <2>2
<1> QED
  BY <1>3, <1>4

-----------------------------------------------------------------------------
(* The ring itself never changes. *)
LEMMA SameRing ==
  ASSUME gpus' = gpus
  PROVE  /\ Ranks' = Ranks /\ Flows' = Flows /\ Several' = Several
         /\ \A f : /\ (Step(f))' = Step(f) /\ (To(f))' = To(f)
                   /\ (Chunk(f))' = Chunk(f) /\ (Waits(f))' = Waits(f)
                   /\ (From(f))' = From(f)
         /\ \A c, s : (SoFar(c, s))' = SoFar(c, s)
         /\ \A r : (Own(r))' = Own(r)
         /\ \A f, r, c : (Arrives(f, r, c))' = Arrives(f, r, c)
<1>1. Ranks' = Ranks /\ Flows' = Flows /\ Several' = Several
  BY DEF Ranks, Flows, Several
<1>2. \A f : (Step(f))' = Step(f) /\ (From(f))' = From(f)
  BY DEF Step, From
<1>3. \A f : (To(f))' = To(f) /\ (Waits(f))' = Waits(f)
  BY DEF To, Waits
<1>4. \A f : (Chunk(f))' = Chunk(f)
  BY DEF Chunk, Step, From
<1>5. \A c, s : (SoFar(c, s))' = SoFar(c, s)
  BY <1>1 DEF SoFar, Along
<1>6. \A r : (Own(r))' = Own(r)
  BY <1>1 DEF Own
<1>7. \A f, r, c : (Arrives(f, r, c))' = Arrives(f, r, c)
  BY <1>3, <1>4 DEF Arrives
<1> QED
  BY <1>1, <1>2, <1>3, <1>4, <1>5, <1>6, <1>7

LEMMA Completing ==
  ASSUME IInv, NEW f \in Flows, complete_flow(f)
  PROVE  IInv'
<1> USE SameRing DEF complete_flow
<1> DEFINE c == Chunk(f)
           r == To(f)
           s == Step(f)
<1>1. gpus' = gpus /\ f \in started \ complete
  OBVIOUS
<1>2. Several /\ s \in Nat /\ c \in Ranks /\ r \in Ranks
  <2>1. Several
    BY DEF IInv, Shape
  <2> QED
    BY <2>1, FlowParts, Places, SMT
<1>3. buffer' = [buffer EXCEPT ![r][c] = SoFar(c, s + 1)]
  BY <1>1, Arrival
<1>4. complete' = complete \cup {f} /\ complete' \subseteq Flows
  BY DEF IInv, Shape
<1>5. Shape'
  <2>1. started' = {g \in Flows : Waits(g) \subseteq complete'}
    <3>1. \A g \in Flows : Waits(g) \subseteq complete' <=> (Waits(g) \subseteq complete \/ f \in Waits(g))
      BY <1>2, <1>4, WaitsArrives
    <3> QED
      BY <3>1 DEF IInv, Shape
  <2>2. complete' \subseteq started'
    BY <1>1, <1>4 DEF IInv, Shape
  <2> QED
    BY <1>1, <1>2, <2>1, <2>2 DEF Shape
<1>6. Chained'
  <2>1. \A g \in complete', h \in Flows : Chunk(h) = Chunk(g) /\ Step(h) < Step(g) => h \in complete'
    BY <1>1, <1>4, NextOfChain DEF IInv, Chained
  <2> QED
    BY <1>1, <2>1 DEF Chained
<1>7. Carries'
  <2>1. \A g \in started' : payload'[g] = SoFar(Chunk(g), Step(g))
    <3> SUFFICES ASSUME NEW g \in started'
                 PROVE  payload'[g] = SoFar(Chunk(g), Step(g))
      OBVIOUS
    <3>1. CASE g \in started
      BY <3>1 DEF IInv, Carries
    <3>2. CASE g \notin started
      <4>1. g \in Flows /\ f \in Waits(g)
        BY <3>2
      <4>2. From(g) = r /\ Chunk(g) = c /\ Step(g) = s + 1
        BY <1>2, <4>1, WaitsArrives
      <4>3. payload'[g] = buffer'[r][c]
        BY <1>1, <3>2, <4>2
      <4>4. buffer'[r][c] = SoFar(c, s + 1)
        BY <1>2, <1>3 DEF IInv, Boxes
      <4> QED
        BY <4>2, <4>3, <4>4
    <3> QED
      BY <3>1, <3>2
  <2> QED
    BY <1>1, <2>1 DEF Carries
<1>8. Boxes'
  <2> DEFINE V == [Ranks -> Nat]
  <2>1. SoFar(c, s + 1) \in V
    BY DEF SoFar
  <2>2. buffer \in [Ranks -> [Ranks -> V]]
    BY DEF IInv, Boxes
  <2>3. buffer' \in [Ranks -> [Ranks -> V]]
    <3> HIDE DEF V, c, r, s
    <3> QED
      BY ONLY <1>2, <1>3, <2>1, <2>2
  <2> QED
    BY <1>1, <2>3 DEF Boxes
<1>9. Untouched'
  <2>1. \A p \in Ranks, d \in Ranks :
          (\A g \in complete' : ~Arrives(g, p, d)) => buffer'[p][d] = Own(p)[d]
    <3> SUFFICES ASSUME NEW p \in Ranks, NEW d \in Ranks,
                        \A g \in complete' : ~Arrives(g, p, d)
                 PROVE  buffer'[p][d] = Own(p)[d]
      OBVIOUS
    <3>1. ~(p = r /\ d = c)
      BY <1>4 DEF Arrives
    <3>2. buffer'[p][d] = buffer[p][d]
      BY <1>2, <1>3, <3>1 DEF IInv, Boxes
    <3> QED
      BY <1>4, <3>2 DEF IInv, Untouched
  <2> QED
    BY <1>1, <2>1 DEF Untouched
<1>10. Holds'
  <2>1. ASSUME NEW g \in complete',
               \A h \in complete' : Arrives(h, To(g), Chunk(g)) => Step(h) <= Step(g)
        PROVE  buffer'[To(g)][Chunk(g)] = SoFar(Chunk(g), Step(g) + 1)
    <3>1. CASE g = f
      BY <1>2, <1>3, <3>1 DEF IInv, Boxes
    <3>2. CASE g # f /\ To(g) = r /\ Chunk(g) = c
      <4>1. g \in complete /\ Step(f) <= Step(g)
        BY <1>4, <2>1, <3>2 DEF Arrives
      <4>2. Step(g) < Step(f)
        BY <1>1, <1>4, <3>2, <4>1, NextOfChain
      <4>3. Step(g) \in Nat
        BY <1>2, <1>4, FlowParts, SMT
      <4> QED
        BY <1>2, <4>1, <4>2, <4>3, SMT
    <3>3. CASE ~(To(g) = r /\ Chunk(g) = c)
      <4>1. g \in complete /\ Latest(g)
        BY <1>4, <2>1, <3>3 DEF Latest
      <4>2. To(g) \in Ranks /\ Chunk(g) \in Ranks
        BY <1>2, <1>4, Places
      <4>3. buffer'[To(g)][Chunk(g)] = buffer[To(g)][Chunk(g)]
        BY <1>2, <1>3, <3>3, <4>2 DEF IInv, Boxes
      <4> QED
        BY <4>1, <4>3 DEF IInv, Holds
    <3> QED
      BY <3>1, <3>2, <3>3
  <2> QED
    BY <1>1, <2>1 DEF Holds, Latest
<1> QED
  BY <1>5, <1>6, <1>7, <1>8, <1>9, <1>10 DEF IInv

THEOREM RingInvariant == Spec => []IInv
<1>1. IInv /\ [Next]_vars => IInv'
  <2> SUFFICES ASSUME IInv, [Next]_vars
               PROVE  IInv'
    OBVIOUS
  <2>1. CASE UNCHANGED vars
    <3>1. Shape' /\ Chained'
      BY <2>1 DEF vars, IInv, Shape, Chained, Several, Flows, Waits, Chunk, Step, From
    <3>2. Carries' /\ Boxes'
      BY <2>1 DEF vars, IInv, Carries, Boxes, SoFar, Along, Ranks, Chunk, Step, From
    <3>3. Untouched' /\ Holds'
      BY <2>1 DEF vars, IInv, Untouched, Holds, Latest, Arrives, Own, SoFar, Along, Ranks,
                  To, Chunk, Step, From
    <3> QED
      BY <3>1, <3>2, <3>3 DEF IInv
  <2>2. CASE \E f \in Flows : complete_flow(f)
    BY <2>2, Completing
  <2> QED
    BY <2>1, <2>2 DEF Next, AllDone
<1> QED
  BY Initially, <1>1, PTL DEF Spec

(* However many ranks there are and in whatever order the flows complete,
   every sum that make_ring_all_reduce's chain delivers has each part once. *)
THEOREM AlwaysReduced == Spec => []Reduced
<1>1. IInv => Reduced
  <2> SUFFICES ASSUME IInv, NEW f \in complete, Step(f) >= gpus - 2
               PROVE  buffer[To(f)][Chunk(f)] = Everyone
    BY DEF Reduced
  <2>1. Several /\ gpus \in Nat /\ f \in Flows
    BY DEF IInv, Shape, Several
  <2>2. Step(f) \in Nat /\ Chunk(f) \in Ranks
    BY <2>1, FlowParts, Places, SMT
  <2>3. Latest(f)
    <3> SUFFICES ASSUME NEW g \in complete, To(g) = To(f), Chunk(g) = Chunk(f),
                        ~(Step(g) <= Step(f))
                 PROVE  FALSE
      BY DEF Latest, Arrives
    <3>1. g \in Flows
      BY DEF IInv, Shape
    <3>2. Step(g) \in Nat /\ Step(g) <= 2 * gpus - 3
      BY <2>1, <3>1, FlowParts, SMT
    <3>3. Step(g) = Step(f) + gpus
      BY <2>1, <2>2, <3>1, <3>2, TurnLater, SMT
    <3> QED
      BY <2>1, <2>2, <3>2, <3>3, SMT
  <2>4. buffer[To(f)][Chunk(f)] = SoFar(Chunk(f), Step(f) + 1)
    BY <2>3 DEF IInv, Holds
  <2> QED
    BY <2>1, <2>2, <2>4, SumAll, SMT
<1> QED
  BY <1>1, RingInvariant, PTL

(* However many ranks there are, no chunk changes under a send: depends_on
   is all the synchronisation the ring needs. *)
THEOREM SendsAreStable == Spec => []StableWhileSent
<1>1. IInv => StableWhileSent
  <2> SUFFICES ASSUME IInv, NEW f \in started \ complete
               PROVE  buffer[From(f)][Chunk(f)] = payload[f]
    BY DEF StableWhileSent
  <2>1. Several /\ gpus \in Nat /\ gpus >= 2 /\ f \in Flows
    BY SMT DEF IInv, Shape, Several
  <2>2. Step(f) \in Nat /\ Chunk(f) \in Ranks
    BY <2>1, FlowParts, Places, SMT
  <2>3. payload[f] = SoFar(Chunk(f), Step(f))
    BY DEF IInv, Carries
  <2>4. CASE Step(f) = 0
    <3>1. From(f) = Chunk(f)
      BY <2>1, <2>4, Places
    <3>2. \A g \in complete : ~Arrives(g, From(f), Chunk(f))
      <4> SUFFICES ASSUME NEW g \in complete, Chunk(g) = Chunk(f)
                   PROVE  FALSE
        BY DEF Arrives
      <4>1. g \in Flows
        BY DEF IInv, Shape
      <4>2. Step(g) < Step(f) /\ Step(g) \in Nat
        BY <2>1, <4>1, NextOfChain, FlowParts, SMT
      <4> QED
        BY <2>4, <4>2, SMT
    <3>3. buffer[From(f)][Chunk(f)] = Own(From(f))[Chunk(f)]
      BY <2>2, <3>1, <3>2 DEF IInv, Untouched
    <3> QED
      BY <2>1, <2>2, <2>3, <2>4, <3>1, <3>3, SumOwn
  <2>5. CASE Step(f) # 0
    <3>1. PICK w \in Flows : Waits(f) = {w}
      BY <2>1, <2>5, WaitsFor
    <3>2. w \in complete
      BY <3>1 DEF IInv, Shape
    <3>3. Step(f) = Step(w) + 1 /\ To(w) = From(f) /\ Chunk(w) = Chunk(f)
      BY <2>1, <3>1, WaitsArrives
    <3>4. Step(w) \in Nat
      BY <2>1, FlowParts, SMT
    <3>5. Latest(w)
      <4> SUFFICES ASSUME NEW g \in complete, To(g) = To(w), Chunk(g) = Chunk(w),
                          ~(Step(g) <= Step(w))
                   PROVE  FALSE
        BY DEF Latest, Arrives
      <4>1. g \in Flows
        BY DEF IInv, Shape
      <4>2. Step(g) \in Nat /\ Step(g) < Step(f)
        BY <2>1, <3>3, <4>1, NextOfChain, FlowParts, SMT
      <4> QED
        BY <3>3, <3>4, <4>2, SMT
    <3> QED
      BY <2>3, <3>2, <3>3, <3>5 DEF IInv, Holds
  <2> QED
    BY <2>4, <2>5
<1> QED
  BY <1>1, RingInvariant, PTL
=============================================================================
