---------------------------- MODULE FabricProofs ----------------------------
(***************************************************************************)
(* Theorems about the builder, the route table and a packet's trip, for    *)
(* every blueprint; and about trips on every fat-tree and leaf-spine.      *)
(*                                                                         *)
(* A link has two ends, and a link end is a pair of a link and 1 or 2.     *)
(* The run of a node begins after the ends of all lower nodes and has room *)
(* for each of its own, so a slot that is claimed is in no other run and   *)
(* has not been claimed before.                                            *)
(*                                                                         *)
(* A topology is what its loops leave: switches, then hosts, and a set of  *)
(* links (FatTreeMade, LeafSpineMade).  It is tiered: the closed form of   *)
(* the distance to a host changes by one along every link, and falls along *)
(* one of them at every switch but the last (FatTreeTiered).               *)
(***************************************************************************)
EXTENDS Topologies, FiniteSetTheorems, SequenceTheorems, TLAPS

-----------------------------------------------------------------------------
(* Counting link ends *)

Links(b) == Len(b.edges)

EndsAt(b, m, u) == {e \in (1 .. m) \X {1, 2} : b.edges[e[1]][e[2]] = u}
Lower(b, u) == {e \in (DOMAIN b.edges) \X {1, 2} : b.edges[e[1]][e[2]] < u}

Degree(b, m, u) == Cardinality(EndsAt(b, m, u))

LEMMA BlueprintFacts ==
  ASSUME NEW b, IsBlueprint(b)
  PROVE  /\ Size(b) \in Nat /\ Links(b) \in Nat /\ DOMAIN b.edges = 1 .. Links(b)
         /\ \A i \in 1 .. Links(b), j \in {1, 2} : b.edges[i][j] \in NodesOf(b)
         /\ \A i \in 1 .. Links(b) : b.edges[i][1] # b.edges[i][2]
         /\ NodesOf(b) = 0 .. Size(b) - 1
<1>1. /\ b.is_host \in Seq(BOOLEAN) /\ b.edges \in Seq(NodesOf(b) \X NodesOf(b))
      /\ \A i \in DOMAIN b.edges : b.edges[i][1] # b.edges[i][2]
  BY DEF IsBlueprint, NodesOf
<1>2. Size(b) \in Nat /\ Links(b) \in Nat /\ DOMAIN b.edges = 1 .. Links(b)
  BY <1>1 DEF Size, Links
<1> DEFINE N == NodesOf(b)
<1> HIDE DEF N
<1>3. \A i \in 1 .. Links(b) : b.edges[i] \in N \X N
  BY <1>1, <1>2 DEF N
<1> QED BY <1>1, <1>2, <1>3 DEF N, NodesOf

LEMMA TwoEnds ==
  ASSUME NEW m \in Nat
  PROVE  IsFiniteSet((1 .. m) \X {1, 2}) /\ Cardinality((1 .. m) \X {1, 2}) = 2 * m
<1>1. 1 \in Int /\ m \in Int /\ (IF 1 > m THEN 0 ELSE m - 1 + 1) = m
  OBVIOUS
<1>2. IsFiniteSet(1 .. m) /\ Cardinality(1 .. m) = m
  BY <1>1, FS_Interval
<1>3. IsFiniteSet({1, 2}) /\ Cardinality({1, 2}) = 2
  <2>1. IsFiniteSet({1}) /\ Cardinality({1}) = 1 /\ 2 \notin {1} /\ {1} \cup {2} = {1, 2}
    BY FS_Singleton
  <2> QED BY <2>1, FS_AddElement
<1> DEFINE A == 1 .. m
           B == {1, 2}
<1> HIDE DEF A, B
<1>4. IsFiniteSet(A \X B) /\ Cardinality(A \X B) = Cardinality(A) * Cardinality(B)
  BY <1>2, <1>3, FS_Product DEF A, B
<1>5. Cardinality(A \X B) = 2 * m
  BY <1>2, <1>3, <1>4 DEF A, B
<1> QED BY <1>4, <1>5 DEF A, B

LEMMA EndsFacts ==
  ASSUME NEW b, IsBlueprint(b)
  PROVE  /\ \A u : EndsBelow(b, u) \in Nat
         /\ \A m \in 0 .. Links(b) : \A u : Degree(b, m, u) \in Nat
         /\ \A u \in NodesOf(b) : EndsBelow(b, u + 1) = EndsBelow(b, u) + Degree(b, Links(b), u)
         /\ \A m \in 0 .. Links(b) : \A u : Degree(b, m, u) <= Degree(b, Links(b), u)
         /\ \A u, v \in Nat : u <= v => EndsBelow(b, u) <= EndsBelow(b, v)
         /\ EndsBelow(b, 0) = 0 /\ EndsBelow(b, Size(b)) = 2 * Links(b)
<1> DEFINE L == Links(b)
           Ends == (1 .. L) \X {1, 2}
<1>1. /\ Size(b) \in Nat /\ L \in Nat /\ DOMAIN b.edges = 1 .. L
      /\ \A e \in Ends : b.edges[e[1]][e[2]] \in NodesOf(b) /\ b.edges[e[1]][e[2]] \in Nat
  BY BlueprintFacts
<1>2. IsFiniteSet(Ends) /\ Cardinality(Ends) = 2 * L
  BY <1>1, TwoEnds
<1>3. \A u : Lower(b, u) \in SUBSET Ends /\ EndsBelow(b, u) = Cardinality(Lower(b, u))
  BY <1>1 DEF Lower, EndsBelow
<1>4. \A m \in 0 .. L : \A u : EndsAt(b, m, u) \in SUBSET EndsAt(b, L, u)
                           /\ EndsAt(b, m, u) \in SUBSET Ends
  <2>1. \A m \in 0 .. L : 1 .. m \subseteq 1 .. L
    BY <1>1
  <2> QED BY <2>1 DEF EndsAt
<1>5. \A u : IsFiniteSet(Lower(b, u)) /\ EndsBelow(b, u) \in Nat
  BY <1>2, <1>3, FS_Subset, FS_CardinalityType
<1>6. \A m \in 0 .. L : \A u : IsFiniteSet(EndsAt(b, m, u)) /\ Degree(b, m, u) \in Nat
  BY <1>2, <1>4, FS_Subset, FS_CardinalityType DEF Degree
<1>7. ASSUME NEW u \in NodesOf(b)
      PROVE  EndsBelow(b, u + 1) = EndsBelow(b, u) + Degree(b, L, u)
  <2>1. u \in Nat
    BY <1>1, BlueprintFacts
  <2>2. Lower(b, u + 1) = Lower(b, u) \cup EndsAt(b, L, u)
    <3>1. \A x \in Nat : x < u + 1 <=> x < u \/ x = u
      BY <2>1
    <3> QED BY <1>1, <3>1 DEF Lower, EndsAt
  <2>3. Lower(b, u) \cap EndsAt(b, L, u) = {}
    <3>1. \A x \in Nat : ~(x < u /\ x = u)
      BY <2>1
    <3> QED BY <1>1, <3>1 DEF Lower, EndsAt
  <2>4. L \in 0 .. L
    BY <1>1
  <2>5. Cardinality(Lower(b, u) \cap EndsAt(b, L, u)) = 0
    BY <2>3, FS_EmptySet
  <2>6. Cardinality(Lower(b, u + 1))
          = Cardinality(Lower(b, u)) + Cardinality(EndsAt(b, L, u))
              - Cardinality(Lower(b, u) \cap EndsAt(b, L, u))
    BY <1>5, <1>6, <2>2, <2>4, FS_Union
  <2> DEFINE x == EndsBelow(b, u)
             y == Degree(b, L, u)
             z == EndsBelow(b, u + 1)
  <2>7. x \in Nat /\ y \in Nat /\ z = x + y - 0
    BY <1>3, <1>5, <1>6, <2>4, <2>5, <2>6 DEF Degree
  <2> HIDE DEF x, y, z
  <2>8. z = x + y
    BY <2>7
  <2> QED BY <2>8 DEF x, y, z
<1>8. \A m \in 0 .. L : \A u : Degree(b, m, u) <= Degree(b, L, u)
  <2>1. L \in 0 .. L
    BY <1>1
  <2> QED BY <1>4, <1>6, <2>1, FS_Subset DEF Degree
<1>9. ASSUME NEW u \in Nat, NEW v \in Nat, u <= v
      PROVE  EndsBelow(b, u) <= EndsBelow(b, v)
  <2>1. Lower(b, u) \in SUBSET Lower(b, v)
    <3>1. \A x \in Nat : x < u => x < v
      BY <1>9
    <3> QED BY <1>1, <3>1 DEF Lower
  <2> QED BY <1>3, <1>5, <2>1, FS_Subset
<1>10. EndsBelow(b, 0) = 0
  <2>1. Lower(b, 0) = {}
    <3>1. \A x \in Nat : ~(x < 0)
      OBVIOUS
    <3> QED BY <1>1, <3>1 DEF Lower
  <2> QED BY <1>3, <2>1, FS_EmptySet
<1>11. EndsBelow(b, Size(b)) = 2 * L
  <2>1. Lower(b, Size(b)) = Ends
    <3>1. \A x \in NodesOf(b) : x < Size(b)
      BY <1>1, BlueprintFacts
    <3> QED BY <1>1, <3>1 DEF Lower
  <2> QED BY <1>2, <1>3, <2>1
<1> QED BY <1>5, <1>6, <1>7, <1>8, <1>9, <1>10, <1>11

(* The ends of one more link. *)
LEMMA OneMoreLink ==
  ASSUME NEW b, IsBlueprint(b), NEW m \in 0 .. Links(b), m < Links(b), NEW u
  PROVE  Degree(b, m + 1, u) = IF u \in {b.edges[m + 1][1], b.edges[m + 1][2]}
                               THEN Degree(b, m, u) + 1 ELSE Degree(b, m, u)
<1> DEFINE e == b.edges[m + 1]
           S == EndsAt(b, m, u)
<1>1. m \in Nat /\ m + 1 \in 1 .. Links(b) /\ e[1] # e[2] /\ Links(b) \in Nat
  BY BlueprintFacts
<1>2. IsFiniteSet(S)
  <2>1. S \in SUBSET ((1 .. m) \X {1, 2})
    BY DEF EndsAt
  <2> QED BY <1>1, <2>1, TwoEnds, FS_Subset
<1>3. \A i : i \in 1 .. m + 1 <=> i \in 1 .. m \/ i = m + 1
  BY <1>1
<1>4. ~(m + 1 \in 1 .. m)
  BY <1>1
<1> HIDE DEF e
<1>5. ASSUME NEW j \in {1, 2}, u = e[j]
      PROVE  Degree(b, m + 1, u) = Degree(b, m, u) + 1
  <2>1. EndsAt(b, m + 1, u) = S \cup {<<m + 1, j>>}
    <3>1. \A k \in {1, 2} : e[k] = u <=> k = j
      BY <1>1, <1>5
    <3>2. \A i \in 1 .. m + 1, k \in {1, 2} :
            b.edges[i][k] = u <=> (i \in 1 .. m /\ b.edges[i][k] = u) \/ (i = m + 1 /\ k = j)
      BY <1>3, <1>4, <3>1 DEF e
    <3>3. \A x : x \in EndsAt(b, m + 1, u) <=> x \in S \/ x = <<m + 1, j>>
      BY <1>3, <3>2 DEF EndsAt
    <3> HIDE DEF S
    <3> QED BY <3>3
  <2>2. <<m + 1, j>> \notin S
    BY <1>4 DEF EndsAt
  <2> HIDE DEF S
  <2>3. Cardinality(S \cup {<<m + 1, j>>}) = Cardinality(S) + 1
    BY <1>2, <2>2, FS_AddElement
  <2> QED BY <2>1, <2>3 DEF Degree, S
<1>6. CASE u \notin {e[1], e[2]}
  <2>1. EndsAt(b, m + 1, u) = S
    <3>1. \A k \in {1, 2} : e[k] # u
      BY <1>6
    <3>2. \A i \in 1 .. m + 1, k \in {1, 2} :
            b.edges[i][k] = u <=> i \in 1 .. m /\ b.edges[i][k] = u
      BY <1>3, <3>1 DEF e
    <3> QED BY <1>3, <3>2 DEF EndsAt
  <2> QED BY <1>6, <2>1 DEF Degree, e
<1>7. CASE u \in {e[1], e[2]}
  <2>1. Degree(b, m + 1, u) = Degree(b, m, u) + 1
    BY <1>5, <1>7
  <2> QED BY <1>7, <2>1 DEF e
<1> QED BY <1>6, <1>7

-----------------------------------------------------------------------------
(* Induction over the naturals, as a fact about sets *)

LEMMA LeastNat ==
  ASSUME NEW S, S \subseteq Nat, S # {}
  PROVE  \E n \in S : \A m \in S : n <= m
<1>1. \E n \in S : \A m \in S : <<m, n>> \notin OpToRel(<, Nat)
  BY NatLessThanWellFounded, WFMin
<1>2. \A m, n \in Nat : m < n => <<m, n>> \in OpToRel(<, Nat)
  BY DEF OpToRel
<1>3. PICK n \in S : \A m \in S : ~(m < n)
  BY <1>1, <1>2
<1> QED BY <1>3, SMT

LEMMA Induction ==
  ASSUME NEW S, 0 \in S, \A n \in Nat : n \in S => n + 1 \in S
  PROVE  \A n \in Nat : n \in S
<1> DEFINE T == Nat \ S
<1>1. SUFFICES ASSUME T # {} PROVE FALSE
  OBVIOUS
<1>2. PICK n \in T : \A m \in T : n <= m
  <2>1. T \subseteq Nat
    OBVIOUS
  <2> HIDE DEF T
  <2> QED BY <1>1, <2>1, LeastNat
<1>3. n # 0 /\ n - 1 \in Nat
  BY <1>2
<1>4. n - 1 \notin T
  BY <1>2, <1>3
<1>5. n - 1 + 1 \in S
  BY <1>3, <1>4
<1> QED BY <1>2, <1>5

-----------------------------------------------------------------------------
(* Loops.  TLAPS knows a function given by recursion as a choice of some   *)
(* function that satisfies it: there is one, and only one.                 *)

OneMoreFar(b, u, n, s) ==
  IF b.edges[n][1] = u THEN Append(s, b.edges[n][2])
  ELSE IF b.edges[n][2] = u THEN Append(s, b.edges[n][1])
  ELSE s

OneMoreOf(seq, S, n, s) == IF seq[n] \in S THEN Append(s, seq[n]) ELSE s

Wider(b, B) ==
  B \cup UNION {{e[1], e[2]} : e \in {e \in ToSet(b.edges) : {e[1], e[2]} \cap B # {}}}

LinksOf(b) == UNION {{<<e[1], e[2]>>, <<e[2], e[1]>>} : e \in ToSet(b.edges)}

Entering(b, near) == {l \in LinksOf(b) : l[2] \in near.ball /\ l[1] \notin near.ball}

Grow(b, near) == [ball |-> near.ball \cup {l[1] : l \in Entering(b, near)},
                  into |-> near.into \cup Entering(b, near)]

(* The inner loops of LeafSpine and of FatTree.                            *)
MeshFor(spines, i, b) == For(spines, LAMBDA x, s : connect(x, spines + i, s), b)

BelowFor(spines, hosts_per_leaf, i, b) ==
  For(hosts_per_leaf, LAMBDA x, j : connect(add_host(x), Size(x), spines + i), b)

UpFor(k, pod, a, b) ==
  For(k \div 2, LAMBDA x, j : connect(x, fat_tree_agg(k, pod, a), fat_tree_core(k, a, j)), b)

DownFor(k, pod, a, b) ==
  For(k \div 2, LAMBDA x, e : connect(x, fat_tree_agg(k, pod, a), fat_tree_edge(k, pod, e)), b)

PodFor(k, pod, b) == For(k \div 2, LAMBDA x, a : DownFor(k, pod, a, UpFor(k, pod, a, x)), b)

EdgeOf(k, n) == fat_tree_edge(k, fat_tree_pod_of_host(k, n), (n \div (k \div 2)) % (k \div 2))

(* Turn n of a loop that has made v so far.                                *)
Turn(loop, x, v, n) ==
  IF loop = "far" THEN OneMoreFar(x[1], x[2], n, v)
  ELSE IF loop = "those" THEN OneMoreOf(x[1], x[2], n, v)
  ELSE IF loop = "ball" THEN Wider(x, v)
  ELSE IF loop = "switches" THEN add_switch(v)
  ELSE IF loop = "hosts" THEN add_host(v)
  ELSE IF loop = "mesh" THEN connect(v, x[1] + x[2], n - 1)
  ELSE IF loop = "meshes" THEN MeshFor(x, n - 1, v)
  ELSE IF loop = "below" THEN connect(add_host(v), Size(v), x[1] + x[2])
  ELSE IF loop = "leaves" THEN BelowFor(x[1], x[2], n - 1, v)
  ELSE IF loop = "up" THEN connect(v, fat_tree_agg(x[1], x[2], x[3]), fat_tree_core(x[1], x[3], n - 1))
  ELSE IF loop = "down" THEN connect(v, fat_tree_agg(x[1], x[2], x[3]), fat_tree_edge(x[1], x[2], n - 1))
  ELSE IF loop = "pod" THEN DownFor(x[1], x[2], n - 1, UpFor(x[1], x[2], n - 1, v))
  ELSE IF loop = "pods" THEN PodFor(x, n - 1, v)
  ELSE IF loop = "uplinks" THEN connect(v, fat_tree_switch_count(x) + (n - 1), EdgeOf(x, n - 1))
  ELSE Grow(x, v)

IsLoop(loop, x, w, N, t) ==
  t = [n \in 0 .. N |-> IF n = 0 THEN w ELSE Turn(loop, x, t[n - 1], n)]

LoopAt(loop, x, w, n) == (CHOOSE t : IsLoop(loop, x, w, n, t))[n]

LEMMA LoopExists ==
  ASSUME NEW loop, NEW x, NEW w, NEW N \in Nat
  PROVE  \E t : IsLoop(loop, x, w, N, t)
<1> DEFINE S == {m \in Nat : \E t : IsLoop(loop, x, w, m, t)}
<1>1. 0 \in S
  <2> DEFINE t == [n \in 0 .. 0 |-> w]
  <2>1. \A n \in 0 .. 0 : n = 0
    OBVIOUS
  <2>2. IsLoop(loop, x, w, 0, t)
    BY <2>1 DEF IsLoop
  <2> QED BY <2>2
<1>2. ASSUME NEW m \in Nat, m \in S
      PROVE  m + 1 \in S
  <2>1. PICK t : IsLoop(loop, x, w, m, t)
    BY <1>2
  <2> DEFINE v == [n \in 0 .. m + 1 |-> IF n = m + 1 THEN Turn(loop, x, t[m], m + 1) ELSE t[n]]
  <2>2. ASSUME NEW n \in 0 .. m + 1
        PROVE  v[n] = IF n = 0 THEN w ELSE Turn(loop, x, v[n - 1], n)
    <3>1. CASE n = m + 1
      <4>1. v[n] = Turn(loop, x, t[m], m + 1)
        BY <3>1
      <4>2. n - 1 = m /\ m \in 0 .. m + 1 /\ m # m + 1 /\ n # 0
        BY <3>1
      <4>3. v[n - 1] = t[m]
        BY <4>2
      <4> QED BY <3>1, <4>1, <4>2, <4>3
    <3>2. CASE n # m + 1
      <4>1. n \in 0 .. m /\ v[n] = t[n]
        BY <3>2
      <4>2. t[n] = IF n = 0 THEN w ELSE Turn(loop, x, t[n - 1], n)
        BY <2>1, <4>1 DEF IsLoop
      <4>3. n # 0 => n - 1 \in 0 .. m + 1 /\ n - 1 # m + 1
        BY <3>2
      <4>4. n # 0 => v[n - 1] = t[n - 1]
        BY <4>3
      <4> QED BY <4>1, <4>2, <4>4
    <3> QED BY <3>1, <3>2
  <2>3. v = [n \in 0 .. m + 1 |-> v[n]]
    OBVIOUS
  <2> HIDE DEF v
  <2>4. IsLoop(loop, x, w, m + 1, v)
    BY <2>2, <2>3 DEF IsLoop
  <2> QED BY <2>4
<1> HIDE DEF S
<1>3. N \in S
  BY <1>1, <1>2, Induction
<1> QED BY <1>3 DEF S

LEMMA LoopUnique ==
  ASSUME NEW loop, NEW x, NEW w, NEW N \in Nat, NEW M \in Nat,
         NEW t, IsLoop(loop, x, w, N, t), NEW u, IsLoop(loop, x, w, M, u),
         NEW n \in Nat, n <= N, n <= M
  PROVE  t[n] = u[n]
<1> DEFINE S == {m \in Nat : m <= N /\ m <= M => t[m] = u[m]}
<1>1. /\ \A m \in 0 .. N : t[m] = IF m = 0 THEN w ELSE Turn(loop, x, t[m - 1], m)
      /\ \A m \in 0 .. M : u[m] = IF m = 0 THEN w ELSE Turn(loop, x, u[m - 1], m)
  BY DEF IsLoop
<1>2. 0 \in S
  BY <1>1
<1>3. ASSUME NEW m \in Nat, m \in S
      PROVE  m + 1 \in S
  <2>1. SUFFICES ASSUME m + 1 <= N, m + 1 <= M PROVE t[m + 1] = u[m + 1]
    OBVIOUS
  <2>2. /\ m + 1 \in 0 .. N /\ m + 1 \in 0 .. M /\ m + 1 # 0 /\ m + 1 - 1 = m
        /\ m <= N /\ m <= M
    BY <2>1
  <2>3. t[m] = u[m]
    BY <1>3, <2>2
  <2> QED BY <1>1, <2>2, <2>3
<1> HIDE DEF S
<1>4. n \in S
  BY <1>2, <1>3, Induction
<1> QED BY <1>4 DEF S

LEMMA LoopStart ==
  ASSUME NEW loop, NEW x, NEW w
  PROVE  LoopAt(loop, x, w, 0) = w
<1>1. PICK t : IsLoop(loop, x, w, 0, t)
  BY LoopExists
<1>2. IsLoop(loop, x, w, 0, CHOOSE u : IsLoop(loop, x, w, 0, u))
  BY <1>1
<1> QED BY <1>2 DEF LoopAt, IsLoop

LEMMA LoopStep ==
  ASSUME NEW loop, NEW x, NEW w, NEW n \in Nat
  PROVE  LoopAt(loop, x, w, n + 1) = Turn(loop, x, LoopAt(loop, x, w, n), n + 1)
<1> DEFINE a(m) == CHOOSE t : IsLoop(loop, x, w, m, t)
<1>1. \A m \in Nat : IsLoop(loop, x, w, m, a(m)) /\ LoopAt(loop, x, w, m) = a(m)[m]
  BY LoopExists DEF LoopAt
<1> HIDE DEF a
<1>2. n + 1 \in Nat /\ n + 1 \in 0 .. n + 1 /\ n + 1 # 0 /\ n + 1 - 1 = n /\ n <= n + 1
  OBVIOUS
<1>3. a(n + 1)[n + 1] = Turn(loop, x, a(n + 1)[n], n + 1)
  BY <1>1, <1>2 DEF IsLoop
<1>4. a(n + 1)[n] = a(n)[n]
  BY <1>1, <1>2, LoopUnique
<1> QED BY <1>1, <1>2, <1>3, <1>4

(* A function on 0 .. N that satisfies the recursion has the loop's values. *)
LEMMA LoopIs ==
  ASSUME NEW loop, NEW x, NEW w, NEW N \in Nat, NEW t, IsLoop(loop, x, w, N, t),
         NEW n \in 0 .. N
  PROVE  t[n] = LoopAt(loop, x, w, n)
<1> DEFINE a == CHOOSE u : IsLoop(loop, x, w, n, u)
<1>1. n \in Nat /\ n <= N /\ n <= n
  OBVIOUS
<1>2. IsLoop(loop, x, w, n, a)
  BY <1>1, LoopExists
<1> HIDE DEF a
<1>3. t[n] = a[n]
  BY <1>1, <1>2, LoopUnique
<1> QED BY <1>3 DEF LoopAt, a

-----------------------------------------------------------------------------
(* The far ends in port order, link by link *)

FarAt(b, u, n) == LoopAt("far", <<b, u>>, <<>>, n)

LEMMA FarFacts ==
  ASSUME NEW b, IsBlueprint(b), NEW u
  PROVE  /\ FarAt(b, u, 0) = <<>>
         /\ \A n \in 1 .. Links(b) : FarAt(b, u, n) = OneMoreFar(b, u, n, FarAt(b, u, n - 1))
         /\ Far(b, u) = FarAt(b, u, Links(b))
<1> DEFINE L == Links(b)
           x == <<b, u>>
           P(t) == t = [n \in 0 .. L |->
                         IF n = 0 THEN <<>>
                         ELSE IF b.edges[n][1] = u THEN Append(t[n - 1], b.edges[n][2])
                         ELSE IF b.edges[n][2] = u THEN Append(t[n - 1], b.edges[n][1])
                         ELSE t[n - 1]]
           a == CHOOSE t : P(t)
<1>1. L \in Nat
  BY BlueprintFacts
<1>2. Far(b, u) = a[L]
  BY DEF Far, Links
<1>3. \A t : P(t) <=> IsLoop("far", x, <<>>, L, t)
  BY DEF IsLoop, Turn, OneMoreFar
<1>4. P(a)
  BY <1>1, <1>3, LoopExists
<1> HIDE DEF P, a
<1>5. a[L] = FarAt(b, u, L)
  BY <1>1, <1>3, <1>4, LoopIs DEF FarAt
<1>6. FarAt(b, u, 0) = <<>>
      /\ \A n \in Nat : FarAt(b, u, n + 1) = OneMoreFar(b, u, n + 1, FarAt(b, u, n))
  <2>1. x[1] = b /\ x[2] = u
    OBVIOUS
  <2>2. \A n : FarAt(b, u, n) = LoopAt("far", x, <<>>, n)
    BY DEF FarAt
  <2> HIDE DEF x
  <2>3. /\ LoopAt("far", x, <<>>, 0) = <<>>
        /\ \A n \in Nat : LoopAt("far", x, <<>>, n + 1)
                            = Turn("far", x, LoopAt("far", x, <<>>, n), n + 1)
    BY LoopStart, LoopStep
  <2>4. \A v, n : Turn("far", x, v, n) = OneMoreFar(b, u, n, v)
    BY <2>1 DEF Turn
  <2> QED BY <2>2, <2>3, <2>4
<1>7. ASSUME NEW n \in 1 .. L
      PROVE  FarAt(b, u, n) = OneMoreFar(b, u, n, FarAt(b, u, n - 1))
  <2>1. n - 1 \in Nat /\ n - 1 + 1 = n
    OBVIOUS
  <2> QED BY <1>6, <2>1
<1> QED BY <1>2, <1>5, <1>6, <1>7

-----------------------------------------------------------------------------
(* Selections *)

ThoseAt(seq, S, n) == LoopAt("those", <<seq, S>>, <<>>, n)

LEMMA ThoseLoop ==
  ASSUME NEW A, NEW seq \in Seq(A), NEW S
  PROVE  /\ Those(seq, S) = ThoseAt(seq, S, Len(seq))
         /\ ThoseAt(seq, S, 0) = <<>>
         /\ \A n \in Nat : ThoseAt(seq, S, n + 1) = OneMoreOf(seq, S, n + 1, ThoseAt(seq, S, n))
<1> DEFINE L == Len(seq)
           x == <<seq, S>>
           P(t) == t = [i \in 0 .. L |->
                         IF i = 0 THEN <<>>
                         ELSE IF seq[i] \in S THEN Append(t[i - 1], seq[i]) ELSE t[i - 1]]
           a == CHOOSE t : P(t)
<1>1. L \in Nat
  OBVIOUS
<1>2. Those(seq, S) = a[L]
  BY DEF Those
<1>3. x[1] = seq /\ x[2] = S
  OBVIOUS
<1>4. \A n : ThoseAt(seq, S, n) = LoopAt("those", x, <<>>, n)
  BY DEF ThoseAt
<1> HIDE DEF x
<1>5. \A v, n : Turn("those", x, v, n) = OneMoreOf(seq, S, n, v)
  BY <1>3 DEF Turn
<1>6. \A t : P(t) <=> IsLoop("those", x, <<>>, L, t)
  BY <1>3 DEF IsLoop, Turn, OneMoreOf
<1>7. P(a)
  BY <1>1, <1>6, LoopExists
<1> HIDE DEF P, a, L
<1>8. a[L] = ThoseAt(seq, S, L)
  BY <1>1, <1>4, <1>6, <1>7, LoopIs
<1>9. /\ LoopAt("those", x, <<>>, 0) = <<>>
      /\ \A n \in Nat : LoopAt("those", x, <<>>, n + 1)
                          = Turn("those", x, LoopAt("those", x, <<>>, n), n + 1)
  BY LoopStart, LoopStep
<1> QED BY <1>2, <1>4, <1>5, <1>8, <1>9 DEF L

(* What has been selected of the first n elements. *)
Selected(seq, S, n, r) ==
  /\ \A i \in DOMAIN r : r[i] \in S /\ \E j \in 1 .. n : r[i] = seq[j]
  /\ \A j \in 1 .. n : seq[j] \in S => \E i \in DOMAIN r : r[i] = seq[j]
  /\ IsInjective(seq) => IsInjective(r)

LEMMA ThoseFacts ==
  ASSUME NEW A, NEW seq \in Seq(A), NEW S
  PROVE  /\ Those(seq, S) \in Seq(A)
         /\ Selected(seq, S, Len(seq), Those(seq, S))
<1> DEFINE L == Len(seq)
           r(n) == ThoseAt(seq, S, n)
           Q(n) == r(n) \in Seq(A) /\ Selected(seq, S, n, r(n))
           I == {n \in Nat : n <= L => Q(n)}
<1>1. L \in Nat /\ \A n \in 1 .. L : seq[n] \in A /\ n \in DOMAIN seq
  OBVIOUS
<1>2. /\ Those(seq, S) = r(L) /\ r(0) = <<>>
      /\ \A n \in Nat : r(n + 1) = OneMoreOf(seq, S, n + 1, r(n))
  BY ThoseLoop
<1> HIDE DEF r
<1>3. 0 \in I
  <2>1. Selected(seq, S, 0, <<>>)
    BY DEF Selected, IsInjective
  <2>2. <<>> \in Seq(A)
    OBVIOUS
  <2>3. Q(0)
    BY <1>2, <2>1, <2>2
  <2> HIDE DEF Q
  <2> QED BY <2>3
<1>4. ASSUME NEW n \in Nat, n \in I
      PROVE  n + 1 \in I
  <2>1. SUFFICES ASSUME n + 1 <= L PROVE Q(n + 1)
    OBVIOUS
  <2> DEFINE s == r(n)
             y == seq[n + 1]
             q == r(n + 1)
  <2>2. s \in Seq(A) /\ Selected(seq, S, n, s) /\ n + 1 \in 1 .. L
    BY <1>1, <1>4, <2>1
  <2>3. q = IF y \in S THEN Append(s, y) ELSE s
    BY <1>2 DEF OneMoreOf
  <2>4. \A j : j \in 1 .. n + 1 <=> j \in 1 .. n \/ j = n + 1
    OBVIOUS
  <2>5. y \in A
    BY <1>1, <2>2
  <2> SUFFICES q \in Seq(A) /\ Selected(seq, S, n + 1, q)
    OBVIOUS
  <2>6. CASE y \notin S
    <3>1. q = s
      BY <2>3, <2>6
    <3> HIDE DEF q, s
    <3>2. Selected(seq, S, n + 1, s)
      BY <2>2, <2>4, <2>6 DEF Selected
    <3> QED BY <2>2, <3>1, <3>2
  <2>7. CASE y \in S
    <3>1. q = Append(s, y)
      BY <2>3, <2>7
    <3> HIDE DEF q, s
    <3> DEFINE m == Len(s)
    <3>2. /\ m \in Nat /\ DOMAIN s = 1 .. m /\ q \in Seq(A) /\ DOMAIN q = 1 .. m + 1
          /\ q[m + 1] = y /\ \A i \in 1 .. m : q[i] = s[i]
      BY <2>2, <2>5, <3>1, AppendProperties
    <3> HIDE DEF m
    <3>3. \A i : i \in 1 .. m + 1 <=> i \in 1 .. m \/ i = m + 1
      BY <3>2
    <3>4. ASSUME NEW i \in DOMAIN q
          PROVE  q[i] \in S /\ \E j \in 1 .. n + 1 : q[i] = seq[j]
      <4>1. CASE i \in 1 .. m
        BY <2>2, <2>4, <3>2, <4>1 DEF Selected
      <4>2. CASE i = m + 1
        BY <2>4, <2>7, <3>2, <4>2
      <4> QED BY <3>2, <3>3, <4>1, <4>2
    <3>5. ASSUME NEW j \in 1 .. n + 1, seq[j] \in S
          PROVE  \E i \in DOMAIN q : q[i] = seq[j]
      <4>1. CASE j \in 1 .. n
        <5>1. PICK i \in 1 .. m : s[i] = seq[j]
          BY <2>2, <3>2, <3>5, <4>1 DEF Selected
        <5> QED BY <3>2, <3>3, <5>1
      <4>2. CASE j = n + 1
        BY <3>2, <3>3, <4>2
      <4> QED BY <2>4, <4>1, <4>2
    <3>6. ASSUME IsInjective(seq)
          PROVE  IsInjective(q)
      <4>1. \A i \in 1 .. m : s[i] # y
        <5> SUFFICES ASSUME NEW i \in 1 .. m, s[i] = y PROVE FALSE
          OBVIOUS
        <5>1. PICK j \in 1 .. n : s[i] = seq[j]
          BY <2>2, <3>2 DEF Selected
        <5>2. j \in DOMAIN seq /\ n + 1 \in DOMAIN seq /\ j # n + 1
          BY <1>1, <2>2, <2>4
        <5> QED BY <3>6, <5>1, <5>2 DEF IsInjective
      <4>2. \A i, j \in 1 .. m : s[i] = s[j] => i = j
        BY <2>2, <3>2, <3>6 DEF Selected, IsInjective
      <4> QED BY <3>2, <3>3, <4>1, <4>2 DEF IsInjective
    <3> QED BY <3>2, <3>4, <3>5, <3>6 DEF Selected
  <2> QED BY <2>6, <2>7
<1> HIDE DEF I
<1>5. L \in I
  BY <1>1, <1>3, <1>4, Induction
<1> QED BY <1>1, <1>2, <1>5 DEF I

(* Selecting ports by their far ends and then looking at the far ends is   *)
(* selecting far ends.                                                     *)
LEMMA ThosePeers ==
  ASSUME NEW A, NEW seq \in Seq(A), NEW S, NEW T,
         \A i \in 1 .. Len(seq) : seq[i] \in S <=> peer(seq[i]) \in T
  PROVE  PeersOf(Those(seq, S)) = Those(PeersOf(seq), T)
<1> DEFINE L == Len(seq)
           B == {peer(y) : y \in A}
           tes == PeersOf(seq)
           r(n) == ThoseAt(seq, S, n)
           q(n) == ThoseAt(tes, T, n)
           I == {n \in Nat : n <= L => r(n) \in Seq(A) /\ PeersOf(r(n)) = q(n)}
<1>1. L \in Nat /\ DOMAIN seq = 1 .. L /\ \A n \in 1 .. L : seq[n] \in A
  OBVIOUS
<1>2. tes = [i \in 1 .. L |-> peer(seq[i])]
  BY <1>1 DEF PeersOf
<1>3. tes \in Seq(B) /\ Len(tes) = L
  BY <1>1, <1>2
<1> HIDE DEF tes, B
<1>4. /\ Those(seq, S) = r(L) /\ r(0) = <<>>
      /\ \A n \in Nat : r(n + 1) = OneMoreOf(seq, S, n + 1, r(n))
  BY ThoseLoop
<1>5. /\ Those(tes, T) = q(L) /\ q(0) = <<>>
      /\ \A n \in Nat : q(n + 1) = OneMoreOf(tes, T, n + 1, q(n))
  BY <1>3, ThoseLoop
<1> HIDE DEF r, q
<1>6. 0 \in I
  <2>1. PeersOf(<<>>) = <<>> /\ <<>> \in Seq(A)
    BY DEF PeersOf
  <2> QED BY <1>4, <1>5, <2>1
<1>7. ASSUME NEW n \in Nat, n \in I
      PROVE  n + 1 \in I
  <2>1. SUFFICES ASSUME n + 1 <= L
                 PROVE  r(n + 1) \in Seq(A) /\ PeersOf(r(n + 1)) = q(n + 1)
    OBVIOUS
  <2> DEFINE s == r(n)
             y == seq[n + 1]
  <2>2. s \in Seq(A) /\ PeersOf(s) = q(n) /\ n + 1 \in 1 .. L
    BY <1>1, <1>7, <2>1
  <2>3. /\ r(n + 1) = IF y \in S THEN Append(s, y) ELSE s
        /\ q(n + 1) = IF peer(y) \in T THEN Append(PeersOf(s), peer(y)) ELSE PeersOf(s)
        /\ y \in S <=> peer(y) \in T
    BY <1>1, <1>2, <1>4, <1>5, <2>2 DEF OneMoreOf
  <2>4. y \in A
    BY <1>1, <2>2
  <2> HIDE DEF s, y
  <2>5. PeersOf(Append(s, y)) = Append(PeersOf(s), peer(y))
    <3> DEFINE m == Len(s)
               a == Append(s, y)
               p == PeersOf(s)
               C == {peer(z) : z \in A}
    <3>1. /\ m \in Nat /\ DOMAIN s = 1 .. m /\ DOMAIN a = 1 .. m + 1
          /\ a[m + 1] = y /\ \A i \in 1 .. m : a[i] = s[i] /\ s[i] \in A
      BY <2>2, <2>4, AppendProperties
    <3>2. p = [i \in 1 .. m |-> peer(s[i])]
      BY <3>1 DEF PeersOf
    <3>3. p \in Seq(C) /\ Len(p) = m /\ peer(y) \in C
      BY <2>4, <3>1, <3>2
    <3>4. PeersOf(a) = [i \in 1 .. m + 1 |-> peer(a[i])]
      BY <3>1 DEF PeersOf
    <3> HIDE DEF m, a, p, C
    <3>5. /\ Append(p, peer(y)) \in Seq(C) /\ Len(Append(p, peer(y))) = m + 1
          /\ Append(p, peer(y))[m + 1] = peer(y)
          /\ \A i \in 1 .. m : Append(p, peer(y))[i] = p[i]
      BY <3>3, AppendProperties
    <3>6. Append(p, peer(y)) = [i \in 1 .. m + 1 |-> Append(p, peer(y))[i]]
      <4> DEFINE v == Append(p, peer(y))
      <4>1. v \in Seq(C) /\ Len(v) = m + 1
        BY <3>5
      <4> HIDE DEF v
      <4>2. v = [i \in 1 .. m + 1 |-> v[i]]
        BY <4>1
      <4> QED BY <4>2 DEF v
    <3>7. ASSUME NEW i \in 1 .. m + 1
          PROVE  Append(p, peer(y))[i] = peer(a[i])
      <4>1. i \in 1 .. m \/ i = m + 1
        BY <3>1
      <4> QED BY <3>1, <3>2, <3>5, <4>1
    <3>8. PeersOf(a) = Append(p, peer(y))
      <4> DEFINE v == Append(p, peer(y))
      <4> HIDE DEF v
      <4> QED BY <3>4, <3>6, <3>7 DEF v
    <3> QED BY <3>8 DEF a, p
  <2>6. Append(s, y) \in Seq(A)
    BY <2>2, <2>4
  <2> QED BY <2>2, <2>3, <2>5, <2>6
<1> HIDE DEF I
<1>8. L \in I
  BY <1>1, <1>6, <1>7, Induction
<1> QED BY <1>1, <1>4, <1>5, <1>8 DEF I, tes

-----------------------------------------------------------------------------
(* Hosts, links and balls *)

LEMMA HostsFacts ==
  ASSUME NEW b, IsBlueprint(b)
  PROVE  /\ HostsOf(b) \in Seq(NodesOf(b)) /\ Len(HostsOf(b)) \in Nat
         /\ \A i, j \in 1 .. Len(HostsOf(b)) : HostsOf(b)[i] = HostsOf(b)[j] => i = j
         /\ \A i \in 1 .. Len(HostsOf(b)) :
              HostsOf(b)[i] \in NodesOf(b) /\ b.is_host[HostsOf(b)[i] + 1]
<1> DEFINE N == NodesOf(b)
           seq == [i \in 1 .. Size(b) |-> i - 1]
           S == {u \in N : b.is_host[u + 1]}
           H == HostsOf(b)
<1>1. Size(b) \in Nat /\ \A i \in 1 .. Size(b) : i - 1 \in N
  BY BlueprintFacts
<1>2. seq \in Seq(N) /\ IsInjective(seq)
  <2>1. seq \in Seq(N)
    BY <1>1
  <2>2. \A i, j \in 1 .. Size(b) : i - 1 = j - 1 => i = j
    BY <1>1
  <2> QED BY <2>1, <2>2 DEF IsInjective
<1>3. H = Those(seq, S)
  BY DEF HostsOf
<1> HIDE DEF seq, H, N
<1>4. H \in Seq(N) /\ Selected(seq, S, Len(seq), H)
  BY <1>2, <1>3, ThoseFacts
<1>5. DOMAIN H = 1 .. Len(H) /\ Len(H) \in Nat /\ \A i \in 1 .. Len(H) : H[i] \in N
  BY <1>4
<1>6. IsInjective(H) /\ \A i \in DOMAIN H : H[i] \in S
  BY <1>2, <1>4 DEF Selected
<1> QED BY <1>4, <1>5, <1>6 DEF H, N, IsInjective

LEMMA LinkIs ==
  ASSUME NEW b, IsBlueprint(b), NEW x, NEW y
  PROVE  <<x, y>> \in LinksOf(b) <=>
           \E i \in 1 .. Links(b) : \/ b.edges[i][1] = x /\ b.edges[i][2] = y
                                    \/ b.edges[i][1] = y /\ b.edges[i][2] = x
<1>1. DOMAIN b.edges = 1 .. Links(b)
  BY BlueprintFacts
<1>2. <<x, y>> \in LinksOf(b) <=>
        \E i \in 1 .. Links(b) : <<x, y>> \in {<<b.edges[i][1], b.edges[i][2]>>,
                                              <<b.edges[i][2], b.edges[i][1]>>}
  BY <1>1 DEF LinksOf, ToSet
<1> QED BY <1>2

LEMMA LinkFacts ==
  ASSUME NEW b, IsBlueprint(b), NEW x, NEW y, <<x, y>> \in LinksOf(b)
  PROVE  <<y, x>> \in LinksOf(b) /\ x # y /\ x \in NodesOf(b) /\ y \in NodesOf(b)
<1>1. PICK i \in 1 .. Links(b) : \/ b.edges[i][1] = x /\ b.edges[i][2] = y
                                 \/ b.edges[i][1] = y /\ b.edges[i][2] = x
  BY LinkIs
<1>2. /\ b.edges[i][1] \in NodesOf(b) /\ b.edges[i][2] \in NodesOf(b)
      /\ b.edges[i][1] # b.edges[i][2]
  BY BlueprintFacts
<1>3. <<y, x>> \in LinksOf(b)
  BY <1>1, LinkIs
<1> QED BY <1>1, <1>2, <1>3

LEMMA LinkPairs ==
  ASSUME NEW b, IsBlueprint(b), NEW l \in LinksOf(b)
  PROVE  l = <<l[1], l[2]>>
BY DEF LinksOf

LEMMA FarSet ==
  ASSUME NEW b, IsBlueprint(b), NEW u \in NodesOf(b)
  PROVE  /\ Far(b, u) \in Seq(NodesOf(b))
         /\ \A v : (\E i \in 1 .. Len(Far(b, u)) : Far(b, u)[i] = v) <=> <<u, v>> \in LinksOf(b)
<1> DEFINE L == Links(b)
           N == NodesOf(b)
           far(n) == FarAt(b, u, n)
           Joins(i, v) == \/ b.edges[i][1] = u /\ b.edges[i][2] = v
                          \/ b.edges[i][1] = v /\ b.edges[i][2] = u
           Q(n) == /\ far(n) \in Seq(N)
                   /\ \A v : (\E i \in 1 .. Len(far(n)) : far(n)[i] = v)
                               <=> \E i \in 1 .. n : Joins(i, v)
           I == {n \in Nat : n <= L => Q(n)}
<1>1. /\ L \in Nat
      /\ \A i \in 1 .. L : /\ b.edges[i][1] \in N /\ b.edges[i][2] \in N
                           /\ b.edges[i][1] # b.edges[i][2]
  BY BlueprintFacts
<1>2. /\ far(0) = <<>> /\ Far(b, u) = far(L)
      /\ \A n \in 1 .. L : far(n) = OneMoreFar(b, u, n, far(n - 1))
  BY FarFacts
<1> HIDE DEF N, far
<1>3. 0 \in I
  <2>1. <<>> \in Seq(N) /\ 1 .. Len(<<>>) = {} /\ 1 .. 0 = {}
    OBVIOUS
  <2>2. Q(0)
    BY <1>2, <2>1
  <2> HIDE DEF Q
  <2> QED BY <2>2
<1>4. ASSUME NEW n \in Nat, n \in I
      PROVE  n + 1 \in I
  <2>1. SUFFICES ASSUME n + 1 <= L PROVE Q(n + 1)
    OBVIOUS
  <2> DEFINE s == far(n)
             q == far(n + 1)
             x == b.edges[n + 1][1]
             y == b.edges[n + 1][2]
  <2>2. n + 1 \in 1 .. L /\ n + 1 - 1 = n /\ n <= L
    BY <1>1, <2>1
  <2>3. Q(n)
    BY <1>4, <2>2
  <2>4. q = IF x = u THEN Append(s, y) ELSE IF y = u THEN Append(s, x) ELSE s
    <3>1. q = OneMoreFar(b, u, n + 1, far(n))
      BY <1>2, <2>2
    <3> QED BY <3>1 DEF OneMoreFar
  <2>5. \A j : j \in 1 .. n + 1 <=> j \in 1 .. n \/ j = n + 1
    OBVIOUS
  <2>6. x \in N /\ y \in N /\ x # y
    BY <1>1, <2>2
  <2>7. \A v : (\E i \in 1 .. n + 1 : Joins(i, v))
                 <=> (\E i \in 1 .. n : Joins(i, v)) \/ (x = u /\ y = v) \/ (x = v /\ y = u)
    BY <2>5
  <2> HIDE DEF x, y, Joins
  <2>8. ASSUME NEW w \in N, q = Append(s, w),
               \A v : (\E i \in 1 .. n + 1 : Joins(i, v))
                        <=> (\E i \in 1 .. n : Joins(i, v)) \/ v = w
        PROVE  Q(n + 1)
    <3> DEFINE m == Len(s)
    <3>1. /\ s \in Seq(N) /\ m \in Nat /\ q \in Seq(N) /\ Len(q) = m + 1
          /\ q[m + 1] = w /\ \A i \in 1 .. m : q[i] = s[i]
      BY <2>3, <2>8, AppendProperties
    <3>2. \A v : (\E i \in 1 .. m : s[i] = v) <=> \E i \in 1 .. n : Joins(i, v)
      BY <2>3
    <3> HIDE DEF q, s, m
    <3>3. \A i : i \in 1 .. m + 1 <=> i \in 1 .. m \/ i = m + 1
      BY <3>1
    <3>4. \A v : (\E i \in 1 .. m + 1 : q[i] = v) <=> (\E i \in 1 .. m : s[i] = v) \/ v = w
      BY <3>1, <3>3
    <3>5. \A v : (\E i \in 1 .. Len(q) : q[i] = v) <=> \E i \in 1 .. n + 1 : Joins(i, v)
      BY <2>8, <3>1, <3>2, <3>4
    <3> QED BY <3>1, <3>5 DEF q
  <2>9. CASE x = u
    BY <2>4, <2>6, <2>7, <2>8, <2>9
  <2>10. CASE y = u
    BY <2>4, <2>6, <2>7, <2>8, <2>10
  <2>11. CASE x # u /\ y # u
    <3>1. q = s
      BY <2>4, <2>11
    <3>2. \A v : (\E i \in 1 .. n + 1 : Joins(i, v)) <=> \E i \in 1 .. n : Joins(i, v)
      BY <2>7, <2>11
    <3> QED BY <2>3, <3>1, <3>2
  <2> QED BY <2>9, <2>10, <2>11
<1>5. Q(L)
  <2> HIDE DEF Q
  <2>1. L \in I
    <3> HIDE DEF I
    <3> QED BY <1>1, <1>3, <1>4, Induction
  <2> QED BY <2>1
<1>6. \A v : <<u, v>> \in LinksOf(b) <=> \E i \in 1 .. L : Joins(i, v)
  <2> TAKE v
  <2>1. <<u, v>> \in LinksOf(b) <=>
          \E i \in 1 .. Links(b) : \/ b.edges[i][1] = u /\ b.edges[i][2] = v
                                   \/ b.edges[i][1] = v /\ b.edges[i][2] = u
    BY LinkIs
  <2> QED BY <2>1
<1> QED BY <1>2, <1>5, <1>6 DEF N

(* The nodes at most r links from s.                                       *)
Within(b, s, r) == LoopAt("ball", b, {s}, r)

(* Node v is exactly r links from s.                                       *)
Apart(b, s, v, r) == v \in Within(b, s, r) /\ \A q \in Nat : q < r => v \notin Within(b, s, q)

LEMMA BallIs ==
  ASSUME NEW s, NEW r \in Nat
  PROVE  Ball(s, r) = Within(plan, s, r)
<1> DEFINE P(t) == t = [d \in 0 .. r |->
                         IF d = 0 THEN {s}
                         ELSE LET B == t[d - 1]
                                  leaving == {e \in ToSet(plan.edges) : {e[1], e[2]} \cap B # {}}
                              IN  B \cup UNION {{e[1], e[2]} : e \in leaving}]
           a == CHOOSE t : P(t)
<1>1. Ball(s, r) = a[r]
  BY DEF Ball
<1>2. \A t : P(t) <=> IsLoop("ball", plan, {s}, r, t)
  BY DEF IsLoop, Turn, Wider
<1> HIDE DEF P
<1>3. P(a)
  <2>1. \E t : P(t)
    BY <1>2, LoopExists
  <2> QED BY <2>1
<1> HIDE DEF a
<1>4. r \in 0 .. r
  OBVIOUS
<1> QED BY <1>1, <1>2, <1>3, <1>4, LoopIs DEF Within

LEMMA WithinStart == ASSUME NEW b, NEW s PROVE Within(b, s, 0) = {s}
BY LoopStart DEF Within

LEMMA WithinStep ==
  ASSUME NEW b, IsBlueprint(b), NEW s, NEW r \in Nat, NEW x
  PROVE  x \in Within(b, s, r + 1) <=>
           x \in Within(b, s, r) \/ \E y \in Within(b, s, r) : <<x, y>> \in LinksOf(b)
<1> DEFINE B == Within(b, s, r)
<1>1. Within(b, s, r + 1) = Wider(b, B)
  BY LoopStep DEF Within, Turn
<1> HIDE DEF B
<1>2. \A u, v : <<u, v>> \in LinksOf(b) <=>
        \E e \in ToSet(b.edges) : (e[1] = u /\ e[2] = v) \/ (e[1] = v /\ e[2] = u)
  <2> TAKE u, v
  <2>1. <<u, v>> \in LinksOf(b) <=>
          \E e \in ToSet(b.edges) : <<u, v>> \in {<<e[1], e[2]>>, <<e[2], e[1]>>}
    BY DEF LinksOf
  <2> QED BY <2>1
<1>3. x \in Wider(b, B) <=>
        x \in B \/ \E e \in ToSet(b.edges) : (e[1] \in B \/ e[2] \in B) /\ (x = e[1] \/ x = e[2])
  BY DEF Wider
<1>4. ASSUME NEW e \in ToSet(b.edges), e[1] \in B \/ e[2] \in B, x = e[1] \/ x = e[2], x \notin B
      PROVE  \E y \in B : <<x, y>> \in LinksOf(b)
  <2>1. CASE x = e[1]
    <3>1. e[2] \in B /\ <<x, e[2]>> \in LinksOf(b)
      BY <1>2, <1>4, <2>1
    <3> QED BY <3>1
  <2>2. CASE x = e[2]
    <3>1. e[1] \in B /\ <<x, e[1]>> \in LinksOf(b)
      BY <1>2, <1>4, <2>2
    <3> QED BY <3>1
  <2> QED BY <1>4, <2>1, <2>2
<1>5. ASSUME NEW y \in B, <<x, y>> \in LinksOf(b)
      PROVE  \E e \in ToSet(b.edges) : (e[1] \in B \/ e[2] \in B) /\ (x = e[1] \/ x = e[2])
  <2>1. PICK e \in ToSet(b.edges) : (e[1] = x /\ e[2] = y) \/ (e[1] = y /\ e[2] = x)
    BY <1>2, <1>5
  <2> QED BY <2>1
<1>6. x \in Wider(b, B) <=> x \in B \/ \E y \in B : <<x, y>> \in LinksOf(b)
  BY <1>3, <1>4, <1>5
<1> QED BY <1>1, <1>6 DEF B

(* Balls grow until they stop, within the number of nodes.                 *)
LEMMA WithinGrows ==
  ASSUME NEW b, IsBlueprint(b), NEW s \in NodesOf(b)
  PROVE  /\ \A r \in Nat : Within(b, s, r) \in SUBSET NodesOf(b)
         /\ \A r, q \in Nat : r <= q => Within(b, s, r) \in SUBSET Within(b, s, q)
         /\ \A r \in Nat : Within(b, s, r + 1) # Within(b, s, r) => r + 2 <= Size(b)
         /\ \A r, q \in Nat : Within(b, s, r + 1) = Within(b, s, r) /\ r <= q
                                => Within(b, s, q) = Within(b, s, r)
<1> DEFINE W(r) == Within(b, s, r)
           N == NodesOf(b)
<1>1. /\ W(0) = {s}
      /\ \A r \in Nat : \A x : x \in W(r + 1) <=>
           x \in W(r) \/ \E y \in W(r) : <<x, y>> \in LinksOf(b)
  BY WithinStart, WithinStep
<1>2. Size(b) \in Nat /\ N = 0 .. Size(b) - 1 /\ s \in N
  BY BlueprintFacts
<1>3. \A x, y : <<x, y>> \in LinksOf(b) => x \in N
  BY LinkFacts
<1>4. IsFiniteSet(N) /\ Cardinality(N) = Size(b)
  <2> DEFINE n == Size(b) - 1
  <2>1. 0 \in Int /\ n \in Int /\ ~(0 > n) /\ n - 0 + 1 = Size(b)
    BY <1>2
  <2> HIDE DEF n
  <2>2. IsFiniteSet(0 .. n) /\ Cardinality(0 .. n) = IF 0 > n THEN 0 ELSE n - 0 + 1
    BY <2>1, FS_Interval
  <2>3. N = 0 .. n
    BY <1>2 DEF n
  <2> QED BY <2>1, <2>2, <2>3
<1> HIDE DEF W, N
<1>5. \A r \in Nat : W(r) \in SUBSET N
  <2> DEFINE I == {r \in Nat : W(r) \in SUBSET N}
  <2>1. 0 \in I
    BY <1>1, <1>2
  <2>2. ASSUME NEW r \in Nat, r \in I PROVE r + 1 \in I
    <3>1. \A x \in W(r) : x \in N
      BY <2>2
    <3>2. ASSUME NEW x \in W(r + 1) PROVE x \in N
      <4>1. x \in W(r) \/ \E y \in W(r) : <<x, y>> \in LinksOf(b)
        BY <1>1, <3>2
      <4> QED BY <1>3, <3>1, <4>1
    <3> QED BY <3>2
  <2> HIDE DEF I
  <2>3. \A r \in Nat : r \in I
    BY <2>1, <2>2, Induction
  <2> QED BY <2>3 DEF I
<1>6. \A r, q \in Nat : r <= q => W(r) \in SUBSET W(q)
  <2> SUFFICES ASSUME NEW r \in Nat
               PROVE  \A q \in Nat : r <= q => W(r) \in SUBSET W(q)
    OBVIOUS
  <2> DEFINE I == {q \in Nat : r <= q => W(r) \in SUBSET W(q)}
  <2>1. 0 \in I
    OBVIOUS
  <2>2. ASSUME NEW q \in Nat, q \in I PROVE q + 1 \in I
    <3>1. CASE r <= q
      <4>1. W(r) \in SUBSET W(q) /\ W(q) \in SUBSET W(q + 1)
        BY <1>1, <2>2, <3>1
      <4> QED BY <4>1
    <3>2. CASE r = q + 1
      BY <3>2
    <3>3. r <= q + 1 => r <= q \/ r = q + 1
      OBVIOUS
    <3> QED BY <3>1, <3>2, <3>3
  <2> HIDE DEF I
  <2>3. \A q \in Nat : q \in I
    BY <2>1, <2>2, Induction
  <2> QED BY <2>3 DEF I
<1>7. ASSUME NEW r \in Nat, W(r + 1) = W(r)
      PROVE  \A q \in Nat : r <= q => W(q) = W(r)
  <2> DEFINE I == {q \in Nat : r <= q => W(q) = W(r)}
  <2>1. 0 \in I
    OBVIOUS
  <2>2. ASSUME NEW q \in Nat, q \in I PROVE q + 1 \in I
    <3>1. CASE r <= q
      <4>1. W(q) = W(r)
        BY <2>2, <3>1
      <4>2. \A x : x \in W(q + 1) <=> x \in W(r + 1)
        BY <1>1, <4>1
      <4> QED BY <1>7, <4>2
    <3>2. CASE r = q + 1
      BY <3>2
    <3>3. r <= q + 1 => r <= q \/ r = q + 1
      OBVIOUS
    <3> QED BY <3>1, <3>2, <3>3
  <2> HIDE DEF I
  <2>3. \A q \in Nat : q \in I
    BY <2>1, <2>2, Induction
  <2> QED BY <2>3 DEF I
<1>8. \A r \in Nat : W(r + 1) # W(r) => r + 2 <= Size(b)
  <2> DEFINE c(r) == Cardinality(W(r))
             I == {r \in Nat : W(r + 1) # W(r) => r + 2 <= c(r + 1)}
  <2>1. \A r \in Nat : IsFiniteSet(W(r)) /\ c(r) \in Nat /\ c(r) <= Size(b)
    BY <1>4, <1>5, FS_Subset, FS_CardinalityType
  <2>2. ASSUME NEW r \in Nat, W(r + 1) # W(r) PROVE c(r) + 1 <= c(r + 1)
    <3>1. r + 1 \in Nat /\ W(r) \in SUBSET W(r + 1)
      BY <1>6
    <3>2. c(r) <= c(r + 1) /\ c(r) # c(r + 1)
      BY <2>1, <2>2, <3>1, FS_Subset
    <3> QED BY <2>1, <3>1, <3>2
  <2>3. c(0) = 1
    BY <1>1, FS_Singleton
  <2> HIDE DEF c
  <2>4. 0 \in I
    <3>1. 0 + 1 = 1 /\ 1 \in Nat
      OBVIOUS
    <3>2. W(0 + 1) # W(0) => c(0) + 1 <= c(0 + 1)
      BY <2>2
    <3> QED BY <2>3, <3>2
  <2>5. ASSUME NEW r \in Nat, r \in I PROVE r + 1 \in I
    <3> DEFINE q == r + 1
    <3>1. q \in Nat /\ q + 1 \in Nat
      OBVIOUS
    <3>2. SUFFICES ASSUME W(q + 1) # W(q) PROVE q + 2 <= c(q + 1)
      BY <3>1
    <3>3. W(r + 1) # W(r)
      <4>1. W(r + 1) = W(r) => W(q) = W(r) /\ W(q + 1) = W(r)
        <5>1. r <= q /\ r <= q + 1
          OBVIOUS
        <5> QED BY <1>7, <3>1, <5>1
      <4> QED BY <3>2, <4>1
    <3>4. r + 2 <= c(q) /\ c(q) + 1 <= c(q + 1)
      BY <2>2, <2>5, <3>1, <3>2, <3>3
    <3>5. c(q) \in Nat /\ c(q + 1) \in Nat
      BY <2>1, <3>1
    <3> QED BY <3>4, <3>5
  <2>6. \A r \in Nat : r \in I
    <3> HIDE DEF I
    <3> QED BY <2>4, <2>5, Induction
  <2>7. ASSUME NEW r \in Nat, W(r + 1) # W(r) PROVE r + 2 <= Size(b)
    <3>1. r + 1 \in Nat /\ r + 2 <= c(r + 1)
      BY <2>6, <2>7
    <3>2. c(r + 1) \in Nat /\ c(r + 1) <= Size(b)
      BY <2>1, <3>1
    <3> QED BY <1>2, <3>1, <3>2
  <2> QED BY <2>7
<1> QED BY <1>5, <1>6, <1>7, <1>8 DEF W, N

-----------------------------------------------------------------------------
(* The runs of the nodes *)

(* The slots of node u, all of them claimed by the time the fabric is built. *)
IsSlot(b, m, u, p) == \E k \in 0 .. Degree(b, m, u) - 1 : p = EndsBelow(b, u) + k

LEMMA RunsApart ==
  ASSUME NEW b, IsBlueprint(b), NEW u \in NodesOf(b), NEW v \in NodesOf(b), u # v,
         NEW i \in Nat, i < Degree(b, Links(b), u), NEW j \in Nat, j < Degree(b, Links(b), v)
  PROVE  EndsBelow(b, u) + i # EndsBelow(b, v) + j
<1> DEFINE F(x) == EndsBelow(b, x)
           D(x) == Degree(b, Links(b), x)
<1>1. ASSUME NEW x \in NodesOf(b), NEW y \in NodesOf(b), x < y,
             NEW c \in Nat, c < D(x), NEW d \in Nat
      PROVE  F(x) + c # F(y) + d
  <2>1. x \in Nat /\ y \in Nat /\ x + 1 \in Nat /\ x + 1 <= y
    BY <1>1, BlueprintFacts
  <2>2. F(x) \in Nat /\ F(y) \in Nat /\ F(x + 1) <= F(y)
    BY <2>1, EndsFacts
  <2>3. F(x + 1) = F(x) + D(x)
    BY EndsFacts
  <2>4. D(x) \in Nat
    <3>1. Links(b) \in 0 .. Links(b)
      BY BlueprintFacts
    <3> QED BY <3>1, EndsFacts
  <2> DEFINE p == F(x)
             q == F(y)
             r == D(x)
  <2>5. p \in Nat /\ q \in Nat /\ r \in Nat /\ p + r <= q /\ c < r
    BY <1>1, <2>2, <2>3, <2>4
  <2> HIDE DEF p, q, r
  <2>6. p + c # q + d
    BY <2>5
  <2> QED BY <2>6 DEF p, q
<1>2. u \in Nat /\ v \in Nat
  BY BlueprintFacts
<1>3. CASE u < v
  BY <1>1, <1>3
<1>4. CASE v < u
  <2>1. F(v) + j # F(u) + i
    BY <1>1, <1>4
  <2> QED BY <2>1
<1> QED BY <1>2, <1>3, <1>4

(* Every port number below twice the number of links is in some run.       *)
LEMMA RunsCover ==
  ASSUME NEW b, IsBlueprint(b), NEW p \in 0 .. 2 * Links(b) - 1
  PROVE  \E u \in NodesOf(b) : IsSlot(b, Links(b), u, p)
<1> DEFINE F(x) == EndsBelow(b, x)
           S == {v \in 0 .. Size(b) : p < F(v)}
<1>1. Size(b) \in Nat /\ Links(b) \in Nat /\ NodesOf(b) = 0 .. Size(b) - 1 /\ p \in Nat
  BY BlueprintFacts
<1>2. F(0) = 0 /\ F(Size(b)) = 2 * Links(b) /\ \A x : F(x) \in Nat
  BY EndsFacts
<1>3. Size(b) \in S
  BY <1>1, <1>2
<1>4. S \subseteq Nat /\ S # {}
  BY <1>1, <1>3
<1>5. PICK v \in S : \A w \in S : v <= w
  <2> HIDE DEF S
  <2> QED BY <1>4, LeastNat
<1>6. v # 0
  BY <1>1, <1>2, <1>5
<1>7. v - 1 \in NodesOf(b) /\ v - 1 \in 0 .. Size(b) /\ v - 1 + 1 = v /\ v - 1 \notin S
  BY <1>1, <1>5, <1>6
<1> DEFINE u == v - 1
           d == Degree(b, Links(b), u)
           f == F(u)
<1>8. f <= p /\ f \in Nat
  BY <1>1, <1>2, <1>7
<1>9. F(v) = f + d
  BY <1>7, EndsFacts
<1>10. d \in Nat
  <2>1. Links(b) \in 0 .. Links(b)
    BY <1>1
  <2> QED BY <2>1, EndsFacts
<1>11. p < f + d
  BY <1>5, <1>9
<1> HIDE DEF f, d
<1>12. p - f \in 0 .. d - 1 /\ p = f + (p - f)
  BY <1>1, <1>8, <1>10, <1>11
<1> QED BY <1>7, <1>12 DEF IsSlot, f, d

-----------------------------------------------------------------------------
(* The invariant *)

(* The run of a node has a claimed port for each of its links so far, in   *)
(* the order of the links, and every claimed port is in its owner's run.   *)
Layout ==
  /\ plan \in Blueprints /\ made \in 0 .. Links(plan)
  /\ first_port = [u \in Nodes |-> EndsBelow(plan, u)]
  /\ port_count = [u \in Nodes |-> Degree(plan, made, u)]

InOrderAt(u) ==
  /\ FarAt(plan, u, made) \in Seq(Nodes)
  /\ Len(FarAt(plan, u, made)) = port_count[u]
  /\ \A k \in 0 .. port_count[u] - 1 :
       /\ first_port[u] + k \in DOMAIN ports
       /\ ports[first_port[u] + k].owner = u
       /\ ports[first_port[u] + k].peer_node = FarAt(plan, u, made)[k + 1]

InOrderOfLinks == \A u \in Nodes : InOrderAt(u)

InOwnersRun ==
  \A p \in DOMAIN ports :
    /\ ports[p].owner \in Nodes
    /\ \E k \in 0 .. port_count[ports[p].owner] - 1 : p = first_port[ports[p].owner] + k

Paired ==
  \A p \in DOMAIN ports :
    /\ ports[p].peer_port \in DOMAIN ports
    /\ ports[ports[p].peer_port] = [owner |-> peer(p), peer_node |-> ports[p].owner,
                                    peer_port |-> p]

FabricInv == Layout /\ InOrderOfLinks /\ InOwnersRun /\ Paired

LEMMA LayoutFacts ==
  ASSUME Layout
  PROVE  /\ IsBlueprint(plan) /\ Nodes = NodesOf(plan) /\ Links(plan) \in Nat /\ made \in Nat
         /\ \A u \in Nodes : /\ u \in Nat /\ first_port[u] = EndsBelow(plan, u)
                             /\ first_port[u] \in Nat
                             /\ port_count[u] = Degree(plan, made, u)
                             /\ port_count[u] \in Nat
                             /\ port_count[u] <= Degree(plan, Links(plan), u)
<1>1. IsBlueprint(plan)
  BY BlueprintsAssumption DEF Layout
<1>2. Nodes = NodesOf(plan) /\ Links(plan) \in Nat /\ made \in Nat
      /\ \A u \in Nodes : u \in Nat
  BY <1>1, BlueprintFacts DEF Nodes, Layout
<1>3. \A u \in Nodes : /\ first_port[u] = EndsBelow(plan, u)
                       /\ port_count[u] = Degree(plan, made, u)
  BY DEF Layout
<1>4. \A u : /\ EndsBelow(plan, u) \in Nat /\ Degree(plan, made, u) \in Nat
             /\ Degree(plan, made, u) <= Degree(plan, Links(plan), u)
  BY <1>1, EndsFacts DEF Layout
<1> QED BY <1>1, <1>2, <1>3, <1>4

LEMMA InitFabric == Init => FabricInv
<1> SUFFICES ASSUME Init PROVE FabricInv
  OBVIOUS
<1>1. /\ plan \in Blueprints /\ made = 0 /\ ports = <<>>
      /\ first_port = [u \in Nodes |-> EndsBelow(plan, u)]
      /\ port_count = [u \in Nodes |-> 0]
  BY DEF Init, TableInit, FabricInit
<1>2. IsBlueprint(plan) /\ Links(plan) \in Nat
  BY <1>1, BlueprintsAssumption, BlueprintFacts
<1>3. DOMAIN ports = {}
  BY <1>1
<1>4. \A u : Degree(plan, 0, u) = 0
  <2>1. \A u : EndsAt(plan, 0, u) = {}
    <3>1. 1 .. 0 = {}
      OBVIOUS
    <3> QED BY <3>1 DEF EndsAt
  <2> QED BY <2>1, FS_EmptySet DEF Degree
<1>5. Layout
  BY <1>1, <1>2, <1>4 DEF Layout
<1>6. InOrderOfLinks
  <2>1. \A u : FarAt(plan, u, made) = <<>>
    BY <1>1, <1>2, FarFacts
  <2>2. \A u \in Nodes : port_count[u] = 0
    BY <1>1
  <2>3. 0 .. 0 - 1 = {} /\ Len(<<>>) = 0 /\ <<>> \in Seq(Nodes)
    OBVIOUS
  <2> QED BY <2>1, <2>2, <2>3 DEF InOrderOfLinks, InOrderAt
<1> QED BY <1>3, <1>5, <1>6 DEF FabricInv, InOwnersRun, Paired

-----------------------------------------------------------------------------
(* One link *)

LEMMA NewSlots ==
  ASSUME FabricInv, made < Links(plan),
         NEW a, a = plan.edges[made + 1][1], NEW b, b = plan.edges[made + 1][2]
  PROVE  /\ a \in Nodes /\ b \in Nodes /\ a # b
         /\ claim_slot(a) \notin DOMAIN ports /\ claim_slot(b) \notin DOMAIN ports
         /\ claim_slot(a) # claim_slot(b)
         /\ claim_slot(a) = first_port[a] + port_count[a]
         /\ claim_slot(b) = first_port[b] + port_count[b]
         /\ \A u \in Nodes : Degree(plan, made + 1, u) =
              IF u \in {a, b} THEN port_count[u] + 1 ELSE port_count[u]
<1>1. /\ IsBlueprint(plan) /\ Nodes = NodesOf(plan) /\ Links(plan) \in Nat /\ made \in Nat
      /\ made + 1 \in 1 .. Links(plan) /\ made \in 0 .. Links(plan)
      /\ made + 1 \in 0 .. Links(plan)
  <2>1. Layout
    BY DEF FabricInv
  <2> QED BY <2>1, LayoutFacts
<1>2. a \in Nodes /\ b \in Nodes /\ a # b
  BY <1>1, BlueprintFacts
<1>3. \A u \in Nodes : Degree(plan, made + 1, u) =
         IF u \in {a, b} THEN port_count[u] + 1 ELSE port_count[u]
  <2>1. \A u : Degree(plan, made + 1, u) =
           IF u \in {a, b} THEN Degree(plan, made, u) + 1 ELSE Degree(plan, made, u)
    BY <1>1, OneMoreLink
  <2>2. \A u \in Nodes : port_count[u] = Degree(plan, made, u)
    BY LayoutFacts DEF FabricInv
  <2> QED BY <2>1, <2>2
<1>4. \A u \in Nodes : /\ first_port[u] = EndsBelow(plan, u)
                       /\ port_count[u] \in Nat
                       /\ port_count[u] <= Degree(plan, Links(plan), u)
                       /\ u \in {a, b} => port_count[u] < Degree(plan, Links(plan), u)
  <2>1. Layout
    BY DEF FabricInv
  <2>2. \A u \in Nodes : Degree(plan, made + 1, u) <= Degree(plan, Links(plan), u)
                         /\ Degree(plan, Links(plan), u) \in Nat
    <3>1. Links(plan) \in 0 .. Links(plan)
      BY <1>1
    <3> QED BY <1>1, <3>1, EndsFacts
  <2>3. \A u \in Nodes : /\ first_port[u] = EndsBelow(plan, u)
                         /\ port_count[u] \in Nat
                         /\ port_count[u] <= Degree(plan, Links(plan), u)
    BY <2>1, LayoutFacts
  <2>4. ASSUME NEW u \in Nodes, u \in {a, b}
        PROVE  port_count[u] < Degree(plan, Links(plan), u)
    <3>1. port_count[u] + 1 <= Degree(plan, Links(plan), u)
      BY <1>3, <2>2, <2>4
    <3> QED BY <2>2, <2>3, <3>1
  <2> QED BY <2>3, <2>4
<1>5. ASSUME NEW u \in {a, b}, claim_slot(u) \in DOMAIN ports
      PROVE  FALSE
  <2> DEFINE v == ports[claim_slot(u)].owner
  <2>1. PICK k \in 0 .. port_count[v] - 1 : claim_slot(u) = first_port[v] + k
    BY <1>5 DEF FabricInv, InOwnersRun
  <2>2. v \in Nodes /\ u \in Nodes
    BY <1>2, <1>5 DEF FabricInv, InOwnersRun
  <2>3. claim_slot(u) = first_port[u] + port_count[u]
    BY DEF claim_slot
  <2> HIDE DEF v
  <2>4. k \in Nat /\ k < port_count[v] /\ k < Degree(plan, Links(plan), v)
    <3>1. Degree(plan, Links(plan), v) \in Nat
      <4>1. Links(plan) \in 0 .. Links(plan)
        BY <1>1
      <4> QED BY <1>1, <4>1, EndsFacts
    <3> QED BY <1>4, <2>1, <2>2, <3>1
  <2>5. CASE u = v
    <3>1. first_port[u] \in Nat
      BY <2>2, LayoutFacts DEF FabricInv
    <3> QED BY <1>4, <2>1, <2>2, <2>3, <2>4, <2>5, <3>1
  <2>6. CASE u # v
    <3>1. EndsBelow(plan, u) + port_count[u] # EndsBelow(plan, v) + k
      BY <1>1, <1>4, <2>2, <2>4, <2>6, RunsApart
    <3> QED BY <1>4, <2>1, <2>2, <2>3, <3>1
  <2> QED BY <2>5, <2>6
<1>6. claim_slot(a) # claim_slot(b)
  <2>1. EndsBelow(plan, a) + port_count[a] # EndsBelow(plan, b) + port_count[b]
    BY <1>1, <1>2, <1>4, RunsApart
  <2> QED BY <1>2, <1>4, <2>1 DEF claim_slot
<1>7. /\ claim_slot(a) = first_port[a] + port_count[a]
      /\ claim_slot(b) = first_port[b] + port_count[b]
  BY DEF claim_slot
<1> QED BY <1>2, <1>3, <1>5, <1>6, <1>7

LEMMA StepMaterialise == FabricInv /\ Materialise => FabricInv'
<1> SUFFICES ASSUME FabricInv, Materialise PROVE FabricInv'
  OBVIOUS
<1> DEFINE a  == plan.edges[made + 1][1]
           b  == plan.edges[made + 1][2]
           sa == claim_slot(a)
           sb == claim_slot(b)
           pa == [owner |-> a, peer_node |-> b, peer_port |-> sb]
           pb == [owner |-> b, peer_node |-> a, peer_port |-> sa]
<1>1. /\ made < Links(plan) /\ made' = made + 1 /\ plan' = plan /\ first_port' = first_port
      /\ ports' = [p \in DOMAIN ports \cup {sa, sb} |->
                    IF p = sb THEN pb ELSE IF p = sa THEN pa ELSE ports[p]]
      /\ port_count' = [port_count EXCEPT ![a] = @ + 1, ![b] = @ + 1]
  BY DEF Materialise, Links
<1>2. /\ a \in Nodes /\ b \in Nodes /\ a # b
      /\ sa \notin DOMAIN ports /\ sb \notin DOMAIN ports /\ sa # sb
      /\ sa = first_port[a] + port_count[a] /\ sb = first_port[b] + port_count[b]
      /\ \A u \in Nodes : Degree(plan, made + 1, u) =
           IF u \in {a, b} THEN port_count[u] + 1 ELSE port_count[u]
  BY <1>1, NewSlots
<1>3. /\ Layout /\ IsBlueprint(plan) /\ Links(plan) \in Nat /\ made \in Nat
      /\ \A u \in Nodes : port_count[u] \in Nat /\ first_port[u] \in Nat
  <2>1. Layout
    BY DEF FabricInv
  <2> QED BY <2>1, LayoutFacts
<1>4. Nodes' = Nodes /\ Links(plan') = Links(plan)
  BY <1>1 DEF Nodes
<1>5. DOMAIN port_count = Nodes
  BY <1>3 DEF Layout
<1>6. port_count' = [u \in Nodes |-> Degree(plan, made + 1, u)]
  <2>1. port_count' = [u \in Nodes |->
          IF u = b THEN port_count[u] + 1 ELSE IF u = a THEN port_count[u] + 1 ELSE port_count[u]]
    BY <1>1, <1>2, <1>5
  <2> HIDE DEF a, b
  <2> QED BY <1>2, <2>1
<1>7. Layout'
  <2>1. made + 1 \in 0 .. Links(plan)
    BY <1>1, <1>3
  <2> QED BY <1>1, <1>3, <1>4, <1>6, <2>1 DEF Layout
<1> DEFINE e == made + 1
<1>8. e \in 1 .. Links(plan) /\ e - 1 = made
  BY <1>1, <1>3
<1>9. \A u : FarAt(plan, u, e) = OneMoreFar(plan, u, e, FarAt(plan, u, made))
  BY <1>3, <1>8, FarFacts
<1>10. \A u : OneMoreFar(plan, u, e, FarAt(plan, u, made)) =
         IF u = a THEN Append(FarAt(plan, u, made), b)
         ELSE IF u = b THEN Append(FarAt(plan, u, made), a)
         ELSE FarAt(plan, u, made)
  BY DEF OneMoreFar
<1>11. /\ DOMAIN ports' = DOMAIN ports \cup {sa, sb}
       /\ ports'[sa] = pa /\ ports'[sb] = pb
       /\ \A p \in DOMAIN ports : ports'[p] = ports[p]
  <2> HIDE DEF sa, sb, pa, pb
  <2> QED BY <1>1, <1>2
<1>12. /\ pa.owner = a /\ pa.peer_node = b /\ pa.peer_port = sb
       /\ pb.owner = b /\ pb.peer_node = a /\ pb.peer_port = sa
  OBVIOUS
<1>13. \A u \in Nodes : port_count'[u] = IF u \in {a, b} THEN port_count[u] + 1 ELSE port_count[u]
  BY <1>2, <1>6
<1> HIDE DEF a, b, sa, sb, pa, pb, e
<1>14. InOrderOfLinks'
  <2> SUFFICES ASSUME NEW u \in Nodes
               PROVE  InOrderAt(u)'
    BY <1>4 DEF InOrderOfLinks
  <2> DEFINE s == FarAt(plan, u, made)
             c == port_count[u]
             f == first_port[u]
  <2>1. /\ s \in Seq(Nodes) /\ Len(s) = c
        /\ \A k \in 0 .. c - 1 : /\ f + k \in DOMAIN ports
                                 /\ ports[f + k].owner = u
                                 /\ ports[f + k].peer_node = s[k + 1]
    BY DEF FabricInv, InOrderOfLinks, InOrderAt
  <2>2. c \in Nat /\ f \in Nat
    BY <1>3
  <2>3. ASSUME NEW x \in Nodes, NEW q, ports'[f + c] = q, f + c \in DOMAIN ports',
               q.owner = u, q.peer_node = x, port_count'[u] = c + 1,
               FarAt(plan, u, e) = Append(s, x)
        PROVE  InOrderAt(u)'
    <3>0. /\ FarAt(plan', u, made') = FarAt(plan, u, e) /\ Nodes' = Nodes
          /\ first_port'[u] = f
      BY <1>1, <1>4 DEF e
    <3> HIDE DEF s, c, f
    <3>1. /\ Append(s, x) \in Seq(Nodes) /\ Len(Append(s, x)) = c + 1
          /\ \A k \in 0 .. c - 1 : Append(s, x)[k + 1] = s[k + 1]
          /\ Append(s, x)[c + 1] = x
      BY <2>1, <2>2, AppendProperties
    <3>2. \A k \in 0 .. c + 1 - 1 : k \in 0 .. c - 1 \/ k = c
      BY <2>2
    <3>3. ASSUME NEW k \in 0 .. c + 1 - 1
          PROVE  /\ f + k \in DOMAIN ports'
                 /\ ports'[f + k].owner = u
                 /\ ports'[f + k].peer_node = Append(s, x)[k + 1]
      <4>1. CASE k \in 0 .. c - 1
        BY <1>11, <2>1, <3>1, <4>1
      <4>2. CASE k = c
        BY <2>3, <3>1, <4>2
      <4> QED BY <3>2, <4>1, <4>2
    <3>4. ASSUME NEW k \in 0 .. port_count'[u] - 1
          PROVE  /\ first_port'[u] + k \in DOMAIN ports'
                 /\ ports'[first_port'[u] + k].owner = u
                 /\ ports'[first_port'[u] + k].peer_node = FarAt(plan', u, made')[k + 1]
      <4>1. port_count'[u] = c + 1 /\ FarAt(plan', u, made') = Append(s, x)
        BY <2>3, <3>0
      <4>2. k \in 0 .. c + 1 - 1
        BY <2>2, <4>1
      <4>3. /\ f + k \in DOMAIN ports' /\ ports'[f + k].owner = u
            /\ ports'[f + k].peer_node = Append(s, x)[k + 1]
        BY <3>3, <4>2
      <4> QED BY <3>0, <4>1, <4>3
    <3>5. FarAt(plan', u, made') \in Seq(Nodes') /\ Len(FarAt(plan', u, made')) = port_count'[u]
      BY <2>3, <3>0, <3>1
    <3> QED BY <3>4, <3>5 DEF InOrderAt
  <2>4. CASE u = a
    <3>1. FarAt(plan, u, e) = Append(s, b) /\ port_count'[u] = c + 1
      BY <1>9, <1>10, <1>13, <2>4
    <3>2. f + c = sa /\ sa \in DOMAIN ports' /\ ports'[sa] = pa
      BY <1>2, <1>11, <2>4
    <3> QED BY <1>2, <1>12, <2>3, <2>4, <3>1, <3>2
  <2>5. CASE u = b
    <3>1. FarAt(plan, u, e) = Append(s, a) /\ port_count'[u] = c + 1
      BY <1>2, <1>9, <1>10, <1>13, <2>5
    <3>2. f + c = sb /\ sb \in DOMAIN ports' /\ ports'[sb] = pb
      BY <1>2, <1>11, <2>5
    <3> QED BY <1>2, <1>12, <2>3, <2>5, <3>1, <3>2
  <2>6. CASE u \notin {a, b}
    <3>1. FarAt(plan, u, e) = s /\ port_count'[u] = c
      BY <1>9, <1>10, <1>13, <2>6
    <3>2. /\ FarAt(plan', u, made') = s /\ Nodes' = Nodes
          /\ first_port'[u] = f /\ port_count'[u] = c
      BY <1>1, <1>4, <3>1 DEF e
    <3> HIDE DEF s, c, f
    <3>3. ASSUME NEW k \in 0 .. port_count'[u] - 1
          PROVE  /\ first_port'[u] + k \in DOMAIN ports'
                 /\ ports'[first_port'[u] + k].owner = u
                 /\ ports'[first_port'[u] + k].peer_node = FarAt(plan', u, made')[k + 1]
      BY <1>11, <2>1, <3>2
    <3>4. FarAt(plan', u, made') \in Seq(Nodes') /\ Len(FarAt(plan', u, made')) = port_count'[u]
      BY <2>1, <3>2
    <3> QED BY <3>3, <3>4 DEF InOrderAt
  <2> QED BY <2>4, <2>5, <2>6
<1>15. InOwnersRun'
  <2> SUFFICES ASSUME NEW p \in DOMAIN ports'
               PROVE  /\ ports'[p].owner \in Nodes
                      /\ \E k \in 0 .. port_count'[ports'[p].owner] - 1 :
                           p = first_port[ports'[p].owner] + k
    BY <1>1, <1>4 DEF InOwnersRun
  <2>1. CASE p \in DOMAIN ports
    <3> DEFINE v == ports[p].owner
    <3>1. v \in Nodes /\ ports'[p].owner = v
      BY <1>11, <2>1 DEF FabricInv, InOwnersRun
    <3>2. PICK k \in 0 .. port_count[v] - 1 : p = first_port[v] + k
      BY <2>1 DEF FabricInv, InOwnersRun
    <3> HIDE DEF v
    <3>3. k \in 0 .. port_count'[v] - 1
      BY <1>3, <1>13, <3>1, <3>2
    <3> QED BY <3>1, <3>2, <3>3
  <2>2. ASSUME NEW v \in {a, b}, p = first_port[v] + port_count[v], ports'[p].owner = v
        PROVE  /\ ports'[p].owner \in Nodes
               /\ \E k \in 0 .. port_count'[ports'[p].owner] - 1 :
                    p = first_port[ports'[p].owner] + k
    <3>1. port_count[v] \in 0 .. port_count'[v] - 1 /\ v \in Nodes
      BY <1>2, <1>3, <1>13
    <3> QED BY <2>2, <3>1
  <2>3. p \in DOMAIN ports \/ p = sa \/ p = sb
    BY <1>11
  <2> QED BY <1>2, <1>11, <1>12, <2>1, <2>2, <2>3
<1>16. Paired'
  <2> SUFFICES ASSUME NEW p \in DOMAIN ports'
               PROVE  /\ ports'[p].peer_port \in DOMAIN ports'
                      /\ ports'[ports'[p].peer_port] =
                           [owner |-> ports'[p].peer_node, peer_node |-> ports'[p].owner,
                            peer_port |-> p]
    BY DEF Paired, peer
  <2>1. CASE p \in DOMAIN ports
    <3>1. /\ ports[p].peer_port \in DOMAIN ports
          /\ ports[ports[p].peer_port] = [owner |-> ports[p].peer_node,
                                          peer_node |-> ports[p].owner, peer_port |-> p]
      BY <2>1 DEF FabricInv, Paired, peer
    <3> QED BY <1>11, <2>1, <3>1
  <2>2. CASE p = sa
    BY <1>11, <1>12, <2>2 DEF pb
  <2>3. CASE p = sb
    BY <1>11, <1>12, <2>3 DEF pa
  <2> QED BY <1>11, <2>1, <2>2, <2>3
<1> QED BY <1>7, <1>14, <1>15, <1>16 DEF FabricInv

LEMMA StepFabric == FabricInv /\ [Next]_vars => FabricInv'
<1> SUFFICES ASSUME FabricInv, [Next]_vars PROVE FabricInv'
  OBVIOUS
<1>1. CASE UNCHANGED fabric
  <2>1. /\ plan' = plan /\ made' = made /\ first_port' = first_port
        /\ port_count' = port_count /\ ports' = ports
    BY <1>1 DEF fabric
  <2>2. Nodes' = Nodes /\ (\A p : peer(p)' = peer(p))
    BY <2>1 DEF Nodes, peer
  <2>3. Layout'
    BY <2>1, <2>2 DEF FabricInv, Layout
  <2>4. InOrderOfLinks'
    BY <2>1, <2>2 DEF FabricInv, InOrderOfLinks, InOrderAt
  <2>5. InOwnersRun'
    BY <2>1, <2>2 DEF FabricInv, InOwnersRun
  <2>6. Paired'
    BY <2>1, <2>2 DEF FabricInv, Paired, peer
  <2> QED BY <2>3, <2>4, <2>5, <2>6 DEF FabricInv
<1>2. CASE Build
  BY <1>2, StepMaterialise DEF Build
<1>3. UNCHANGED tableVars => UNCHANGED fabric
  BY DEF tableVars
<1>4. TableNext => Build \/ UNCHANGED fabric
  BY DEF TableNext, Search, Look, NextNode, Level, Collect, Pack
<1>5. UNCHANGED vars => UNCHANGED tableVars
  BY DEF vars
<1>6. \A s, d : Send(s, d) => UNCHANGED tableVars
  BY DEF Send
<1>7. Forward => UNCHANGED tableVars
  BY DEF Forward
<1>8. Arrive => UNCHANGED tableVars
  BY DEF Arrive
<1> QED BY <1>1, <1>2, <1>3, <1>4, <1>5, <1>6, <1>7, <1>8 DEF Next

-----------------------------------------------------------------------------
(* What the invariant says of the fabric *)

LEMMA OwnRun ==
  ASSUME FabricInv, NEW u \in Nodes
  PROVE  {p \in DOMAIN ports : ports[p].owner = u} = {ports_of(u)[i] : i \in DOMAIN ports_of(u)}
<1> DEFINE c == port_count[u]
           f == first_port[u]
           R == ports_of(u)
<1>1. c \in Nat /\ f \in Nat
  BY LayoutFacts DEF FabricInv
<1>2. DOMAIN R = 1 .. c /\ \A i \in 1 .. c : R[i] = f + i - 1
  BY DEF ports_of
<1>3. \A k \in 0 .. c - 1 : f + k \in DOMAIN ports /\ ports[f + k].owner = u
  BY DEF FabricInv, InOrderOfLinks, InOrderAt
<1>4. \A p \in DOMAIN ports : ports[p].owner = u => \E k \in 0 .. c - 1 : p = f + k
  BY DEF FabricInv, InOwnersRun
<1> HIDE DEF c, f, R
<1>5. ASSUME NEW p \in DOMAIN ports, ports[p].owner = u
      PROVE  \E i \in DOMAIN R : p = R[i]
  <2>1. PICK k \in 0 .. c - 1 : p = f + k
    BY <1>4, <1>5
  <2>2. k + 1 \in 1 .. c /\ f + (k + 1) - 1 = f + k
    BY <1>1
  <2> QED BY <1>2, <2>1, <2>2
<1>6. ASSUME NEW i \in DOMAIN R
      PROVE  R[i] \in DOMAIN ports /\ ports[R[i]].owner = u
  <2>1. i - 1 \in 0 .. c - 1 /\ f + i - 1 = f + (i - 1)
    BY <1>1, <1>2
  <2> QED BY <1>2, <1>3, <2>1
<1>7. {p \in DOMAIN ports : ports[p].owner = u} = {R[i] : i \in DOMAIN R}
  BY <1>5, <1>6
<1> QED BY <1>7 DEF R

LEMMA AllClaimed ==
  ASSUME FabricInv, Built
  PROVE  DOMAIN ports = 0 .. 2 * Links(plan) - 1
<1>1. /\ IsBlueprint(plan) /\ Nodes = NodesOf(plan) /\ Links(plan) \in Nat
      /\ \A u \in Nodes : /\ first_port[u] = EndsBelow(plan, u) /\ first_port[u] \in Nat
                          /\ port_count[u] = Degree(plan, Links(plan), u)
                          /\ port_count[u] \in Nat
  BY LayoutFacts DEF FabricInv, Built, Links
<1>2. ASSUME NEW p \in DOMAIN ports
      PROVE  p \in 0 .. 2 * Links(plan) - 1
  <2>1. PICK u \in Nodes : \E k \in 0 .. port_count[u] - 1 : p = first_port[u] + k
    BY DEF FabricInv, InOwnersRun
  <2>2. EndsBelow(plan, u + 1) = EndsBelow(plan, u) + Degree(plan, Links(plan), u)
    BY <1>1, EndsFacts
  <2>3. EndsBelow(plan, u + 1) <= EndsBelow(plan, Size(plan))
    <3>1. u + 1 \in Nat /\ Size(plan) \in Nat /\ u + 1 <= Size(plan)
      BY <1>1, BlueprintFacts
    <3> QED BY <1>1, <3>1, EndsFacts
  <2>4. EndsBelow(plan, Size(plan)) = 2 * Links(plan)
    BY <1>1, EndsFacts
  <2> DEFINE x == first_port[u]
             c == port_count[u]
             n == 2 * Links(plan)
  <2>5. PICK k \in 0 .. c - 1 : p = x + k
    BY <2>1
  <2>6. x \in Nat /\ c \in Nat /\ n \in Nat /\ x + c <= n
    BY <1>1, <2>2, <2>3, <2>4
  <2> HIDE DEF x, c, n
  <2>7. p \in 0 .. n - 1
    BY <2>5, <2>6
  <2> QED BY <2>7 DEF n
<1>3. ASSUME NEW p \in 0 .. 2 * Links(plan) - 1
      PROVE  p \in DOMAIN ports
  <2>1. PICK u \in NodesOf(plan) : IsSlot(plan, Links(plan), u, p)
    BY <1>1, RunsCover
  <2>2. PICK k \in 0 .. port_count[u] - 1 : p = first_port[u] + k
    BY <1>1, <2>1 DEF IsSlot
  <2> QED BY <1>1, <2>2 DEF FabricInv, InOrderOfLinks, InOrderAt
<1> QED BY <1>2, <1>3

LEMMA PeersInOrder ==
  ASSUME FabricInv, Built, NEW u \in Nodes
  PROVE  PeersOf(ports_of(u)) = Far(plan, u)
<1> DEFINE c == port_count[u]
           f == first_port[u]
           s == FarAt(plan, u, made)
           R == ports_of(u)
<1>1. c \in Nat /\ f \in Nat
  BY LayoutFacts DEF FabricInv
<1>2. /\ s \in Seq(Nodes) /\ Len(s) = c
      /\ \A k \in 0 .. c - 1 : ports[f + k].peer_node = s[k + 1]
  BY DEF FabricInv, InOrderOfLinks, InOrderAt
<1>3. Far(plan, u) = s
  BY LayoutFacts, FarFacts DEF FabricInv, Built, Links
<1>4. DOMAIN R = 1 .. c /\ \A i \in 1 .. c : R[i] = f + i - 1
  BY DEF ports_of
<1>5. PeersOf(R) = [i \in DOMAIN R |-> ports[R[i]].peer_node]
  BY DEF PeersOf, peer
<1> HIDE DEF c, f, s, R
<1>6. \A i \in 1 .. c : ports[R[i]].peer_node = s[i]
  <2> TAKE i \in 1 .. c
  <2>1. i - 1 \in 0 .. c - 1 /\ f + i - 1 = f + (i - 1) /\ i - 1 + 1 = i
    BY <1>1
  <2> QED BY <1>2, <1>4, <2>1
<1>7. s = [i \in 1 .. c |-> s[i]]
  BY <1>2
<1>8. PeersOf(R) = s
  BY <1>4, <1>5, <1>6, <1>7
<1> QED BY <1>3, <1>8 DEF R

(* The two directions of every link name each other, the ports of a node are *)
(* exactly its run, in the order of its links, and a finished fabric has    *)
(* used every slot: for any record of nodes and links build() accepts, in   *)
(* any order of the links, parallel links included.                         *)
THEOREM EveryPortPaired == Spec => []PortsPaired
<1>1. FabricInv => PortsPaired
  <2> SUFFICES ASSUME FabricInv PROVE PortsPaired
    OBVIOUS
  <2>1. ASSUME NEW p \in DOMAIN ports
        PROVE  /\ ports[p].peer_port \in DOMAIN ports
               /\ ports[ports[p].peer_port] = [owner |-> peer(p), peer_node |-> ports[p].owner,
                                               peer_port |-> p]
    BY DEF FabricInv, Paired
  <2>2. ASSUME Built
        PROVE  /\ DOMAIN ports = 0 .. 2 * Len(plan.edges) - 1
               /\ \A u \in Nodes : PeersOf(ports_of(u)) = Far(plan, u)
    BY <2>2, AllClaimed, PeersInOrder DEF Links
  <2> QED BY <2>1, <2>2, OwnRun DEF PortsPaired
<1>2. FabricInv /\ [Next]_vars => FabricInv'
  BY StepFabric
<1> QED BY InitFabric, <1>1, <1>2, PTL DEF Spec

-----------------------------------------------------------------------------
(* The search.  The ports of a finished fabric are its links.              *)

Joined(u, v) == <<u, v>> \in LinksOf(plan)

LEMMA PortsReach ==
  ASSUME FabricInv, Built, NEW u \in Nodes
  PROVE  /\ DOMAIN ports_of(u) = 1 .. port_count[u] /\ port_count[u] \in Nat
         /\ ports_of(u) \in Seq(Nat)
         /\ \A i \in 1 .. port_count[u] : /\ peer(ports_of(u)[i]) \in Nodes
                                          /\ Joined(u, peer(ports_of(u)[i]))
         /\ \A v : Joined(u, v) => \E i \in 1 .. port_count[u] : peer(ports_of(u)[i]) = v
<1> DEFINE c == port_count[u]
           R == ports_of(u)
           f == first_port[u]
<1>1. IsBlueprint(plan) /\ Nodes = NodesOf(plan) /\ c \in Nat /\ f \in Nat
  BY LayoutFacts DEF FabricInv
<1>2. DOMAIN R = 1 .. c /\ R \in Seq(Nat)
  <2>1. R = [i \in 1 .. c |-> f + i - 1]
    BY DEF ports_of
  <2>2. \A i \in 1 .. c : f + i - 1 \in Nat
    BY <1>1
  <2> HIDE DEF R, c, f
  <2> QED BY <1>1, <2>1, <2>2
<1>3. PeersOf(R) = Far(plan, u)
  BY PeersInOrder
<1>4. PeersOf(R) = [i \in DOMAIN R |-> peer(R[i])]
  BY DEF PeersOf
<1> DEFINE far == Far(plan, u)
<1>5. /\ far \in Seq(Nodes)
      /\ \A v : (\E i \in 1 .. Len(far) : far[i] = v) <=> Joined(u, v)
  BY <1>1, FarSet DEF Joined
<1> HIDE DEF c, R, far
<1>6. DOMAIN far = 1 .. c /\ \A i \in 1 .. c : far[i] = peer(R[i])
  BY <1>2, <1>3, <1>4 DEF far
<1>7. Len(far) = c
  BY <1>1, <1>5, <1>6
<1>8. \A i \in 1 .. c : peer(R[i]) \in Nodes /\ Joined(u, peer(R[i]))
  BY <1>5, <1>6, <1>7
<1>9. \A v : Joined(u, v) => \E i \in 1 .. c : peer(R[i]) = v
  BY <1>5, <1>6, <1>7
<1> QED BY <1>1, <1>2, <1>8, <1>9 DEF c, R

LEMMA HostAt ==
  ASSUME Layout
  PROVE  /\ host_count \in Nat
         /\ \A k \in 0 .. host_count - 1 : host_at(k) \in Nodes /\ is_host(host_at(k))
         /\ \A k, j \in 0 .. host_count - 1 : host_at(k) = host_at(j) => k = j
<1>1. IsBlueprint(plan) /\ Nodes = NodesOf(plan)
  BY LayoutFacts
<1> DEFINE H == HostsOf(plan)
<1>2. /\ Len(H) \in Nat /\ \A i, j \in 1 .. Len(H) : H[i] = H[j] => i = j
      /\ \A i \in 1 .. Len(H) : H[i] \in Nodes /\ plan.is_host[H[i] + 1]
  BY <1>1, HostsFacts
<1>3. host_count = Len(H) /\ \A k : host_at(k) = H[k + 1]
  BY DEF host_count, host_at, hosts
<1> HIDE DEF H
<1>4. \A k \in 0 .. Len(H) - 1 : k + 1 \in 1 .. Len(H)
  BY <1>2
<1>5. \A k, j \in 0 .. Len(H) - 1 : k + 1 = j + 1 => k = j
  BY <1>2
<1> QED BY <1>2, <1>3, <1>4, <1>5 DEF is_host

(* Balls around the host searched from, and who hangs on a port of the     *)
(* frontier that has not been looked at.                                   *)
W(r) == Within(plan, host_at(h), r)

Hanging(v, u) == \E i \in 1 .. port_count[u] : /\ peer(ports_of(u)[i]) = v
                                               /\ u = Head(frontier) => i > port

ScanType ==
  /\ Built /\ h \in 0 .. host_count - 1
  /\ depth \in 1 .. Size(plan)
  /\ dist \in [Nodes -> 0 .. depth \cup {kUnreachable}]
  /\ frontier \in Seq(Nodes) /\ next \in Seq(Nodes) /\ port \in Nat
  /\ frontier = <<>> => port = 0
  /\ frontier # <<>> => port <= port_count[Head(frontier)]

Below == \A v \in Nodes : \A d \in 0 .. depth - 1 : dist[v] <= d <=> v \in W(d)

AtDepth ==
  /\ \A i \in 1 .. Len(frontier) : dist[frontier[i]] = depth - 1
  /\ \A v \in Nodes : dist[v] = depth => v \in W(depth)
  /\ \A v : (\E i \in 1 .. Len(next) : next[i] = v) <=> v \in Nodes /\ dist[v] = depth
  /\ IsInjective(next)

Missing == \A v \in W(depth) :
             dist[v] = kUnreachable => \E j \in 1 .. Len(frontier) : Hanging(v, frontier[j])

Scan == ScanType /\ Below /\ AtDepth /\ Missing

(* After the search every distance is right, kUnreachable included.        *)
Searched ==
  /\ Built /\ h \in 0 .. host_count - 1 /\ dist \in [Nodes -> Nat]
  /\ \A v \in Nodes : \/ dist[v] = kUnreachable /\ \A r \in Nat : v \notin W(r)
                      \/ dist[v] < kUnreachable /\ Apart(plan, host_at(h), v, dist[v])

LEMMA WFacts ==
  ASSUME Layout, h \in 0 .. host_count - 1
  PROVE  /\ W(0) = {host_at(h)}
         /\ \A r \in Nat : W(r) \in SUBSET Nodes
         /\ \A r \in Nat : \A x : x \in W(r + 1) <=>
              x \in W(r) \/ \E y \in W(r) : Joined(x, y)
         /\ \A r, q \in Nat : r <= q => W(r) \in SUBSET W(q)
         /\ \A r \in Nat : W(r + 1) # W(r) => r + 2 <= Size(plan)
         /\ \A r, q \in Nat : W(r + 1) = W(r) /\ r <= q => W(q) = W(r)
<1>1. IsBlueprint(plan) /\ Nodes = NodesOf(plan) /\ host_at(h) \in NodesOf(plan)
  BY LayoutFacts, HostAt
<1> DEFINE s == host_at(h)
           b == plan
<1> HIDE DEF s, b
<1>2. IsBlueprint(b) /\ s \in NodesOf(b)
  BY <1>1 DEF s, b
<1>3. Within(b, s, 0) = {s}
  BY WithinStart
<1>4. /\ \A r \in Nat : Within(b, s, r) \in SUBSET NodesOf(b)
      /\ \A r, q \in Nat : r <= q => Within(b, s, r) \in SUBSET Within(b, s, q)
      /\ \A r \in Nat : Within(b, s, r + 1) # Within(b, s, r) => r + 2 <= Size(b)
      /\ \A r, q \in Nat : Within(b, s, r + 1) = Within(b, s, r) /\ r <= q
                             => Within(b, s, q) = Within(b, s, r)
  BY <1>2, WithinGrows
<1>5. \A r \in Nat : \A x : x \in Within(b, s, r + 1) <=>
        x \in Within(b, s, r) \/ \E y \in Within(b, s, r) : <<x, y>> \in LinksOf(b)
  BY <1>2, WithinStep
<1> QED BY <1>1, <1>3, <1>4, <1>5 DEF W, Joined, s, b

LEMMA JoinedFacts ==
  ASSUME Layout, NEW u, NEW v, Joined(u, v)
  PROVE  Joined(v, u) /\ u # v /\ u \in Nodes /\ v \in Nodes
BY LayoutFacts, LinkFacts DEF Joined

LEMMA SizeBelow == Layout => Size(plan) \in Nat /\ kUnreachable \in Nat /\ Size(plan) < kUnreachable
BY LayoutFacts, BlueprintFacts, WidthAssumption DEF Layout

LEMMA ModSmall == ASSUME NEW a \in Nat, NEW m \in Nat \ {0}, a < m PROVE a % m = a
OBVIOUS

LEMMA PlusOne ==
  ASSUME Layout, NEW d \in Nat, d < kUnreachable
  PROVE  Plus(d, 1) = d + 1
<1>1. kUnreachable \in Nat /\ d + 1 \in Nat /\ kUnreachable + 1 \in Nat \ {0}
      /\ d + 1 < kUnreachable + 1
  BY WidthAssumption
<1> QED BY <1>1, ModSmall DEF Plus

LEMMA SameFabric ==
  ASSUME UNCHANGED fabric
  PROVE  /\ plan' = plan /\ Nodes' = Nodes /\ host_count' = host_count /\ (Built' <=> Built)
         /\ port_count' = port_count /\ (Layout' <=> Layout)
         /\ (\A k : host_at(k)' = host_at(k)) /\ (\A p : peer(p)' = peer(p))
         /\ (\A u : ports_of(u)' = ports_of(u)) /\ (\A u : is_host(u)' = is_host(u))
         /\ (h' = h => \A r : W(r)' = W(r))
<1>1. /\ plan' = plan /\ made' = made /\ first_port' = first_port
      /\ port_count' = port_count /\ ports' = ports
  BY DEF fabric
<1>2. Nodes' = Nodes /\ host_count' = host_count /\ (Built' <=> Built)
      /\ \A k : host_at(k)' = host_at(k)
  BY <1>1 DEF Nodes, host_count, host_at, hosts, Built
<1>3. (\A p : peer(p)' = peer(p)) /\ (\A u : ports_of(u)' = ports_of(u))
      /\ (\A u : is_host(u)' = is_host(u))
  BY <1>1 DEF peer, ports_of, is_host
<1>4. Layout' <=> Layout
  BY <1>1, <1>2 DEF Layout
<1>5. ASSUME h' = h PROVE \A r : W(r)' = W(r)
  BY <1>1, <1>2, <1>5 DEF W
<1> QED BY <1>1, <1>2, <1>3, <1>4, <1>5

LEMMA SearchScans ==
  ASSUME FabricInv, h \in Nat, Search, pc' = "scan"
  PROVE  Scan'
<1> DEFINE s == host_at(h)
<1>1. /\ Built /\ h < host_count /\ UNCHANGED fabric /\ h' = h
      /\ dist' = [u \in Nodes |-> IF u = s THEN 0 ELSE kUnreachable]
      /\ frontier' = <<s>> /\ depth' = 1 /\ port' = 0 /\ next' = <<>>
  BY DEF Search
<1>2. Layout /\ host_count \in Nat
  BY HostAt DEF FabricInv
<1>3. h \in 0 .. host_count - 1
  BY <1>1, <1>2
<1>4. s \in Nodes
  BY <1>2, <1>3, HostAt
<1>5. /\ Size(plan) \in Nat /\ 1 <= Size(plan)
      /\ kUnreachable \in Nat /\ Size(plan) < kUnreachable
  <2>1. Nodes = 0 .. Size(plan) - 1
    BY DEF Nodes
  <2> QED BY <1>2, <1>4, <2>1, SizeBelow
<1>6. /\ W(0) = {s} /\ W(1) \in SUBSET Nodes
      /\ \A x : x \in W(1) <=> x \in W(0) \/ \E y \in W(0) : Joined(x, y)
  <2>1. 0 \in Nat /\ 1 \in Nat /\ 0 + 1 = 1
    OBVIOUS
  <2>2. \A x : x \in W(0 + 1) <=> x \in W(0) \/ \E y \in W(0) : Joined(x, y)
    BY <1>2, <1>3, <2>1, WFacts
  <2> QED BY <1>2, <1>3, <2>1, <2>2, WFacts
<1>7. /\ Nodes' = Nodes /\ host_count' = host_count /\ (Built' <=> Built) /\ plan' = plan
      /\ port_count' = port_count /\ (\A p : peer(p)' = peer(p))
      /\ (\A u : ports_of(u)' = ports_of(u)) /\ (\A r : W(r)' = W(r))
  BY <1>1, SameFabric
<1> HIDE DEF s
<1>8. ScanType'
  <2>1. dist' \in [Nodes -> 0 .. 1 \cup {kUnreachable}]
    BY <1>1
  <2>2. frontier' \in Seq(Nodes) /\ next' \in Seq(Nodes) /\ frontier' # <<>>
        /\ Head(frontier') = s
    BY <1>1, <1>4
  <2>3. port_count[s] \in Nat
    BY <1>4, LayoutFacts DEF FabricInv
  <2> QED BY <1>1, <1>3, <1>5, <1>7, <2>1, <2>2, <2>3 DEF ScanType
<1>9. Below'
  <2>1. \A v \in Nodes : \A d \in 0 .. 0 : dist'[v] <= d <=> v \in W(d)
    BY <1>1, <1>5, <1>6
  <2> QED BY <1>1, <1>7, <2>1 DEF Below
<1>10. AtDepth'
  <2>1. /\ Len(frontier') = 1 /\ frontier'[1] = s /\ dist'[s] = 0
        /\ \A v \in Nodes : dist'[v] # 1
    BY <1>1, <1>4, <1>5
  <2>2. \A i \in 1 .. Len(frontier') : dist'[frontier'[i]] = 1 - 1
    BY <2>1
  <2>3. (\A v : ~ \E i \in 1 .. Len(next') : next'[i] = v) /\ IsInjective(next')
    BY <1>1 DEF IsInjective
  <2> QED BY <1>1, <1>7, <2>1, <2>2, <2>3 DEF AtDepth
<1>11. Missing'
  <2> SUFFICES ASSUME NEW v \in W(1), dist'[v] = kUnreachable
               PROVE  \E j \in 1 .. Len(frontier') : Hanging(v, frontier[j])'
    BY <1>1, <1>7 DEF Missing
  <2>1. v \in Nodes /\ v # s
    BY <1>1, <1>4, <1>5, <1>6
  <2>2. Joined(s, v)
    BY <1>2, <1>6, <2>1, JoinedFacts
  <2>3. PICK i \in 1 .. port_count[s] : peer(ports_of(s)[i]) = v
    BY <1>1, <1>4, <2>2, PortsReach
  <2>4. i > port'
    BY <1>1, <2>3
  <2>5. Len(frontier') = 1 /\ frontier'[1] = s /\ 1 \in 1 .. 1
    BY <1>1
  <2> QED BY <1>7, <2>3, <2>4, <2>5 DEF Hanging
<1> QED BY <1>8, <1>9, <1>10, <1>11 DEF Scan

(* A node on a port of the frontier is at most depth links away.           *)
LEMMA HeadPeer ==
  ASSUME FabricInv, Scan, frontier # <<>>, port < port_count[Head(frontier)],
         NEW u, u = Head(frontier), NEW v, v = peer(ports_of(u)[port + 1])
  PROVE  /\ u \in Nodes /\ v \in Nodes /\ v \in W(depth) /\ u = frontier[1]
         /\ 1 \in 1 .. Len(frontier) /\ port + 1 \in 1 .. port_count[u]
<1>1. Layout /\ Built /\ h \in 0 .. host_count - 1
  BY DEF FabricInv, Scan, ScanType
<1>2. /\ u \in Nodes /\ u = frontier[1] /\ 1 \in 1 .. Len(frontier)
  BY DEF Scan, ScanType
<1>3. port_count[u] \in Nat /\ port \in Nat /\ depth \in Nat /\ 1 <= depth
  <2>1. Size(plan) \in Nat
    BY <1>1, SizeBelow
  <2> QED BY <1>1, <1>2, <2>1, LayoutFacts DEF Scan, ScanType
<1>4. port + 1 \in 1 .. port_count[u]
  BY <1>3
<1>5. v \in Nodes /\ Joined(u, v)
  BY <1>1, <1>2, <1>4, PortsReach
<1>6. u \in W(depth - 1)
  <2>1. dist[u] = depth - 1 /\ depth - 1 \in 0 .. depth - 1 /\ depth - 1 <= depth - 1
    BY <1>2, <1>3 DEF Scan, AtDepth
  <2>2. dist[u] <= depth - 1 <=> u \in W(depth - 1)
    BY <1>2, <2>1 DEF Scan, Below
  <2> QED BY <2>1, <2>2
<1>7. v \in W(depth)
  <2>1. depth - 1 \in Nat /\ depth - 1 + 1 = depth
    BY <1>3
  <2>2. v \in W(depth - 1 + 1)
    BY <1>1, <1>5, <1>6, <2>1, WFacts, JoinedFacts
  <2> QED BY <2>1, <2>2
<1> QED BY <1>2, <1>4, <1>5, <1>7

LEMMA LookScans ==
  ASSUME FabricInv, Scan, Look
  PROVE  Scan'
<1> DEFINE u == Head(frontier)
           v == peer(ports_of(u)[port + 1])
<1>1. /\ frontier # <<>> /\ port < port_count[u] /\ port' = port + 1
      /\ UNCHANGED fabric /\ h' = h /\ depth' = depth /\ frontier' = frontier
      /\ IF dist[v] # kUnreachable THEN UNCHANGED <<dist, next>>
         ELSE dist' = [dist EXCEPT ![v] = depth] /\ next' = Append(next, v)
  BY DEF Look, Reached
<1>2. /\ u \in Nodes /\ v \in Nodes /\ v \in W(depth) /\ u = frontier[1]
      /\ 1 \in 1 .. Len(frontier) /\ port + 1 \in 1 .. port_count[u]
  BY <1>1, HeadPeer
<1>3. /\ Layout /\ h \in 0 .. host_count - 1 /\ Built /\ port \in Nat
      /\ dist \in [Nodes -> 0 .. depth \cup {kUnreachable}]
      /\ depth \in 1 .. Size(plan) /\ frontier \in Seq(Nodes) /\ next \in Seq(Nodes)
  BY DEF FabricInv, Scan, ScanType
<1>4. /\ depth \in Nat /\ 1 <= depth /\ kUnreachable \in Nat /\ depth < kUnreachable
  BY <1>3, SizeBelow
<1>5. /\ Nodes' = Nodes /\ host_count' = host_count /\ (Built' <=> Built) /\ plan' = plan
      /\ port_count' = port_count /\ (\A p : peer(p)' = peer(p))
      /\ (\A x : ports_of(x)' = ports_of(x)) /\ (\A r : W(r)' = W(r))
  BY <1>1, SameFabric
<1>6. W(depth) \in SUBSET Nodes
  BY <1>3, <1>4, WFacts
<1> HIDE DEF u, v
<1>7. \A x \in Nodes : dist'[x] = IF x = v /\ dist[v] = kUnreachable THEN depth ELSE dist[x]
  BY <1>1, <1>2, <1>3
<1>8. ScanType'
  <2>1. dist' \in [Nodes -> 0 .. depth \cup {kUnreachable}]
    <3>1. depth \in 0 .. depth
      BY <1>4
    <3> QED BY <1>1, <1>2, <1>3, <3>1
  <2>2. next' \in Seq(Nodes)
    <3>1. next' = next \/ next' = Append(next, v)
      BY <1>1
    <3> QED BY <1>2, <1>3, <3>1
  <2>3. port' \in Nat /\ port' <= port_count[u]
    BY <1>1, <1>2, <1>3
  <2> QED BY <1>1, <1>3, <1>5, <2>1, <2>2, <2>3 DEF ScanType, u
<1>9. Below'
  <2>1. ASSUME NEW x \in Nodes, NEW d \in 0 .. depth - 1
        PROVE  dist'[x] <= d <=> x \in W(d)
    <3>1. dist[x] <= d <=> x \in W(d)
      BY <2>1 DEF Scan, Below
    <3>2. ~(kUnreachable <= d) /\ ~(depth <= d)
      BY <1>4
    <3> QED BY <1>7, <3>1, <3>2
  <2> QED BY <1>1, <1>5, <2>1 DEF Below
<1>10. AtDepth'
  <2>1. \A i \in 1 .. Len(frontier) : dist'[frontier[i]] = depth - 1
    <3> TAKE i \in 1 .. Len(frontier)
    <3>1. frontier[i] \in Nodes /\ dist[frontier[i]] = depth - 1
      BY <1>3 DEF Scan, AtDepth
    <3>2. depth - 1 # kUnreachable
      BY <1>4
    <3> QED BY <1>7, <3>1, <3>2
  <2>2. \A x \in Nodes : dist'[x] = depth => x \in W(depth)
    BY <1>2, <1>7 DEF Scan, AtDepth
  <2>3. /\ \A x : (\E i \in 1 .. Len(next) : next[i] = x) <=> x \in Nodes /\ dist[x] = depth
        /\ IsInjective(next)
    BY DEF Scan, AtDepth
  <2>4. /\ \A x : (\E i \in 1 .. Len(next') : next'[i] = x) <=> x \in Nodes /\ dist'[x] = depth
        /\ IsInjective(next')
    <3>1. CASE dist[v] # kUnreachable
      <4>1. next' = next /\ dist' = dist
        BY <1>1, <3>1
      <4> QED BY <2>3, <4>1
    <3>2. CASE dist[v] = kUnreachable
      <4> DEFINE m == Len(next)
      <4>1. next' = Append(next, v)
        BY <1>1, <3>2
      <4>2. /\ m \in Nat /\ DOMAIN next = 1 .. m /\ DOMAIN next' = 1 .. m + 1
            /\ Len(next') = m + 1 /\ next'[m + 1] = v
            /\ \A i \in 1 .. m : next'[i] = next[i]
        BY <1>2, <1>3, <4>1, AppendProperties
      <4>3. \A i : i \in 1 .. m + 1 <=> i \in 1 .. m \/ i = m + 1
        BY <4>2
      <4>4. \A x \in Nodes : dist'[x] = depth <=> dist[x] = depth \/ x = v
        BY <1>4, <1>7, <3>2
      <4>5. \A i \in 1 .. m : next[i] # v
        BY <1>2, <1>4, <2>3, <3>2
      <4> HIDE DEF m
      <4>6. \A x : (\E i \in 1 .. m + 1 : next'[i] = x) <=> (\E i \in 1 .. m : next[i] = x) \/ x = v
        BY <4>2, <4>3
      <4>7. IsInjective(next')
        <5>1. \A i, j \in 1 .. m : next[i] = next[j] => i = j
          BY <2>3, <4>2 DEF IsInjective
        <5> QED BY <4>2, <4>3, <4>5, <5>1 DEF IsInjective
      <4>8. \A x : (\E i \in 1 .. m : next[i] = x) <=> x \in Nodes /\ dist[x] = depth
        BY <2>3 DEF m
      <4> QED BY <1>2, <4>2, <4>4, <4>6, <4>7, <4>8
    <3> QED BY <3>1, <3>2
  <2> QED BY <1>1, <1>5, <2>1, <2>2, <2>4 DEF AtDepth
<1>11. Missing'
  <2> SUFFICES ASSUME NEW x \in W(depth), dist'[x] = kUnreachable
               PROVE  \E j \in 1 .. Len(frontier) : Hanging(x, frontier[j])'
    BY <1>1, <1>5 DEF Missing
  <2>1. x \in Nodes /\ dist[x] = kUnreachable /\ x # v
    BY <1>4, <1>6, <1>7
  <2>2. PICK j \in 1 .. Len(frontier) : Hanging(x, frontier[j])
    BY <2>1 DEF Scan, Missing
  <2>3. PICK i \in 1 .. port_count[frontier[j]] :
          /\ peer(ports_of(frontier[j])[i]) = x
          /\ frontier[j] = u => i > port
    BY <2>2 DEF Hanging, u
  <2>4. frontier[j] = u => i # port + 1
    BY <2>1, <2>3 DEF v
  <2>5. frontier[j] = u => i > port + 1
    <3>1. frontier[j] \in Nodes
      BY <1>3
    <3>2. port_count[frontier[j]] \in Nat
      BY <1>3, <3>1, LayoutFacts
    <3> QED BY <1>3, <2>3, <2>4, <3>2
  <2>6. Hanging(x, frontier[j])'
    BY <1>1, <1>5, <2>3, <2>5 DEF Hanging, u
  <2> QED BY <2>6
<1> QED BY <1>8, <1>9, <1>10, <1>11 DEF Scan

LEMMA NextNodeScans ==
  ASSUME FabricInv, Scan, NextNode
  PROVE  Scan'
<1> DEFINE u == Head(frontier)
           n == Len(frontier)
<1>1. /\ frontier # <<>> /\ port = port_count[u] /\ frontier' = Tail(frontier) /\ port' = 0
      /\ UNCHANGED fabric /\ h' = h /\ depth' = depth /\ dist' = dist /\ next' = next
  BY DEF NextNode
<1>2. /\ Layout /\ h \in 0 .. host_count - 1 /\ Built /\ depth \in Nat
      /\ frontier \in Seq(Nodes) /\ next \in Seq(Nodes)
  <2>1. Layout /\ depth \in 1 .. Size(plan)
    BY DEF FabricInv, Scan, ScanType
  <2>2. depth \in Nat
    BY <2>1, SizeBelow
  <2> QED BY <2>1, <2>2 DEF Scan, ScanType
<1>3. /\ n \in Nat /\ n >= 1 /\ frontier' \in Seq(Nodes) /\ Len(frontier') = n - 1
      /\ u = frontier[1] /\ \A i \in 1 .. n - 1 : frontier'[i] = frontier[i + 1]
  BY <1>1, <1>2
<1>4. \A i \in 1 .. n : frontier[i] \in Nodes /\ port_count[frontier[i]] \in Nat
  BY <1>2, LayoutFacts
<1>5. /\ Nodes' = Nodes /\ host_count' = host_count /\ (Built' <=> Built) /\ plan' = plan
      /\ port_count' = port_count /\ (\A p : peer(p)' = peer(p))
      /\ (\A x : ports_of(x)' = ports_of(x)) /\ (\A r : W(r)' = W(r))
  BY <1>1, SameFabric
<1> HIDE DEF u, n
<1>6. ScanType'
  <2>1. frontier' # <<>> => 0 <= port_count[Head(frontier')]
    <3>1. SUFFICES ASSUME frontier' # <<>> PROVE port_count[Head(frontier')] \in Nat
      OBVIOUS
    <3>2. Head(frontier') \in Nodes
      BY <1>3, <3>1
    <3> QED BY <1>2, <3>2, LayoutFacts
  <2> QED BY <1>1, <1>3, <1>5, <2>1 DEF Scan, ScanType
<1>7. Below'
  BY <1>1, <1>5 DEF Scan, Below
<1>8. AtDepth'
  <2>1. \A i \in 1 .. n : dist[frontier[i]] = depth - 1
    BY DEF Scan, AtDepth, n
  <2>2. \A i \in 1 .. n - 1 : i + 1 \in 1 .. n
    BY <1>3
  <2>3. \A i \in 1 .. n - 1 : dist[frontier'[i]] = depth - 1
    BY <1>3, <2>1, <2>2
  <2> QED BY <1>1, <1>3, <1>5, <2>3 DEF Scan, AtDepth
<1>9. Missing'
  <2> SUFFICES ASSUME NEW x \in W(depth), dist[x] = kUnreachable
               PROVE  \E j \in 1 .. Len(frontier') : Hanging(x, frontier[j])'
    BY <1>1, <1>5 DEF Missing
  <2>1. PICK j \in 1 .. n : Hanging(x, frontier[j])
    BY DEF Scan, Missing, n
  <2>2. PICK i \in 1 .. port_count[frontier[j]] :
          /\ peer(ports_of(frontier[j])[i]) = x
          /\ frontier[j] = u => i > port
    BY <2>1 DEF Hanging, u
  <2>3. frontier[j] # u
    <3>1. port_count[frontier[j]] \in Nat
      BY <1>4
    <3> QED BY <1>1, <2>2, <3>1
  <2>4. j - 1 \in 1 .. n - 1 /\ j - 1 + 1 = j
    <3>1. j # 1
      BY <1>3, <2>3
    <3> QED BY <1>3, <3>1
  <2>5. frontier'[j - 1] = frontier[j] /\ j - 1 \in 1 .. Len(frontier')
    BY <1>3, <2>4
  <2>6. i > port'
    <3>1. port_count[frontier[j]] \in Nat
      BY <1>4
    <3> QED BY <1>1, <3>1
  <2>7. Hanging(x, frontier[j - 1])'
    BY <1>5, <2>2, <2>5, <2>6 DEF Hanging
  <2> QED BY <2>5, <2>7
<1> QED BY <1>6, <1>7, <1>8, <1>9 DEF Scan

(* When the frontier is used up, the level is complete.                    *)
LEMMA LevelComplete ==
  ASSUME FabricInv, Scan, frontier = <<>>
  PROVE  \A v \in Nodes : dist[v] <= depth <=> v \in W(depth)
<1>1. /\ Layout /\ h \in 0 .. host_count - 1 /\ depth \in 1 .. Size(plan)
      /\ dist \in [Nodes -> 0 .. depth \cup {kUnreachable}]
  BY DEF FabricInv, Scan, ScanType
<1>2. depth \in Nat /\ 1 <= depth /\ kUnreachable \in Nat /\ depth < kUnreachable
  BY <1>1, SizeBelow
<1>3. \A v \in W(depth) : dist[v] # kUnreachable
  <2>1. 1 .. Len(frontier) = {}
    OBVIOUS
  <2> QED BY <2>1 DEF Scan, Missing
<1> SUFFICES ASSUME NEW v \in Nodes
             PROVE  dist[v] <= depth <=> v \in W(depth)
  OBVIOUS
<1>4. dist[v] \in 0 .. depth \cup {kUnreachable}
  BY <1>1
<1>5. CASE dist[v] = depth
  <2>1. v \in W(depth)
    BY <1>5 DEF Scan, AtDepth
  <2> QED BY <1>2, <1>5, <2>1
<1>6. CASE dist[v] = kUnreachable
  BY <1>2, <1>3, <1>6
<1>7. CASE dist[v] # depth /\ dist[v] # kUnreachable
  <2>1. dist[v] \in Nat /\ dist[v] <= depth - 1 /\ dist[v] <= depth
    BY <1>2, <1>4, <1>7
  <2>2. depth - 1 \in 0 .. depth - 1 /\ depth - 1 \in Nat /\ depth - 1 <= depth
    BY <1>2
  <2>3. v \in W(depth - 1)
    BY <2>1, <2>2 DEF Scan, Below
  <2>4. W(depth - 1) \in SUBSET W(depth)
    BY <1>1, <1>2, <2>2, WFacts
  <2> QED BY <2>1, <2>3, <2>4
<1> QED BY <1>5, <1>6, <1>7

LEMMA LevelScans ==
  ASSUME FabricInv, Scan, Level, next # <<>>
  PROVE  Scan'
<1>1. /\ frontier = <<>> /\ frontier' = next /\ next' = <<>> /\ depth' = Plus(depth, 1)
      /\ UNCHANGED fabric /\ h' = h /\ dist' = dist /\ port' = port
  BY DEF Level
<1>2. /\ Layout /\ Built /\ h \in 0 .. host_count - 1 /\ depth \in 1 .. Size(plan)
      /\ dist \in [Nodes -> 0 .. depth \cup {kUnreachable}] /\ port = 0
      /\ next \in Seq(Nodes)
  BY <1>1 DEF FabricInv, Scan, ScanType
<1>3. /\ depth \in Nat /\ 1 <= depth /\ kUnreachable \in Nat /\ depth < kUnreachable
      /\ Size(plan) \in Nat /\ Size(plan) < kUnreachable
  BY <1>2, SizeBelow
<1>4. depth' = depth + 1
  BY <1>1, <1>2, <1>3, PlusOne
<1>5. \A v \in Nodes : dist[v] <= depth <=> v \in W(depth)
  BY <1>1, LevelComplete
<1>6. /\ Nodes' = Nodes /\ host_count' = host_count /\ (Built' <=> Built) /\ plan' = plan
      /\ port_count' = port_count /\ (\A p : peer(p)' = peer(p))
      /\ (\A x : ports_of(x)' = ports_of(x)) /\ (\A r : W(r)' = W(r))
  BY <1>1, SameFabric
<1>7. \A v : (\E i \in 1 .. Len(next) : next[i] = v) <=> v \in Nodes /\ dist[v] = depth
  BY DEF Scan, AtDepth
<1>8. depth + 1 <= Size(plan)
  <2>1. next[1] \in Nodes /\ dist[next[1]] = depth
    <3>1. 1 \in 1 .. Len(next)
      BY <1>2
    <3> QED BY <1>7, <3>1
  <2>2. next[1] \in W(depth)
    BY <1>3, <1>5, <2>1
  <2>3. depth - 1 \in 0 .. depth - 1 /\ ~(depth <= depth - 1)
        /\ depth - 1 \in Nat /\ depth - 1 + 1 = depth /\ depth - 1 + 2 = depth + 1
    BY <1>3
  <2>4. next[1] \notin W(depth - 1)
    BY <2>1, <2>3 DEF Scan, Below
  <2>5. W(depth - 1 + 1) # W(depth - 1)
    BY <2>2, <2>3, <2>4
  <2>6. depth - 1 + 2 <= Size(plan)
    BY <1>2, <2>3, <2>5, WFacts
  <2> QED BY <2>3, <2>6
<1>9. ScanType'
  <2>1. depth + 1 \in 1 .. Size(plan)
    BY <1>3, <1>8
  <2>2. dist' \in [Nodes -> 0 .. depth + 1 \cup {kUnreachable}]
    <3>1. 0 .. depth \subseteq 0 .. depth + 1
      BY <1>3
    <3> QED BY <1>1, <1>2, <3>1
  <2>3. next' \in Seq(Nodes) /\ 0 \in Nat
    BY <1>1
  <2>4. 0 <= port_count[Head(next)]
    <3>1. Head(next) \in Nodes
      BY <1>2
    <3>2. port_count[Head(next)] \in Nat
      BY <1>2, <3>1, LayoutFacts
    <3> QED BY <3>2
  <2> QED BY <1>1, <1>2, <1>4, <1>6, <2>1, <2>2, <2>3, <2>4 DEF ScanType
<1> DEFINE deep == depth + 1
<1>10. depth' = deep /\ deep \in Nat /\ deep - 1 = depth /\ deep # kUnreachable
      /\ deep = depth + 1
  BY <1>3, <1>4, <1>8
<1> HIDE DEF deep
<1>11. Below'
  <2>1. ASSUME NEW v \in Nodes, NEW d \in 0 .. deep - 1
        PROVE  dist[v] <= d <=> v \in W(d)
    <3>1. CASE d = depth
      BY <1>5, <3>1
    <3>2. CASE d \in 0 .. depth - 1
      BY <3>2 DEF Scan, Below
    <3>3. d = depth \/ d \in 0 .. depth - 1
      BY <1>3, <1>10
    <3> QED BY <3>1, <3>2, <3>3
  <2> QED BY <1>1, <1>10, <1>6, <2>1 DEF Below
<1>12. AtDepth'
  <2>1. ASSUME NEW v \in Nodes PROVE dist[v] # deep
    <3>1. dist[v] \in 0 .. depth \cup {kUnreachable}
      BY <1>2
    <3>2. deep \notin 0 .. depth
      BY <1>3, <1>10
    <3> QED BY <1>10, <3>1, <3>2
  <2>2. /\ \A v : ~ \E i \in 1 .. Len(next') : next'[i] = v
        /\ IsInjective(next')
    BY <1>1 DEF IsInjective
  <2>3. \A i \in 1 .. Len(next) : dist[next[i]] = deep - 1
    BY <1>7, <1>10
  <2> QED BY <1>1, <1>10, <1>6, <2>1, <2>2, <2>3 DEF AtDepth
<1>13. Missing'
  <2> SUFFICES ASSUME NEW x \in W(depth + 1), dist[x] = kUnreachable
               PROVE  \E j \in 1 .. Len(next) : Hanging(x, frontier[j])'
    BY <1>1, <1>4, <1>6 DEF Missing
  <2>1. x \in W(depth) \/ \E y \in W(depth) : Joined(x, y)
    BY <1>2, <1>3, WFacts
  <2>2. W(depth + 1) \in SUBSET Nodes /\ W(depth) \in SUBSET Nodes
    <3>1. depth + 1 \in Nat
      BY <1>3
    <3> QED BY <1>2, <1>3, <3>1, WFacts
  <2>3. x \notin W(depth)
    BY <1>3, <1>5, <2>2
  <2>4. PICK y \in W(depth) : Joined(x, y)
    BY <2>1, <2>3
  <2>5. y \in Nodes /\ dist[y] \in Nat /\ dist[y] <= depth /\ Joined(y, x)
    BY <1>2, <1>3, <1>5, <2>2, <2>4, JoinedFacts
  <2>6. dist[y] = depth
    <3>1. SUFFICES ASSUME dist[y] # depth PROVE FALSE
      OBVIOUS
    <3>2. dist[y] <= depth - 1 /\ depth - 1 \in 0 .. depth - 1
          /\ depth - 1 \in Nat /\ depth - 1 + 1 = depth
      BY <1>3, <2>5, <3>1
    <3>3. y \in W(depth - 1)
      BY <2>5, <3>2 DEF Scan, Below
    <3>4. x \in W(depth - 1 + 1)
      BY <1>2, <2>4, <3>2, <3>3, WFacts
    <3> QED BY <2>3, <3>2, <3>4
  <2>7. PICK j \in 1 .. Len(next) : next[j] = y
    BY <1>7, <2>5, <2>6
  <2>8. PICK i \in 1 .. port_count[y] : peer(ports_of(y)[i]) = x
    BY <1>2, <2>5, PortsReach
  <2>9. i > 0
    OBVIOUS
  <2>10. Hanging(x, frontier[j])'
    BY <1>1, <1>2, <1>6, <2>7, <2>8, <2>9 DEF Hanging
  <2> QED BY <2>10
<1> QED BY <1>9, <1>11, <1>12, <1>13 DEF Scan

LEMMA LevelEnds ==
  ASSUME FabricInv, Scan, Level, next = <<>>
  PROVE  Searched'
<1>1. /\ frontier = <<>> /\ UNCHANGED fabric /\ h' = h /\ dist' = dist
  BY DEF Level, search
<1>2. /\ Layout /\ Built /\ h \in 0 .. host_count - 1 /\ depth \in 1 .. Size(plan)
      /\ dist \in [Nodes -> 0 .. depth \cup {kUnreachable}]
  BY DEF FabricInv, Scan, ScanType
<1>3. /\ depth \in Nat /\ 1 <= depth /\ kUnreachable \in Nat /\ depth < kUnreachable
  BY <1>2, SizeBelow
<1>4. \A v \in Nodes : dist[v] <= depth <=> v \in W(depth)
  BY <1>1, LevelComplete
<1>5. \A v \in Nodes : dist[v] # depth
  <2>1. \A v : ~ \E i \in 1 .. Len(next) : next[i] = v
    OBVIOUS
  <2> QED BY <2>1 DEF Scan, AtDepth
<1> DEFINE e == depth - 1
<1>6. e \in Nat /\ e + 1 = depth /\ e \in 0 .. depth - 1
  BY <1>3
<1>7. \A v \in Nodes : \A d \in 0 .. e : dist[v] <= d <=> v \in W(d)
  BY DEF Scan, Below
<1> HIDE DEF e
<1>8. W(e) \in SUBSET Nodes /\ W(depth) \in SUBSET Nodes
  BY <1>2, <1>3, <1>6, WFacts
<1>9. W(e + 1) = W(e)
  <2>1. \A v \in Nodes : dist[v] <= depth <=> dist[v] <= e
    BY <1>2, <1>3, <1>5, <1>6
  <2>2. e \in 0 .. e
    BY <1>6
  <2>3. \A v \in Nodes : v \in W(depth) <=> v \in W(e)
    BY <1>4, <1>7, <2>1, <2>2
  <2> QED BY <1>6, <1>8, <2>3
<1>10. \A r \in Nat : e <= r => W(r) = W(e)
  BY <1>2, <1>6, <1>9, WFacts
<1>11. ASSUME NEW v \in Nodes, dist[v] = kUnreachable, NEW r \in Nat
       PROVE  v \notin W(r)
  <2>1. \A d \in 0 .. e : v \notin W(d)
    BY <1>3, <1>6, <1>7, <1>11
  <2>2. CASE e <= r
    <3>1. e \in 0 .. e
      BY <1>6
    <3> QED BY <1>10, <2>1, <2>2, <3>1
  <2>3. CASE r < e
    <3>1. r \in 0 .. e
      BY <1>6, <2>3
    <3> QED BY <2>1, <3>1
  <2> QED BY <1>6, <2>2, <2>3
<1>12. ASSUME NEW v \in Nodes, dist[v] # kUnreachable
       PROVE  dist[v] < kUnreachable /\ Apart(plan, host_at(h), v, dist[v])
  <2>1. dist[v] \in 0 .. e
    BY <1>2, <1>3, <1>5, <1>6, <1>12
  <2>2. dist[v] \in Nat /\ dist[v] <= dist[v]
    BY <1>6, <2>1
  <2>3. v \in W(dist[v])
    BY <1>7, <2>1, <2>2
  <2>4. ASSUME NEW q \in Nat, q < dist[v] PROVE v \notin W(q)
    <3>1. q \in 0 .. e /\ ~(dist[v] <= q)
      BY <1>6, <2>1, <2>4
    <3> QED BY <1>7, <3>1
  <2>5. dist[v] < kUnreachable
    BY <1>3, <1>6, <2>1
  <2> QED BY <2>3, <2>4, <2>5 DEF Apart, W
<1>13. /\ Nodes' = Nodes /\ host_count' = host_count /\ (Built' <=> Built) /\ plan' = plan
       /\ (\A k : host_at(k)' = host_at(k)) /\ (\A r : W(r)' = W(r))
  BY <1>1, SameFabric
<1>14. dist \in [Nodes -> Nat]
  <2>1. 0 .. depth \cup {kUnreachable} \subseteq Nat
    BY <1>3
  <2> QED BY <1>2, <2>1
<1>15. host_at(h)' = host_at(h)
  BY <1>1, <1>13 DEF host_at, hosts
<1> QED BY <1>1, <1>2, <1>11, <1>12, <1>13, <1>14, <1>15 DEF Searched

LEMMA SameTable ==
  ASSUME UNCHANGED tableVars
  PROVE  /\ Scan' <=> Scan
         /\ Searched' <=> Searched
<1>1. /\ UNCHANGED fabric /\ pc' = pc /\ h' = h /\ dist' = dist /\ depth' = depth
      /\ frontier' = frontier /\ port' = port /\ next' = next
  BY DEF tableVars, search
<1>2. /\ Nodes' = Nodes /\ host_count' = host_count /\ (Built' <=> Built) /\ plan' = plan
      /\ port_count' = port_count /\ (\A p : peer(p)' = peer(p))
      /\ (\A u : ports_of(u)' = ports_of(u)) /\ (\A r : W(r)' = W(r))
  BY <1>1, SameFabric
<1>3. host_at(h)' = host_at(h)
  BY <1>1, <1>2 DEF host_at, hosts
<1>4. \A v, u : Hanging(v, u)' <=> Hanging(v, u)
  BY <1>1, <1>2 DEF Hanging
<1>5. /\ ScanType' <=> ScanType
      /\ Below' <=> Below
  BY <1>1, <1>2 DEF ScanType, Below
<1>6. /\ AtDepth' <=> AtDepth
      /\ Missing' <=> Missing
  BY <1>1, <1>2, <1>4 DEF AtDepth, Missing
<1>7. Searched' <=> Searched
  BY <1>1, <1>2, <1>3 DEF Searched
<1> QED BY <1>5, <1>6, <1>7 DEF Scan

SearchInv ==
  /\ pc \in {"search", "scan", "collect", "pack", "done"}
  /\ h \in 0 .. host_count
  /\ ~Built => pc = "search" /\ h = 0
  /\ pc = "scan" => Scan
  /\ pc = "collect" => Searched
  /\ pc \in {"pack", "done"} => h = host_count

LEMMA InitSearch == Init => SearchInv
<1> SUFFICES ASSUME Init PROVE SearchInv
  OBVIOUS
<1>1. pc = "search" /\ h = 0
  BY DEF Init, TableInit
<1>2. host_count \in Nat
  BY InitFabric, HostAt DEF FabricInv
<1>3. h \in 0 .. host_count
  BY <1>1, <1>2
<1> QED BY <1>1, <1>3 DEF SearchInv

LEMMA StepSearch == FabricInv /\ SearchInv /\ [Next]_vars => SearchInv'
<1> SUFFICES ASSUME FabricInv, SearchInv, [Next]_vars
             PROVE  SearchInv'
  OBVIOUS
<1>1. host_count \in Nat /\ Layout /\ h \in 0 .. host_count
  BY HostAt DEF FabricInv, SearchInv
<1>2. ASSUME UNCHANGED fabric
      PROVE  host_count' = host_count /\ (Built' <=> Built)
  BY <1>2, SameFabric
<1>3. CASE Build
  <2>1. /\ made < Len(plan.edges) /\ plan' = plan /\ pc' = pc /\ h' = h
    BY <1>3 DEF Build, Materialise
  <2>2. ~Built
    <3>1. Len(plan.edges) \in Nat
      BY <1>1, LayoutFacts, BlueprintFacts DEF Links
    <3> QED BY <2>1, <3>1 DEF Built
  <2>3. host_count' = host_count
    BY <2>1 DEF host_count, hosts
  <2> QED BY <1>1, <2>1, <2>2, <2>3 DEF SearchInv
<1>4. CASE Search
  <2>1. pc = "search" /\ Built /\ UNCHANGED fabric /\ h' = h
    BY <1>4 DEF Search
  <2>2. CASE h < host_count
    <3>1. pc' = "scan"
      BY <1>4, <2>2 DEF Search
    <3>2. Scan'
      BY <1>1, <1>4, <3>1, SearchScans
    <3> QED BY <1>1, <1>2, <2>1, <3>1, <3>2 DEF SearchInv
  <2>3. CASE ~(h < host_count)
    <3>1. pc' = "pack" /\ h = host_count
      BY <1>1, <1>4, <2>3 DEF Search
    <3> QED BY <1>1, <1>2, <2>1, <3>1 DEF SearchInv
  <2> QED BY <2>2, <2>3
<1>5. CASE Look \/ NextNode
  <2>1. pc = "scan" /\ pc' = pc /\ UNCHANGED fabric /\ h' = h
    BY <1>5 DEF Look, NextNode
  <2>2. Scan /\ Built
    BY <2>1 DEF SearchInv
  <2>3. Scan'
    BY <1>5, <2>2, LookScans, NextNodeScans
  <2> QED BY <1>1, <1>2, <2>1, <2>2, <2>3 DEF SearchInv
<1>6. CASE Level
  <2>1. pc = "scan" /\ UNCHANGED fabric /\ h' = h
    BY <1>6 DEF Level
  <2>2. Scan /\ Built
    BY <2>1 DEF SearchInv
  <2>3. CASE next = <<>>
    <3>1. pc' = "collect"
      BY <1>6, <2>3 DEF Level
    <3>2. Searched'
      BY <1>6, <2>2, <2>3, LevelEnds
    <3> QED BY <1>1, <1>2, <2>1, <2>2, <3>1, <3>2 DEF SearchInv
  <2>4. CASE next # <<>>
    <3>1. pc' = pc
      BY <1>6, <2>4 DEF Level
    <3>2. Scan'
      BY <1>6, <2>2, <2>4, LevelScans
    <3> QED BY <1>1, <1>2, <2>1, <2>2, <3>1, <3>2 DEF SearchInv
  <2> QED BY <2>3, <2>4
<1>7. CASE Collect
  <2>1. pc = "collect" /\ pc' = "search" /\ h' = h + 1 /\ UNCHANGED fabric
    BY <1>7 DEF Collect
  <2>2. Built /\ h \in 0 .. host_count - 1
    BY <2>1 DEF SearchInv, Searched
  <2>3. h + 1 \in 0 .. host_count
    BY <1>1, <2>2
  <2> QED BY <1>2, <2>1, <2>2, <2>3 DEF SearchInv
<1>8. CASE Pack
  <2>1. pc = "pack" /\ pc' \in {"pack", "done"} /\ UNCHANGED fabric /\ h' = h
    BY <1>8 DEF Pack
  <2> QED BY <1>1, <1>2, <2>1 DEF SearchInv
<1>9. CASE UNCHANGED tableVars
  <2>1. pc' = pc /\ h' = h /\ UNCHANGED fabric
    BY <1>9 DEF tableVars
  <2> QED BY <1>2, <1>9, <2>1, SameTable DEF SearchInv
<1>10. TableNext \/ UNCHANGED tableVars
  BY DEF Next, vars, Send, Forward, Arrive
<1> QED BY <1>3, <1>4, <1>5, <1>6, <1>7, <1>8, <1>9, <1>10 DEF TableNext

(* LevelOrder of RouteTable, for every blueprint: the breadth-first search *)
(* of RouteTable::build_shortest_path gives exact distances below depth,   *)
(* and a node at depth it has not reached hangs on a port still to look at.*)
THEOREM SearchInLevels == Spec => []LevelOrder
<1>1. ASSUME FabricInv, SearchInv
      PROVE  LevelOrder
  <2> SUFFICES ASSUME pc = "scan" PROVE LevelOrder
    BY DEF LevelOrder
  <2> DEFINE s     == host_at(h)
             At(d) == {v \in Nodes : dist[v] = d}
             Hangs(v, u) == \E i \in DOMAIN ports_of(u) :
                              /\ peer(ports_of(u)[i]) = v
                              /\ u = Head(frontier) => i > port
  <2>1. Scan /\ Layout /\ h \in 0 .. host_count - 1 /\ depth \in Nat /\ frontier \in Seq(Nodes)
        /\ next \in Seq(Nodes)
    <3>1. Scan /\ Layout /\ h \in 0 .. host_count - 1 /\ depth \in 1 .. Size(plan)
          /\ frontier \in Seq(Nodes) /\ next \in Seq(Nodes)
      BY <1>1 DEF FabricInv, SearchInv, Scan, ScanType
    <3>2. depth \in Nat
      BY <3>1, SizeBelow
    <3> QED BY <3>1, <3>2
  <2>2. \A d \in Nat : Ball(s, d) = W(d) /\ W(d) \in SUBSET Nodes
    <3>1. \A d \in Nat : Ball(s, d) = Within(plan, s, d)
      BY BallIs
    <3>2. \A d \in Nat : W(d) \in SUBSET Nodes
      BY <2>1, WFacts
    <3> QED BY <3>1, <3>2 DEF W
  <2>3. ASSUME NEW d \in 0 .. depth - 1
        PROVE  {v \in Nodes : dist[v] <= d} = Ball(s, d)
    <3>1. d \in Nat
      OBVIOUS
    <3>2. \A v \in Nodes : dist[v] <= d <=> v \in W(d)
      BY <2>1 DEF Scan, Below
    <3> QED BY <2>2, <3>1, <3>2
  <2>4. At(depth) \subseteq Ball(s, depth)
    BY <2>1, <2>2 DEF Scan, AtDepth
  <2>5. ToSet(next) = At(depth) /\ IsInjective(next)
    <3>1. \A v : v \in ToSet(next) <=> \E i \in 1 .. Len(next) : next[i] = v
      BY <2>1 DEF ToSet
    <3> QED BY <2>1, <3>1 DEF Scan, AtDepth
  <2>6. ASSUME NEW v \in Ball(s, depth), ~Reached(v)
        PROVE  \E u \in ToSet(frontier) : Hangs(v, u)
    <3>1. v \in W(depth) /\ dist[v] = kUnreachable
      BY <2>1, <2>2, <2>6 DEF Reached
    <3>2. PICK j \in 1 .. Len(frontier) : Hanging(v, frontier[j])
      BY <2>1, <3>1 DEF Scan, Missing
    <3>3. frontier[j] \in ToSet(frontier)
      BY <2>1 DEF ToSet
    <3>4. Hangs(v, frontier[j])
      <4>1. DOMAIN ports_of(frontier[j]) = 1 .. port_count[frontier[j]]
        BY DEF ports_of
      <4> QED BY <3>2, <4>1 DEF Hanging
    <3> QED BY <3>3, <3>4
  <2> QED BY <2>3, <2>4, <2>5, <2>6 DEF LevelOrder
<1>2. Init => FabricInv /\ SearchInv
  BY InitFabric, InitSearch
<1>3. FabricInv /\ SearchInv /\ [Next]_vars => FabricInv' /\ SearchInv'
  BY StepFabric, StepSearch
<1> QED BY <1>1, <1>2, <1>3, PTL DEF Spec

-----------------------------------------------------------------------------
(* The table.  The next hops of u to host k are the ports whose far end is  *)
(* in some ball around the host that u is not in.                          *)

Nearer(k, v, u) == \E r \in Nat : /\ v \in Within(plan, host_at(k), r)
                                  /\ u \notin Within(plan, host_at(k), r)

Closer(u, k) == {p \in ToSet(ports_of(u)) : Nearer(k, peer(p), u)}

LEMMA ThoseNone ==
  ASSUME NEW A, NEW seq \in Seq(A)
  PROVE  Those(seq, {}) = <<>>
<1> DEFINE r == Those(seq, {})
<1>1. r \in Seq(A) /\ \A i \in DOMAIN r : r[i] \in {}
  BY ThoseFacts DEF Selected
<1> HIDE DEF r
<1>2. Len(r) \in Nat /\ DOMAIN r = 1 .. Len(r)
  BY <1>1
<1>3. Len(r) = 0
  <2>1. SUFFICES ASSUME Len(r) # 0 PROVE FALSE
    OBVIOUS
  <2>2. 1 \in DOMAIN r
    BY <1>2, <2>1
  <2> QED BY <1>1, <2>2
<1> QED BY <1>1, <1>3, EmptySeq DEF r

(* Exact distances make NextHopsOf the ports that lead closer.             *)
LEMMA NextHopsAre ==
  ASSUME FabricInv, Searched, NEW u \in Nodes
  PROVE  NextHopsOf(u) = Those(ports_of(u), Closer(u, h))
<1> DEFINE R == ports_of(u)
           s == host_at(h)
<1>1. /\ Layout /\ Built /\ h \in 0 .. host_count - 1 /\ R \in Seq(Nat)
      /\ DOMAIN R = 1 .. port_count[u]
      /\ \A i \in DOMAIN R : peer(R[i]) \in Nodes /\ Joined(u, peer(R[i]))
  BY PortsReach DEF FabricInv, Searched
<1>2. \A p \in ToSet(R) : peer(p) \in Nodes /\ Joined(u, peer(p)) /\ Joined(peer(p), u)
  BY <1>1, JoinedFacts DEF ToSet
<1>3. /\ kUnreachable \in Nat /\ kUnreachable # 0
      /\ \A v \in Nodes : /\ dist[v] \in Nat
                          /\ \/ dist[v] = kUnreachable /\ \A r \in Nat : v \notin W(r)
                             \/ /\ dist[v] < kUnreachable /\ v \in W(dist[v])
                                /\ \A q \in Nat : q < dist[v] => v \notin W(q)
  BY <1>1, SizeBelow DEF Searched, Apart, W
<1>4. /\ \A r \in Nat : \A x : x \in W(r + 1) <=>
           x \in W(r) \/ \E y \in W(r) : Joined(x, y)
      /\ \A r, q \in Nat : r <= q => W(r) \in SUBSET W(q)
  BY <1>1, WFacts
<1>5. Closer(u, h) = {p \in ToSet(R) : \E r \in Nat : peer(p) \in W(r) /\ u \notin W(r)}
  BY DEF Closer, Nearer, W
<1>6. NextHopsOf(u) = IF dist[u] \in {0, kUnreachable} THEN <<>>
                      ELSE Those(R, {p \in ToSet(R) : Plus(dist[peer(p)], 1) = dist[u]})
  BY DEF NextHopsOf
<1> HIDE DEF R, s
<1>7. CASE dist[u] = kUnreachable
  <2>1. \A r \in Nat : u \notin W(r)
    BY <1>3, <1>7
  <2>2. ASSUME NEW p \in ToSet(R), NEW r \in Nat, peer(p) \in W(r)
        PROVE  FALSE
    <3>1. u \in W(r + 1) /\ r + 1 \in Nat
      BY <1>2, <1>4, <2>2
    <3> QED BY <2>1, <3>1
  <2>3. Closer(u, h) = {}
    BY <1>5, <2>2
  <2> QED BY <1>1, <1>6, <1>7, <2>3, ThoseNone DEF R
<1>8. CASE dist[u] = 0
  <2>1. u \in W(0)
    BY <1>3, <1>8
  <2>2. \A r \in Nat : u \in W(r)
    BY <1>4, <2>1
  <2>3. Closer(u, h) = {}
    BY <1>5, <2>2
  <2> QED BY <1>1, <1>6, <1>8, <2>3, ThoseNone DEF R
<1>9. CASE dist[u] \notin {0, kUnreachable}
  <2> DEFINE d == dist[u]
  <2>1. /\ d \in Nat /\ d < kUnreachable /\ u \in W(d)
        /\ \A q \in Nat : q < d => u \notin W(q)
    BY <1>3, <1>9
  <2> HIDE DEF d
  <2>2. ASSUME NEW p \in ToSet(R)
        PROVE  Plus(dist[peer(p)], 1) = d <=> \E r \in Nat : peer(p) \in W(r) /\ u \notin W(r)
    <3> DEFINE v == peer(p)
               e == dist[v]
    <3>1. v \in Nodes /\ Joined(u, v) /\ Joined(v, u)
      BY <1>2
    <3> HIDE DEF v
    <3>2. v \in W(d + 1) /\ d + 1 \in Nat
      BY <1>4, <2>1, <3>1
    <3>3. /\ e \in Nat /\ e < kUnreachable /\ v \in W(e)
          /\ \A q \in Nat : q < e => v \notin W(q)
      BY <1>3, <3>1, <3>2
    <3> HIDE DEF e
    <3>4. Plus(e, 1) = e + 1
      BY <1>1, <3>3, PlusOne
    <3>5. u \in W(e + 1) /\ e + 1 \in Nat
      BY <1>4, <3>1, <3>3
    <3>6. d <= e + 1
      BY <2>1, <3>5
    <3>7. ASSUME e + 1 = d
          PROVE  \E r \in Nat : v \in W(r) /\ u \notin W(r)
      <4>1. u \notin W(e)
        BY <2>1, <3>3, <3>7
      <4> QED BY <3>3, <4>1
    <3>8. ASSUME NEW r \in Nat, v \in W(r), u \notin W(r)
          PROVE  e + 1 = d
      <4>1. e <= r
        BY <3>3, <3>8
      <4>2. r < d
        <5>1. SUFFICES ASSUME d <= r PROVE FALSE
          BY <2>1
        <5>2. W(d) \in SUBSET W(r)
          BY <1>4, <2>1, <5>1
        <5> QED BY <2>1, <3>8, <5>2
      <4> QED BY <2>1, <3>3, <3>6, <4>1, <4>2
    <3>9. Plus(e, 1) = d <=> \E r \in Nat : v \in W(r) /\ u \notin W(r)
      BY <3>4, <3>7, <3>8
    <3> QED BY <3>9 DEF e, v
  <2>3. {p \in ToSet(R) : Plus(dist[peer(p)], 1) = dist[u]} = Closer(u, h)
    BY <1>5, <2>2 DEF d
  <2> QED BY <1>6, <1>9, <2>3 DEF R
<1> QED BY <1>7, <1>8, <1>9

LEMMA CellFacts ==
  ASSUME NEW S \in Nat, NEW n \in Nat, NEW u \in 0 .. S - 1, NEW k \in 0 .. n - 1
  PROVE  /\ u * n + k \in 0 .. S * n - 1
         /\ (u * n + k) \div n = u
OBVIOUS

LEMMA RowOf ==
  ASSUME NEW S \in Nat, NEW n \in Nat \ {0}, NEW c \in 0 .. S * n - 1
  PROVE  c \div n \in 0 .. S - 1
OBVIOUS

LEMMA CellIs ==
  ASSUME Layout, NEW u \in Nodes, NEW k \in 0 .. host_count - 1
  PROVE  /\ cell(u, k) \in Cells /\ cell(u, k) \div host_count = u
         /\ \A j \in 0 .. host_count - 1 : cell(u, j) = cell(u, k) => j = k
<1>1. Size(plan) \in Nat /\ host_count \in Nat /\ u \in 0 .. Size(plan) - 1 /\ u * host_count \in Nat
  BY SizeBelow, HostAt DEF Nodes
<1>2. cell(u, k) \in Cells /\ cell(u, k) \div host_count = u
  BY <1>1, CellFacts DEF cell, Cells
<1>3. ASSUME NEW j \in 0 .. host_count - 1, cell(u, j) = cell(u, k)
      PROVE  j = k
  <2> DEFINE x == u * host_count
  <2>1. x \in Nat /\ x + j = x + k
    BY <1>1, <1>3 DEF cell
  <2> HIDE DEF x
  <2> QED BY <1>1, <2>1
<1> QED BY <1>2, <1>3

CellsInv ==
  /\ per_cell \in [Cells -> Seq(Nat)]
  /\ \A u \in Nodes : \A k \in 0 .. h - 1 :
       per_cell[cell(u, k)] = Those(ports_of(u), Closer(u, k))

LEMMA InitCells == Init => CellsInv
<1> SUFFICES ASSUME Init PROVE CellsInv
  OBVIOUS
<1>1. h = 0 /\ per_cell = [c \in Cells |-> <<>>]
  BY DEF Init, TableInit
<1>2. per_cell \in [Cells -> Seq(Nat)]
  <2>1. <<>> \in Seq(Nat)
    OBVIOUS
  <2> HIDE DEF Cells
  <2> QED BY <1>1, <2>1
<1>3. 0 .. h - 1 = {}
  BY <1>1
<1> QED BY <1>2, <1>3 DEF CellsInv

LEMMA CollectCells ==
  ASSUME FabricInv, Searched, CellsInv, Collect
  PROVE  CellsInv'
<1>1. /\ UNCHANGED fabric /\ h' = h + 1
      /\ per_cell' = [c \in Cells |-> IF c = cell(c \div host_count, h)
                                        THEN NextHopsOf(c \div host_count)
                                        ELSE per_cell[c]]
  BY DEF Collect
<1>2. Layout /\ Built /\ h \in 0 .. host_count - 1 /\ host_count \in Nat /\ h \in Nat
  <2>1. Layout /\ Built /\ h \in 0 .. host_count - 1
    BY DEF FabricInv, Searched
  <2>2. host_count \in Nat
    BY <2>1, HostAt
  <2> QED BY <2>1, <2>2
<1>3. /\ Nodes' = Nodes /\ host_count' = host_count /\ plan' = plan
      /\ (\A u : ports_of(u)' = ports_of(u)) /\ (\A p : peer(p)' = peer(p))
      /\ (\A k : host_at(k)' = host_at(k))
  BY <1>1, SameFabric
<1>4. Cells' = Cells /\ \A u, k : cell(u, k)' = cell(u, k)
  BY <1>3 DEF Cells, cell
<1>5. \A u, k : Closer(u, k)' = Closer(u, k)
  BY <1>3 DEF Closer, Nearer
<1>6. ASSUME NEW u \in Nodes, NEW k \in 0 .. h
      PROVE  /\ cell(u, k) \in Cells
             /\ per_cell'[cell(u, k)] = Those(ports_of(u), Closer(u, k))
  <2>1. k \in 0 .. host_count - 1
    BY <1>2
  <2>2. /\ cell(u, k) \in Cells /\ cell(u, k) \div host_count = u
        /\ cell(u, k) = cell(u, h) => k = h
    BY <1>2, <2>1, CellIs
  <2>3. per_cell'[cell(u, k)] = IF cell(u, k) = cell(u, h) THEN NextHopsOf(u)
                                ELSE per_cell[cell(u, k)]
    BY <1>1, <2>2
  <2>4. CASE k = h
    BY <2>2, <2>3, <2>4, NextHopsAre
  <2>5. CASE k # h
    <3>1. k \in 0 .. h - 1
      BY <1>2, <2>5
    <3> QED BY <2>2, <2>3, <2>5, <3>1 DEF CellsInv
  <2> QED BY <2>2, <2>4, <2>5
<1>7. per_cell' \in [Cells -> Seq(Nat)]
  <2>1. ASSUME NEW c \in Cells
        PROVE  (IF c = cell(c \div host_count, h) THEN NextHopsOf(c \div host_count)
                ELSE per_cell[c]) \in Seq(Nat)
    <3>1. ASSUME c = cell(c \div host_count, h)
          PROVE  NextHopsOf(c \div host_count) \in Seq(Nat)
      <4> DEFINE u == c \div host_count
      <4>1. u \in Nodes
        <5>1. Size(plan) \in Nat /\ c \in 0 .. Size(plan) * host_count - 1
          BY <1>2, SizeBelow DEF Cells
        <5>2. host_count \in Nat \ {0}
          BY <1>2
        <5>3. u \in 0 .. Size(plan) - 1
          BY <5>1, <5>2, RowOf
        <5> QED BY <5>3 DEF Nodes
      <4> HIDE DEF u
      <4>2. NextHopsOf(u) = Those(ports_of(u), Closer(u, h)) /\ ports_of(u) \in Seq(Nat)
        BY <1>2, <4>1, NextHopsAre, PortsReach
      <4>3. NextHopsOf(u) \in Seq(Nat)
        BY <4>2, ThoseFacts
      <4> QED BY <4>3 DEF u
    <3>2. per_cell[c] \in Seq(Nat)
      BY DEF CellsInv
    <3> QED BY <3>1, <3>2
  <2> HIDE DEF Cells
  <2> QED BY <1>1, <2>1
<1>8. 0 .. h' - 1 = 0 .. h
  BY <1>1, <1>2
<1>9. ASSUME NEW u \in Nodes, NEW k \in 0 .. h
      PROVE  (per_cell[cell(u, k)] = Those(ports_of(u), Closer(u, k)))'
  BY <1>3, <1>4, <1>5, <1>6
<1>10. (\A u \in Nodes : \A k \in 0 .. h - 1 :
          per_cell[cell(u, k)] = Those(ports_of(u), Closer(u, k)))'
  BY <1>3, <1>8, <1>9
<1> QED BY <1>4, <1>7, <1>10 DEF CellsInv

LEMMA StepCells == FabricInv /\ SearchInv /\ CellsInv /\ [Next]_vars => CellsInv'
<1> SUFFICES ASSUME FabricInv, SearchInv, CellsInv, [Next]_vars
             PROVE  CellsInv'
  OBVIOUS
<1>1. CASE Build
  <2>1. /\ made < Len(plan.edges) /\ plan' = plan /\ h' = h /\ per_cell' = per_cell
    BY <1>1 DEF Build, Materialise, table
  <2>2. h = 0
    <3>1. Len(plan.edges) \in Nat /\ made \in Nat
      BY LayoutFacts DEF FabricInv, Links
    <3>2. ~Built
      BY <2>1, <3>1 DEF Built
    <3> QED BY <3>2 DEF SearchInv
  <2>3. Cells' = Cells
    BY <2>1 DEF Cells, host_count, hosts
  <2>4. 0 .. h' - 1 = {}
    BY <2>1, <2>2
  <2> QED BY <2>1, <2>3, <2>4 DEF CellsInv
<1>2. CASE Collect
  BY <1>2, CollectCells DEF SearchInv, Collect
<1>3. CASE Search \/ Look \/ NextNode \/ Level \/ Pack \/ UNCHANGED tableVars
  <2>1. UNCHANGED fabric /\ h' = h /\ per_cell' = per_cell
    BY <1>3 DEF Search, Look, NextNode, Level, Pack, tableVars, table
  <2>2. /\ Nodes' = Nodes /\ host_count' = host_count /\ plan' = plan
        /\ (\A u : ports_of(u)' = ports_of(u)) /\ (\A p : peer(p)' = peer(p))
        /\ (\A k : host_at(k)' = host_at(k))
    BY <2>1, SameFabric
  <2>3. Cells' = Cells /\ \A u, k : cell(u, k)' = cell(u, k)
    BY <2>2 DEF Cells, cell
  <2>4. \A u, k : Closer(u, k)' = Closer(u, k)
    BY <2>2 DEF Closer, Nearer
  <2> QED BY <2>1, <2>2, <2>3, <2>4 DEF CellsInv
<1>4. TableNext \/ UNCHANGED tableVars
  BY DEF Next, vars, Send, Forward, Arrive
<1> QED BY <1>1, <1>2, <1>3, <1>4 DEF TableNext

(* Row c of the packed array begins at offsets[c + 1] and ends where the   *)
(* next begins.                                                            *)
RowAt(c) ==
  /\ offsets[c + 1] \in Nat
  /\ offsets[c + 1] + Len(per_cell[c])
       = IF c + 1 < Len(offsets) THEN offsets[c + 2] ELSE Len(entries)
  /\ offsets[c + 1] + Len(per_cell[c]) <= Len(entries)
  /\ \A i \in 1 .. Len(per_cell[c]) : entries[offsets[c + 1] + i] = per_cell[c][i]

PackInv ==
  /\ offsets \in Seq(Nat) /\ entries \in Seq(Nat)
  /\ pc \notin {"pack", "done"} => offsets = <<>>
  /\ pc # "done" => Len(offsets) <= Size(plan) * host_count
  /\ pc = "done" => Len(offsets) = Size(plan) * host_count + 1
  /\ \A c \in Cells : c < Len(offsets) => RowAt(c)

LEMMA InitPack == Init => PackInv
<1> SUFFICES ASSUME Init PROVE PackInv
  OBVIOUS
<1>1. pc = "search" /\ offsets = <<>> /\ entries = <<>>
  BY DEF Init, TableInit
<1>2. Size(plan) \in Nat /\ host_count \in Nat
  BY InitFabric, SizeBelow, HostAt DEF FabricInv
<1>3. 0 <= Size(plan) * host_count
  BY <1>2
<1>4. \A c \in Cells : ~(c < 0)
  BY DEF Cells
<1> QED BY <1>1, <1>3, <1>4 DEF PackInv

LEMMA PackPacks ==
  ASSUME FabricInv, SearchInv, CellsInv, PackInv, Pack
  PROVE  PackInv'
<1> DEFINE n == Len(offsets)
           m == Len(entries)
           row == per_cell[n]
           N == Size(plan) * host_count
<1>1. /\ UNCHANGED fabric /\ per_cell' = per_cell /\ pc = "pack"
      /\ offsets' = Append(offsets, m)
      /\ IF n \in Cells THEN entries' = entries \o row /\ pc' = pc
         ELSE pc' = "done" /\ entries' = entries
  BY DEF Pack
<1>2. /\ offsets \in Seq(Nat) /\ entries \in Seq(Nat) /\ n \in Nat /\ m \in Nat /\ n <= N
      /\ N \in Nat /\ \A c \in Cells : c < n => RowAt(c)
  <2>1. Size(plan) \in Nat /\ host_count \in Nat
    BY SizeBelow, HostAt DEF FabricInv
  <2>2. N \in Nat
    BY <2>1
  <2> QED BY <1>1, <2>2 DEF PackInv
<1>3. \A c \in Cells : c \in Nat /\ per_cell[c] \in Seq(Nat) /\ Len(per_cell[c]) \in Nat
  <2>1. \A c \in Cells : c \in Nat
    BY DEF Cells
  <2>2. \A c \in Cells : per_cell[c] \in Seq(Nat)
    BY DEF CellsInv
  <2> QED BY <2>1, <2>2
<1>4. Cells = 0 .. N - 1
  BY DEF Cells
<1>5. Cells' = Cells /\ (Size(plan) * host_count)' = N
  BY <1>1, SameFabric DEF Cells
<1>6. /\ offsets' \in Seq(Nat) /\ Len(offsets') = n + 1 /\ offsets'[n + 1] = m
      /\ \A i \in 1 .. n : offsets'[i] = offsets[i]
  BY <1>1, <1>2, AppendProperties
<1>7. /\ entries' \in Seq(Nat) /\ Len(entries') \in Nat /\ m <= Len(entries')
      /\ \A i \in 1 .. m : entries'[i] = entries[i]
      /\ n \in Cells => /\ Len(entries') = m + Len(row)
                        /\ \A i \in 1 .. Len(row) : entries'[m + i] = row[i]
  <2>1. CASE n \in Cells
    <3>1. row \in Seq(Nat) /\ Len(row) \in Nat
      BY <1>3, <2>1
    <3>2. entries' = entries \o row
      BY <1>1, <2>1
    <3> HIDE DEF row, n
    <3>3. /\ entries' \in Seq(Nat) /\ Len(entries') = m + Len(row)
          /\ \A i \in 1 .. m + Len(row) :
               entries'[i] = IF i <= m THEN entries[i] ELSE row[i - m]
      BY <1>2, <3>1, <3>2, ConcatProperties
    <3> HIDE DEF m
    <3>4. \A i \in 1 .. m : i \in 1 .. m + Len(row) /\ i <= m
      BY <1>2, <3>1
    <3>5. m \in Nat /\ Len(row) \in Nat
      BY <1>2, <3>1
    <3>6. m + Len(row) \in Nat /\ m <= m + Len(row)
      BY <1>2, <3>1
    <3>7. \A i \in 1 .. m : entries'[i] = entries[i]
      BY <3>3, <3>4
    <3>8. ASSUME NEW i \in 1 .. Len(row) PROVE entries'[m + i] = row[i]
      <4> DEFINE j == m + i
      <4>1. j \in 1 .. m + Len(row) /\ ~(j <= m) /\ j - m = i
        BY <3>5
      <4> HIDE DEF j
      <4>2. entries'[j] = row[i]
        BY <3>3, <4>1
      <4> QED BY <4>2 DEF j
    <3> QED BY <3>3, <3>6, <3>7, <3>8
  <2>2. CASE n \notin Cells
    BY <1>1, <1>2, <2>2
  <2> QED BY <2>1, <2>2
<1> HIDE DEF n, m, row, N
<1>8. ASSUME NEW c \in Cells, c < n + 1
      PROVE  RowAt(c)'
  <2>1. c \in Nat /\ Len(per_cell[c]) \in Nat
    BY <1>3
  <2> DEFINE k == Len(per_cell[c])
             o == offsets'[c + 1]
  <2>2. CASE c = n
    <3>1. o = m /\ k = Len(row) /\ n \in Cells
      BY <1>6, <1>8, <2>2 DEF row
    <3>2. o + k = Len(entries') /\ \A i \in 1 .. k : entries'[o + i] = per_cell[c][i]
      BY <1>7, <2>2, <3>1 DEF row
    <3>3. ~(c + 1 < n + 1)
      BY <1>2, <2>2
    <3>4. o + k <= Len(entries')
      BY <1>7, <3>2
    <3> HIDE DEF o, k
    <3>5. o + k = IF c + 1 < n + 1 THEN offsets'[c + 2] ELSE Len(entries')
      BY <3>2, <3>3
    <3> QED BY <1>1, <1>2, <1>6, <3>1, <3>2, <3>4, <3>5 DEF RowAt, o, k
  <2>3. CASE c < n
    <3>1. RowAt(c) /\ c + 1 \in 1 .. n
      BY <1>2, <1>8, <2>1, <2>3
    <3>2. o = offsets[c + 1] /\ o \in Nat
      BY <1>6, <3>1 DEF RowAt
    <3>3. /\ o + k = IF c + 1 < n THEN offsets[c + 2] ELSE m
          /\ o + k <= m
          /\ \A i \in 1 .. k : entries[o + i] = per_cell[c][i]
      BY <3>1, <3>2 DEF RowAt, n, m
    <3> HIDE DEF o
    <3>4. k \in Nat
      BY <2>1
    <3> HIDE DEF k
    <3>5. ASSUME NEW i \in 1 .. k PROVE o + i \in 1 .. m
      <4>1. o + k <= m /\ o \in Nat /\ m \in Nat
        BY <1>2, <3>2, <3>3
      <4> QED BY <3>4, <4>1
    <3>6. \A i \in 1 .. k : entries'[o + i] = per_cell[c][i]
      BY <1>7, <3>3, <3>5
    <3>7. o + k <= Len(entries')
      <4>1. o + k \in Nat /\ o + k <= m
        BY <3>2, <3>3, <3>4
      <4>2. Len(entries') \in Nat /\ m <= Len(entries') /\ m \in Nat
        BY <1>2, <1>7
      <4> QED BY <4>1, <4>2
    <3>8. o + k = offsets'[c + 2] /\ c + 1 < n + 1
      <4>1. CASE c + 1 < n
        <5>1. c + 2 \in 1 .. n
          BY <1>2, <2>1, <4>1
        <5>2. offsets'[c + 2] = offsets[c + 2]
          BY <1>6, <5>1
        <5> QED BY <1>2, <2>1, <3>3, <4>1, <5>2
      <4>2. CASE ~(c + 1 < n)
        <5>1. c + 2 = n + 1 /\ c + 1 < n + 1
          BY <1>2, <2>1, <2>3, <4>2
        <5>2. offsets'[c + 2] = m
          BY <1>6, <5>1
        <5> QED BY <3>3, <4>2, <5>1, <5>2
      <4> QED BY <4>1, <4>2
    <3>9. o + k = IF c + 1 < n + 1 THEN offsets'[c + 2] ELSE Len(entries')
      BY <3>8
    <3> QED BY <1>1, <1>6, <3>2, <3>6, <3>7, <3>9 DEF RowAt, o, k
  <2>4. c = n \/ c < n
    BY <1>2, <1>8, <2>1
  <2> QED BY <2>2, <2>3, <2>4
<1>9. /\ pc' = "pack" => n + 1 <= N
      /\ pc' = "done" => n + 1 = N + 1
      /\ pc' \in {"pack", "done"}
  <2>1. CASE n \in Cells
    <3>1. n + 1 <= N /\ pc' = "pack"
      BY <1>1, <1>2, <1>4, <2>1 DEF n
    <3> QED BY <3>1
  <2>2. CASE n \notin Cells
    <3>1. n = N /\ pc' = "done"
      BY <1>1, <1>2, <1>4, <2>2 DEF n
    <3> QED BY <3>1
  <2> QED BY <2>1, <2>2
<1> QED BY <1>5, <1>6, <1>7, <1>8, <1>9 DEF PackInv

LEMMA StepPack == FabricInv /\ SearchInv /\ CellsInv /\ PackInv /\ [Next]_vars => PackInv'
<1> SUFFICES ASSUME FabricInv, SearchInv, CellsInv, PackInv, [Next]_vars
             PROVE  PackInv'
  OBVIOUS
<1>1. CASE Pack
  BY <1>1, PackPacks
<1>2. CASE Build \/ Search \/ Look \/ NextNode \/ Level \/ Collect
  <2>1. offsets' = offsets /\ entries' = entries /\ plan' = plan
    BY <1>2 DEF Build, Materialise, Search, Look, NextNode, Level, Collect, table, fabric
  <2>2. pc # "done" /\ pc' # "done" /\ pc # "pack"
    <3>1. CASE Build
      <4>1. ~Built
        <5>1. Len(plan.edges) \in Nat /\ made \in Nat /\ made < Len(plan.edges)
          BY <3>1, LayoutFacts DEF FabricInv, Links, Build, Materialise
        <5> QED BY <5>1 DEF Built
      <4> QED BY <3>1, <4>1 DEF SearchInv, Build
    <3>2. CASE ~Build
      BY <1>2, <3>2 DEF Search, Look, NextNode, Level, Collect
    <3> QED BY <3>1, <3>2
  <2>3. offsets = <<>> /\ Len(offsets') = 0
    BY <2>1, <2>2 DEF PackInv
  <2>4. (Size(plan) * host_count)' = Size(plan) * host_count /\ Cells' = Cells
    BY <2>1 DEF host_count, hosts, Cells
  <2>5. \A c \in Cells : ~(c < 0)
    BY DEF Cells
  <2> QED BY <2>1, <2>2, <2>3, <2>4, <2>5 DEF PackInv
<1>3. CASE UNCHANGED tableVars
  <2>1. /\ UNCHANGED fabric /\ offsets' = offsets /\ entries' = entries /\ pc' = pc
        /\ per_cell' = per_cell
    BY <1>3 DEF tableVars, table
  <2>2. Size(plan)' = Size(plan) /\ host_count' = host_count
    BY <2>1, SameFabric
  <2>3. (Size(plan) * host_count)' = Size(plan) * host_count /\ Cells' = Cells
    BY <2>2 DEF Cells
  <2>4. \A c : RowAt(c)' <=> RowAt(c)
    BY <2>1 DEF RowAt
  <2> QED BY <2>1, <2>3, <2>4 DEF PackInv
<1>4. TableNext \/ UNCHANGED tableVars
  BY DEF Next, vars, Send, Forward, Arrive
<1> QED BY <1>1, <1>2, <1>3, <1>4 DEF TableNext

(* Read back through the offsets, the candidates are what was collected.   *)
LEMMA CandidatesAre ==
  ASSUME FabricInv, SearchInv, CellsInv, PackInv, pc = "done",
         NEW u \in Nodes, NEW k \in 0 .. host_count - 1
  PROVE  candidates(u, k) = Those(ports_of(u), Closer(u, k))
<1> DEFINE c == cell(u, k)
           o == offsets[c + 1]
           row == per_cell[c]
<1>1. Layout /\ Size(plan) \in Nat /\ host_count \in Nat /\ h = host_count
  BY SizeBelow, HostAt DEF FabricInv, SearchInv
<1>2. c \in Cells
  BY <1>1, CellIs
<1>3. row = Those(ports_of(u), Closer(u, k)) /\ row \in Seq(Nat)
  BY <1>1, <1>2 DEF CellsInv
<1>4. c \in Nat /\ c < Len(offsets) /\ c + 1 < Len(offsets)
  <2>1. c \in 0 .. Size(plan) * host_count - 1
    BY <1>2 DEF Cells
  <2> DEFINE N == Size(plan) * host_count
  <2>2. N \in Nat /\ Len(offsets) = N + 1
    BY <1>1 DEF PackInv
  <2> HIDE DEF N, c
  <2>3. c \in 0 .. N - 1
    BY <2>1 DEF N
  <2> QED BY <2>2, <2>3
<1>5. RowAt(c)
  BY <1>2, <1>4 DEF PackInv
<1>6. /\ o \in Nat /\ offsets[c + 2] = o + Len(row) /\ o + Len(row) <= Len(entries)
      /\ \A i \in 1 .. Len(row) : entries[o + i] = row[i]
      /\ entries \in Seq(Nat)
  BY <1>4, <1>5 DEF RowAt, PackInv
<1>7. candidates(u, k) = SubSeq(entries, o + 1, o + Len(row))
  BY <1>6 DEF candidates
<1> HIDE DEF c, o, row
<1> DEFINE q == SubSeq(entries, o + 1, o + Len(row))
<1>8. Len(row) \in Nat /\ Len(entries) \in Nat
  BY <1>3, <1>6
<1>9. q \in Seq(Nat) /\ Len(q) = Len(row) /\ \A i \in 1 .. Len(row) : q[i] = row[i]
  <2> DEFINE l == Len(row)
  <2>1. \A i \in o + 1 .. o + l : i \in 1 .. Len(entries)
    BY <1>6, <1>8
  <2>2. \A i \in o + 1 .. o + l : entries[i] \in Nat
    BY <1>6, <2>1
  <2>3. q \in Seq(Nat) /\ Len(q) = l
        /\ \A i \in 1 .. l : q[i] = entries[o + 1 + i - 1]
    <3>1. l \in Nat
      BY <1>8
    <3> HIDE DEF l
    <3>2. q = SubSeq(entries, o + 1, o + l)
      BY DEF l
    <3> HIDE DEF q
    <3>3. Len(q) = l /\ q \in Seq(Nat)
      BY <1>6, <1>8, <2>1, <2>2, <3>1, <3>2
    <3> QED BY <1>6, <1>8, <2>1, <3>1, <3>2, <3>3
  <2>4. \A i \in 1 .. l : o + 1 + i - 1 = o + i
    BY <1>6, <1>8
  <2> QED BY <1>6, <2>3, <2>4
<1> HIDE DEF q
<1>10. q = row
  BY <1>3, <1>9, SeqEqual
<1> QED BY <1>3, <1>7, <1>10 DEF q, row

-----------------------------------------------------------------------------
(* The reference: Downhill collects, ball by ball, the links that enter.   *)

IntoBefore(b, d, n) ==
  {l \in LinksOf(b) : \E q \in 0 .. n - 1 : /\ l[2] \in Within(b, d, q)
                                            /\ l[1] \notin Within(b, d, q)}

GrownAt(b, d, n) == LoopAt("downhill", b, [ball |-> {d}, into |-> {}], n)

LEMMA GrownSteps ==
  ASSUME NEW b, NEW d
  PROVE  /\ GrownAt(b, d, 0) = [ball |-> {d}, into |-> {}]
         /\ \A n \in Nat : GrownAt(b, d, n + 1) = Grow(b, GrownAt(b, d, n))
<1> DEFINE w == [ball |-> {d}, into |-> {}]
<1>1. \A n : GrownAt(b, d, n) = LoopAt("downhill", b, w, n)
  BY DEF GrownAt
<1> HIDE DEF w
<1>2. GrownAt(b, d, 0) = w
  BY <1>1, LoopStart
<1>3. \A n \in Nat : LoopAt("downhill", b, w, n + 1)
                       = Turn("downhill", b, LoopAt("downhill", b, w, n), n + 1)
  BY LoopStep
<1>4. \A v, n : Turn("downhill", b, v, n) = Grow(b, v)
  BY DEF Turn
<1> QED BY <1>1, <1>2, <1>3, <1>4 DEF w

LEMMA GrownIs ==
  ASSUME NEW b, IsBlueprint(b), NEW d \in NodesOf(b), NEW n \in Nat
  PROVE  GrownAt(b, d, n) = [ball |-> Within(b, d, n), into |-> IntoBefore(b, d, n)]
<1> DEFINE g(m) == GrownAt(b, d, m)
           X(m) == [ball |-> Within(b, d, m), into |-> IntoBefore(b, d, m)]
           I == {m \in Nat : g(m) = X(m)}
<1>1. g(0) = [ball |-> {d}, into |-> {}] /\ \A m \in Nat : g(m + 1) = Grow(b, g(m))
  BY GrownSteps
<1> HIDE DEF g
<1>2. 0 \in I
  <2>1. 0 .. 0 - 1 = {}
    OBVIOUS
  <2>2. IntoBefore(b, d, 0) = {}
    BY <2>1 DEF IntoBefore
  <2>3. Within(b, d, 0) = {d}
    BY WithinStart
  <2> QED BY <1>1, <2>2, <2>3
<1>3. ASSUME NEW m \in Nat, m \in I
      PROVE  m + 1 \in I
  <2> DEFINE B == Within(b, d, m)
             E == {l \in LinksOf(b) : l[2] \in B /\ l[1] \notin B}
  <2>1. g(m + 1) = [ball |-> B \cup {l[1] : l \in E}, into |-> IntoBefore(b, d, m) \cup E]
    BY <1>1, <1>3 DEF Grow, Entering
  <2>2. B \cup {l[1] : l \in E} = Within(b, d, m + 1)
    <3>1. \A x : x \in Within(b, d, m + 1) <=> x \in B \/ \E y \in B : <<x, y>> \in LinksOf(b)
      BY WithinStep
    <3> HIDE DEF B
    <3>2. ASSUME NEW x, x \in Within(b, d, m + 1), x \notin B
          PROVE  x \in {l[1] : l \in E}
      <4>1. PICK y \in B : <<x, y>> \in LinksOf(b)
        BY <3>1, <3>2
      <4> DEFINE l == <<x, y>>
      <4>2. l \in E /\ l[1] = x
        BY <3>2, <4>1
      <4> HIDE DEF l, E
      <4> QED BY <4>2
    <3>3. ASSUME NEW l \in E
          PROVE  l[1] \in Within(b, d, m + 1)
      <4>1. l = <<l[1], l[2]>> /\ l \in LinksOf(b) /\ l[2] \in B
        BY LinkPairs
      <4> QED BY <3>1, <4>1
    <3> HIDE DEF E
    <3>4. \A x : x \in Within(b, d, m + 1) <=> x \in B \/ x \in {l[1] : l \in E}
      BY <3>1, <3>2, <3>3
    <3> QED BY <3>4
  <2>3. IntoBefore(b, d, m) \cup E = IntoBefore(b, d, m + 1)
    <3>1. \A q : q \in 0 .. m + 1 - 1 <=> q \in 0 .. m - 1 \/ q = m
      OBVIOUS
    <3>2. \A l \in LinksOf(b) :
            (\E q \in 0 .. m + 1 - 1 : l[2] \in Within(b, d, q) /\ l[1] \notin Within(b, d, q))
            <=> \/ \E q \in 0 .. m - 1 : l[2] \in Within(b, d, q) /\ l[1] \notin Within(b, d, q)
                \/ l[2] \in B /\ l[1] \notin B
      BY <3>1
    <3> HIDE DEF B
    <3> QED BY <3>2 DEF IntoBefore
  <2> HIDE DEF B, E
  <2>4. g(m + 1) = X(m + 1)
    BY <2>1, <2>2, <2>3
  <2> QED BY <2>4
<1> HIDE DEF I
<1>4. n \in I
  BY <1>2, <1>3, Induction
<1> QED BY <1>4 DEF I, g

LEMMA DownhillIs ==
  ASSUME NEW b, IsBlueprint(b), NEW d \in NodesOf(b), NEW u, NEW v
  PROVE  <<u, v>> \in Downhill(b, d) <=>
           /\ <<u, v>> \in LinksOf(b)
           /\ \E r \in Nat : v \in Within(b, d, r) /\ u \notin Within(b, d, r)
<1> DEFINE N == Size(b) - 1
           w == [ball |-> {d}, into |-> {}]
           P(t) == t = [r \in NodesOf(b) |->
                         IF r = 0 THEN w
                         ELSE LET near  == t[r - 1]
                                  enter == {l \in LinksOf(b) : l[2] \in near.ball /\ l[1] \notin near.ball}
                              IN  [ball |-> near.ball \cup {l[1] : l \in enter},
                                   into |-> near.into \cup enter]]
           a == CHOOSE t : P(t)
<1>1. Size(b) \in Nat /\ N \in Nat /\ NodesOf(b) = 0 .. N /\ N \in 0 .. N
  <2>1. Size(b) \in Nat /\ NodesOf(b) = 0 .. Size(b) - 1
    BY BlueprintFacts DEF NodesOf
  <2>2. d \in Nat /\ d <= N
    BY <2>1
  <2>3. N \in Nat
    BY <2>1, <2>2
  <2> HIDE DEF N
  <2>4. N \in 0 .. N
    BY <2>3
  <2> QED BY <2>1, <2>3, <2>4 DEF N
<1>2. Downhill(b, d) = a[N].into
  BY DEF Downhill, LinksOf
<1>3. \A t : P(t) <=> IsLoop("downhill", b, w, N, t)
  BY <1>1 DEF IsLoop, Turn, Grow, Entering
<1> HIDE DEF N, P, w
<1>4. P(a)
  <2>1. \E t : P(t)
    BY <1>1, <1>3, LoopExists
  <2> QED BY <2>1
<1> HIDE DEF a
<1>5. a[N] = LoopAt("downhill", b, w, N)
  BY <1>1, <1>3, <1>4, LoopIs
<1>6. a[N] = GrownAt(b, d, N)
  BY <1>5 DEF GrownAt, w
<1>7. Downhill(b, d) = IntoBefore(b, d, N)
  <2>1. a[N] = [ball |-> Within(b, d, N), into |-> IntoBefore(b, d, N)]
    BY <1>1, <1>6, GrownIs
  <2> QED BY <1>2, <2>1
<1>8. \A q \in 0 .. N - 1 : q \in Nat
  OBVIOUS
<1>9. ASSUME <<u, v>> \in LinksOf(b), NEW r \in Nat,
             v \in Within(b, d, r), u \notin Within(b, d, r)
      PROVE  r \in 0 .. N - 1
  <2>1. u \in Within(b, d, r + 1)
    BY <1>9, WithinStep
  <2>2. Within(b, d, r + 1) # Within(b, d, r)
    BY <1>9, <2>1
  <2>3. r + 2 <= Size(b)
    BY <2>2, WithinGrows
  <2> QED BY <1>1, <2>3 DEF N
<1> DEFINE l == <<u, v>>
<1>10. l[1] = u /\ l[2] = v
  OBVIOUS
<1> HIDE DEF l
<1>11. l \in IntoBefore(b, d, N) <=>
         /\ l \in LinksOf(b)
         /\ \E q \in 0 .. N - 1 : v \in Within(b, d, q) /\ u \notin Within(b, d, q)
  BY <1>10 DEF IntoBefore
<1> QED BY <1>7, <1>8, <1>9, <1>11 DEF l

LEMMA TableIs ==
  ASSUME FabricInv, SearchInv, CellsInv, PackInv, pc = "done",
         NEW k \in 0 .. host_count - 1
  PROVE  NextHopsTo(k)
<1> DEFINE d == host_at(k)
           down == Downhill(plan, d)
<1>1. /\ Layout /\ Built /\ IsBlueprint(plan) /\ Nodes = NodesOf(plan) /\ d \in Nodes
  BY LayoutFacts, HostAt DEF FabricInv, SearchInv
<1>2. ASSUME NEW u \in Nodes
      PROVE  /\ ToSet(candidates(u, k)) \subseteq ToSet(ports_of(u))
             /\ PeersOf(candidates(u, k)) = NextNodes(plan, down, u)
             /\ IsInjective(candidates(u, k))
  <2> DEFINE R == ports_of(u)
             T == {v \in Nodes : <<u, v>> \in down}
  <2>1. /\ R \in Seq(Nat) /\ DOMAIN R = 1 .. port_count[u] /\ port_count[u] \in Nat
        /\ \A i \in 1 .. port_count[u] : peer(R[i]) \in Nodes /\ Joined(u, peer(R[i]))
    BY <1>1, PortsReach
  <2>2. candidates(u, k) = Those(R, Closer(u, k))
    BY CandidatesAre
  <2>3. PeersOf(R) = Far(plan, u)
    BY <1>1, PeersInOrder
  <2>4. NextNodes(plan, down, u) = Those(Far(plan, u), T)
    BY <1>1 DEF NextNodes
  <2>5. ASSUME NEW i \in 1 .. Len(R)
        PROVE  R[i] \in Closer(u, k) <=> peer(R[i]) \in T
    <3>1. /\ peer(R[i]) \in Nodes /\ <<u, peer(R[i])>> \in LinksOf(plan) /\ R[i] \in ToSet(R)
      <4>1. i \in DOMAIN R
        BY <2>1
      <4> HIDE DEF R
      <4> QED BY <2>1, <4>1 DEF Joined, ToSet
    <3>2. R[i] \in Closer(u, k) <=> Nearer(k, peer(R[i]), u)
      BY <3>1 DEF Closer
    <3>3. <<u, peer(R[i])>> \in down <=> Nearer(k, peer(R[i]), u)
      BY <1>1, <3>1, DownhillIs DEF Nearer
    <3> QED BY <3>1, <3>2, <3>3
  <2>6. IsInjective(R)
    <3>1. \A i, j \in 1 .. port_count[u] : R[i] = R[j] => i = j
      <4>1. first_port[u] \in Nat
        BY <1>1, LayoutFacts
      <4> QED BY <2>1, <4>1 DEF ports_of
    <3> QED BY <2>1, <3>1 DEF IsInjective
  <2>7. ToSet(Those(R, Closer(u, k))) \subseteq ToSet(R)
    <3> DEFINE r == Those(R, Closer(u, k))
    <3>1. \A x \in DOMAIN r : \E j \in 1 .. Len(R) : r[x] = R[j]
      BY <2>1, ThoseFacts DEF Selected
    <3>2. 1 .. Len(R) = DOMAIN R
      BY <2>1
    <3> HIDE DEF R, r
    <3>3. ToSet(r) \subseteq ToSet(R)
      BY <3>1, <3>2 DEF ToSet
    <3> QED BY <3>3 DEF r
  <2> HIDE DEF R, T, down
  <2>8. PeersOf(Those(R, Closer(u, k))) = Those(PeersOf(R), T)
    BY <2>1, <2>5, ThosePeers
  <2>9. IsInjective(Those(R, Closer(u, k)))
    BY <2>1, <2>6, ThoseFacts DEF Selected
  <2> QED BY <2>2, <2>3, <2>4, <2>7, <2>8, <2>9 DEF R
<1> QED BY <1>2 DEF NextHopsTo

TableInv == FabricInv /\ SearchInv /\ CellsInv /\ PackInv

LEMMA TableHolds == Spec => []TableInv
<1>1. Init => TableInv
  BY InitFabric, InitSearch, InitCells, InitPack DEF TableInv
<1>2. TableInv /\ [Next]_vars => TableInv'
  BY StepFabric, StepSearch, StepCells, StepPack DEF TableInv
<1> QED BY <1>1, <1>2, PTL DEF Spec

(* TableRight, for every blueprint: the packed table of RouteTable, read   *)
(* back with candidates(), holds for every node and every host exactly the *)
(* node's own ports that lead closer to it, each once and in port order.   *)
THEOREM TableOfShortestPaths == Spec => []TableRight
<1>1. TableInv => TableRight
  BY TableIs DEF TableInv, TableRight, NextHops
<1> QED BY <1>1, TableHolds, PTL

-----------------------------------------------------------------------------
(* Trips.  A host hangs on one node: hosts are "the ones with exactly one   *)
(* port" (core/ids.hpp); and every host is some number of links from every *)
(* other.                                                                  *)
WellWired ==
  /\ \A k \in 0 .. host_count - 1 : \E v : \A y : Joined(host_at(k), y) <=> y = v
  /\ \A k, d \in 0 .. host_count - 1 : \E r \in Nat : host_at(k) \in Ball(host_at(d), r)

(* Node u is r links from host d.                                          *)
LinksAway(d, u, r) == r \in Nat /\ Apart(plan, host_at(d), u, r)

LEMMA ApartFacts ==
  ASSUME Layout, NEW d \in 0 .. host_count - 1
  PROVE  /\ \A u : LinksAway(d, u, 0) <=> u = host_at(d)
         /\ \A u, r, q : LinksAway(d, u, r) /\ LinksAway(d, u, q) => r = q
         /\ \A u, v, r : LinksAway(d, u, r) /\ Joined(u, v) /\ Nearer(d, v, u)
                           => r # 0 /\ LinksAway(d, v, r - 1)
         /\ \A u, r : LinksAway(d, u, r) /\ r # 0 =>
              \E v : Joined(u, v) /\ Nearer(d, v, u)
         /\ \A u : (\E r \in Nat : u \in Within(plan, host_at(d), r))
                     => \E r : LinksAway(d, u, r)
<1> DEFINE s == host_at(d)
           V(r) == Within(plan, s, r)
<1>1. IsBlueprint(plan) /\ s \in NodesOf(plan)
  BY LayoutFacts, HostAt
<1>2. /\ V(0) = {s}
      /\ \A r, q \in Nat : r <= q => V(r) \in SUBSET V(q)
      /\ \A r \in Nat : \A x : x \in V(r + 1) <=> x \in V(r) \/ \E y \in V(r) : Joined(x, y)
  BY <1>1, WithinStart, WithinGrows, WithinStep DEF Joined
<1>3. \A u, r : LinksAway(d, u, r) <=> r \in Nat /\ u \in V(r) /\ \A q \in Nat : q < r => u \notin V(q)
  BY DEF LinksAway, Apart
<1>4. \A v, u : Nearer(d, v, u) <=> \E r \in Nat : v \in V(r) /\ u \notin V(r)
  BY DEF Nearer
<1>5. \A u, v : Joined(u, v) => Joined(v, u)
  BY JoinedFacts
<1> HIDE DEF s, V
<1>6. \A u : LinksAway(d, u, 0) <=> u = s
  BY <1>2, <1>3
<1>7. ASSUME NEW u, NEW r, NEW q, LinksAway(d, u, r), LinksAway(d, u, q)
      PROVE  r = q
  BY <1>3, <1>7
<1>8. ASSUME NEW u, NEW v, NEW r, LinksAway(d, u, r), Joined(u, v), Nearer(d, v, u)
      PROVE  r # 0 /\ LinksAway(d, v, r - 1)
  <2>1. r \in Nat /\ u \in V(r) /\ \A q \in Nat : q < r => u \notin V(q)
    BY <1>3, <1>8
  <2>2. PICK q \in Nat : v \in V(q) /\ u \notin V(q)
    BY <1>4, <1>8
  <2>3. u \in V(q + 1) /\ q + 1 \in Nat
    BY <1>2, <1>8, <2>2
  <2>4. q < r
    <3>1. SUFFICES ASSUME r <= q PROVE FALSE
      BY <2>1
    <3> QED BY <1>2, <2>1, <2>2, <3>1
  <2>5. r = q + 1
    BY <2>1, <2>2, <2>3, <2>4
  <2>6. ASSUME NEW p \in Nat, p < q
        PROVE  v \notin V(p)
    <3>1. SUFFICES ASSUME v \in V(p) PROVE FALSE
      OBVIOUS
    <3>2. u \in V(p + 1) /\ p + 1 \in Nat /\ p + 1 < r
      BY <1>2, <1>8, <2>5, <2>6, <3>1
    <3> QED BY <2>1, <3>2
  <2>7. r # 0 /\ r - 1 = q
    BY <2>2, <2>5
  <2> QED BY <1>3, <2>2, <2>6, <2>7
<1>9. ASSUME NEW u, NEW r, LinksAway(d, u, r), r # 0
      PROVE  \E v : Joined(u, v) /\ Nearer(d, v, u)
  <2> DEFINE q == r - 1
  <2>1. r \in Nat /\ u \in V(r) /\ \A p \in Nat : p < r => u \notin V(p)
    BY <1>3, <1>9
  <2>2. q \in Nat /\ q + 1 = r /\ q < r
    BY <1>9, <2>1
  <2> HIDE DEF q
  <2>3. u \notin V(q)
    BY <2>1, <2>2
  <2>4. PICK y \in V(q) : Joined(u, y)
    BY <1>2, <2>1, <2>2, <2>3
  <2> QED BY <1>4, <2>2, <2>3, <2>4
<1>10. ASSUME NEW u, NEW r \in Nat, u \in V(r)
       PROVE  \E q : LinksAway(d, u, q)
  <2> DEFINE S == {q \in Nat : u \in V(q)}
  <2>1. S \subseteq Nat /\ S # {}
    BY <1>10
  <2>2. \A q : q \in S <=> q \in Nat /\ u \in V(q)
    OBVIOUS
  <2> HIDE DEF S
  <2>3. PICK q \in S : \A m \in S : q <= m
    BY <2>1, LeastNat
  <2>4. \A p \in Nat : p < q => u \notin V(p)
    <3> SUFFICES ASSUME NEW p \in Nat, p < q, u \in V(p) PROVE FALSE
      OBVIOUS
    <3>1. q <= p /\ q \in Nat
      BY <2>2, <2>3
    <3> QED BY <3>1
  <2> QED BY <1>3, <2>2, <2>3, <2>4
<1> QED BY <1>6, <1>7, <1>8, <1>9, <1>10 DEF s, V

LEMMA HostFound ==
  ASSUME Layout, NEW u \in Nodes, is_host(u)
  PROVE  \E k \in 0 .. host_count - 1 : u = host_at(k)
<1>1. IsBlueprint(plan) /\ Nodes = NodesOf(plan)
  BY LayoutFacts
<1> DEFINE N == NodesOf(plan)
           seq == [i \in 1 .. Size(plan) |-> i - 1]
           S == {x \in N : plan.is_host[x + 1]}
           H == HostsOf(plan)
<1>2. Size(plan) \in Nat /\ N = 0 .. Size(plan) - 1
  BY <1>1, BlueprintFacts
<1>3. seq \in Seq(N) /\ Len(seq) = Size(plan)
  BY <1>2
<1>4. u + 1 \in 1 .. Size(plan) /\ u \in S /\ seq[u + 1] = u
  BY <1>1, <1>2 DEF is_host
<1>5. H = Those(seq, S)
  BY DEF HostsOf
<1> HIDE DEF seq, H, N, S
<1>6. H \in Seq(N) /\ Selected(seq, S, Len(seq), H)
  BY <1>3, <1>5, ThoseFacts
<1>7. PICK i \in DOMAIN H : H[i] = u
  BY <1>3, <1>4, <1>6 DEF Selected
<1>8. host_count = Len(H) /\ \A k : host_at(k) = H[k + 1]
  BY DEF host_count, host_at, hosts, H
<1>9. i \in 1 .. Len(H) /\ Len(H) \in Nat
  BY <1>6
<1>10. i - 1 \in 0 .. Len(H) - 1 /\ i - 1 + 1 = i
  BY <1>9
<1> QED BY <1>7, <1>8, <1>10

(* The first port of a host leads to its one neighbour.                    *)
LEMMA OneNeighbour ==
  ASSUME FabricInv, Built, WellWired, NEW u \in Nodes, is_host(u)
  PROVE  /\ Joined(u, peer(ports_of(u)[1]))
         /\ \A v : Joined(u, v) => v = peer(ports_of(u)[1])
<1>1. PICK k \in 0 .. host_count - 1 : u = host_at(k)
  BY HostFound DEF FabricInv
<1>2. PICK v : \A y : Joined(u, y) <=> y = v
  BY <1>1 DEF WellWired
<1>3. /\ port_count[u] \in Nat
      /\ \A i \in 1 .. port_count[u] : Joined(u, peer(ports_of(u)[i]))
      /\ \A y : Joined(u, y) => \E i \in 1 .. port_count[u] : peer(ports_of(u)[i]) = y
  BY PortsReach
<1>4. PICK i \in 1 .. port_count[u] : peer(ports_of(u)[i]) = v
  BY <1>2, <1>3
<1>5. 1 \in 1 .. port_count[u]
  BY <1>3, <1>4
<1> QED BY <1>2, <1>3, <1>5

(* A packet under way is as many links from its destination as its trip    *)
(* still needs to be a shortest one.                                       *)
TripInv ==
  /\ at = {} => hops = 0
  /\ \A u \in at :
       /\ pc = "done" /\ u \in Nodes /\ hops \in Nat
       /\ src \in 0 .. host_count - 1 /\ dst \in 0 .. host_count - 1
       /\ is_host(u) => u = host_at(dst)
       /\ \E r : LinksAway(dst, u, r) /\ LinksAway(dst, host_at(src), hops + r)

(* A step towards host d arrives at it or at a switch.                     *)
LEMMA HostEnds ==
  ASSUME FabricInv, Built, WellWired, NEW d \in 0 .. host_count - 1, NEW u, NEW r,
         LinksAway(d, u, r), NEW v, Joined(u, v), LinksAway(d, v, r - 1), is_host(v)
  PROVE  v = host_at(d)
<1>1. Layout /\ u \in Nodes /\ v \in Nodes /\ Joined(v, u)
  BY JoinedFacts DEF FabricInv
<1>2. SUFFICES ASSUME v # host_at(d) PROVE FALSE
  OBVIOUS
<1> DEFINE q == r - 1
<1>3. r \in Nat /\ q \in Nat /\ LinksAway(d, v, q)
  BY DEF LinksAway
<1>4. q # 0
  BY <1>1, <1>2, <1>3, ApartFacts
<1> HIDE DEF q
<1>5. PICK x : Joined(v, x) /\ Nearer(d, x, v)
  BY <1>1, <1>3, <1>4, ApartFacts
<1>6. x = u
  BY <1>1, <1>5, OneNeighbour
<1>7. LinksAway(d, u, q - 1)
  BY <1>1, <1>3, <1>5, <1>6, ApartFacts
<1>8. q - 1 = r
  BY <1>1, <1>7, ApartFacts
<1> QED BY <1>3, <1>8 DEF q

LEMMA Lands ==
  ASSUME UNCHANGED tableVars, pc = "done", NEW v \in Nodes,
         NEW s \in 0 .. host_count - 1, NEW d \in 0 .. host_count - 1, NEW n \in Nat, NEW r,
         at' = {v}, hops' = n, src' = s, dst' = d, is_host(v) => v = host_at(d),
         LinksAway(d, v, r), LinksAway(d, host_at(s), n + r)
  PROVE  TripInv'
<1>1. /\ host_count' = host_count /\ Nodes' = Nodes /\ plan' = plan /\ pc' = pc
      /\ (\A k : host_at(k)' = host_at(k)) /\ (\A u : is_host(u)' = is_host(u))
  BY SameFabric DEF tableVars
<1>2. \A k, u, q : LinksAway(k, u, q)' <=> LinksAway(k, u, q)
  BY <1>1 DEF LinksAway
<1>3. \A k : host_at(k)' = host_at(k)
  BY <1>1
<1>4. LinksAway(dst, v, r)'
  BY <1>1, <1>3 DEF LinksAway
<1>5. LinksAway(dst, host_at(src), hops + r)'
  <2>1. host_at(src)' = host_at(s)
    BY <1>1 DEF host_at, hosts
  <2>2. host_at(dst)' = host_at(d)
    BY <1>1 DEF host_at, hosts
  <2> QED BY <1>1, <2>1, <2>2 DEF LinksAway
<1>6. (is_host(v) => v = host_at(dst))'
  <2>1. host_at(dst)' = host_at(d)
    BY <1>1 DEF host_at, hosts
  <2> QED BY <1>1, <2>1
<1>7. at' # {} /\ \A u \in at' : u = v
  OBVIOUS
<1> QED BY <1>1, <1>4, <1>5, <1>6, <1>7 DEF TripInv

LEMMA SendTrips ==
  ASSUME TableInv, WellWired, TripInv, NEW s \in 0 .. host_count - 1,
         NEW d \in 0 .. host_count - 1, Send(s, d)
  PROVE  TripInv'
<1> DEFINE x == host_at(s)
           v == peer(ports_of(x)[1])
<1>1. /\ pc = "done" /\ at = {} /\ s # d /\ src' = s /\ dst' = d
      /\ at' = {v} /\ hops' = hops + 1 /\ UNCHANGED tableVars
  BY DEF Send, Cross, nic
<1>2. FabricInv /\ Built /\ Layout /\ hops = 0
  BY <1>1 DEF TableInv, SearchInv, FabricInv, TripInv
<1>3. x \in Nodes /\ is_host(x) /\ x # host_at(d)
  BY <1>1, <1>2, HostAt
<1> HIDE DEF x, v
<1>4. PICK r : LinksAway(d, x, r)
  <2>1. PICK q \in Nat : x \in Ball(host_at(d), q)
    BY DEF WellWired, x
  <2>2. x \in Within(plan, host_at(d), q)
    BY <2>1, BallIs
  <2> QED BY <1>2, <2>2, ApartFacts
<1>5. r # 0 /\ r \in Nat
  BY <1>2, <1>3, <1>4, ApartFacts DEF LinksAway
<1>6. PICK y : Joined(x, y) /\ Nearer(d, y, x)
  BY <1>2, <1>4, <1>5, ApartFacts
<1>7. y = v
  BY <1>2, <1>3, <1>6, OneNeighbour DEF v
<1>8. Joined(x, y) /\ LinksAway(d, y, r - 1)
  BY <1>2, <1>4, <1>6, ApartFacts
<1>9. y \in Nodes /\ (is_host(y) => y = host_at(d))
  BY <1>2, <1>4, <1>8, HostEnds, JoinedFacts
<1>10. hops' = 1 /\ 1 + (r - 1) = r
  BY <1>1, <1>2, <1>5
<1>11. LinksAway(d, host_at(s), 1 + (r - 1))
  BY <1>4, <1>10 DEF x
<1> QED BY <1>1, <1>7, <1>8, <1>9, <1>10, <1>11, Lands

LEMMA ForwardTrips ==
  ASSUME TableInv, WellWired, TripInv, Forward
  PROVE  TripInv'
<1>1. PICK u \in at, p \in DOMAIN ports :
        /\ p \in ToSet(candidates(u, dst)) /\ at' = {peer(p)} /\ hops' = hops + 1
        /\ UNCHANGED tableVars /\ src' = src /\ dst' = dst
  BY DEF Forward, Cross
<1>2. /\ pc = "done" /\ u \in Nodes /\ hops \in Nat
      /\ src \in 0 .. host_count - 1 /\ dst \in 0 .. host_count - 1
  BY DEF TripInv
<1>3. FabricInv /\ SearchInv /\ CellsInv /\ PackInv /\ Built /\ Layout
  BY <1>2 DEF TableInv, SearchInv, FabricInv
<1>4. PICK r : LinksAway(dst, u, r) /\ LinksAway(dst, host_at(src), hops + r)
  BY DEF TripInv
<1>5. PICK v : v = peer(p)
  OBVIOUS
<1>6. Joined(u, v) /\ Nearer(dst, v, u)
  <2>1. candidates(u, dst) = Those(ports_of(u), Closer(u, dst)) /\ ports_of(u) \in Seq(Nat)
    BY <1>2, <1>3, CandidatesAre, PortsReach
  <2>2. p \in Closer(u, dst)
    <3>1. PICK i \in DOMAIN candidates(u, dst) : p = candidates(u, dst)[i]
      BY <1>1 DEF ToSet
    <3> QED BY <2>1, <3>1, ThoseFacts DEF Selected
  <2>3. PICK i \in DOMAIN ports_of(u) : p = ports_of(u)[i]
    BY <2>2 DEF Closer, ToSet
  <2>4. Joined(u, peer(p))
    BY <1>2, <1>3, <2>3, PortsReach
  <2> QED BY <1>5, <2>2, <2>4 DEF Closer
<1>7. r # 0 /\ LinksAway(dst, v, r - 1) /\ r \in Nat
  BY <1>2, <1>3, <1>4, <1>6, ApartFacts DEF LinksAway
<1>8. v \in Nodes /\ (is_host(v) => v = host_at(dst))
  BY <1>2, <1>3, <1>4, <1>6, <1>7, HostEnds, JoinedFacts
<1>9. PICK s, d, n, q : s = src /\ d = dst /\ n = hops + 1 /\ q = r - 1
  OBVIOUS
<1>10. n \in Nat /\ n + q = hops + r
  BY <1>2, <1>7, <1>9
<1>11. LinksAway(d, v, q) /\ LinksAway(d, host_at(s), n + q)
  BY <1>4, <1>7, <1>9, <1>10
<1>12. /\ s \in 0 .. host_count - 1 /\ d \in 0 .. host_count - 1
       /\ at' = {v} /\ hops' = n /\ src' = s /\ dst' = d
       /\ is_host(v) => v = host_at(d)
  BY <1>1, <1>2, <1>5, <1>8, <1>9
<1> QED BY <1>1, <1>2, <1>8, <1>10, <1>11, <1>12, Lands

LEMMA StepTrips ==
  TableInv /\ (WellWired => TripInv) /\ [Next]_vars => (WellWired => TripInv)'
<1> SUFFICES ASSUME TableInv, WellWired => TripInv, [Next]_vars, WellWired'
             PROVE  TripInv'
  OBVIOUS
<1>1. plan' = plan
  BY DEF Next, TableNext, Build, Materialise, Search, Look, NextNode, Level, Collect, Pack,
         Send, Forward, Arrive, vars, tableVars, fabric
<1>2. WellWired
  <2>1. host_count' = host_count /\ \A k : host_at(k)' = host_at(k)
    BY <1>1 DEF host_count, host_at, hosts
  <2>2. \A s, r : Ball(s, r)' = Ball(s, r)
    BY <1>1 DEF Ball
  <2>3. LinksOf(plan)' = LinksOf(plan)
    BY <1>1 DEF LinksOf
  <2>4. /\ \A k \in 0 .. host_count - 1 : \E v : \A y : Joined(host_at(k), y) <=> y = v
        /\ \A k, d \in 0 .. host_count - 1 : \E r \in Nat : host_at(k) \in Ball(host_at(d), r)
    <3>1. ASSUME NEW k \in 0 .. host_count - 1
          PROVE  \E v : \A y : Joined(host_at(k), y) <=> y = v
      <4>1. PICK v : \A y : <<host_at(k)', y>> \in LinksOf(plan)' <=> y = v
        BY <2>1 DEF WellWired, Joined
      <4>2. host_at(k)' = host_at(k)
        BY <2>1
      <4>3. \A y : <<host_at(k), y>> \in LinksOf(plan) <=> y = v
        BY <2>3, <4>1, <4>2
      <4>4. \A y : Joined(host_at(k), y) <=> y = v
        BY <4>3 DEF Joined
      <4> QED BY <4>4
    <3>2. ASSUME NEW k \in 0 .. host_count - 1, NEW d \in 0 .. host_count - 1
          PROVE  \E r \in Nat : host_at(k) \in Ball(host_at(d), r)
      <4>1. PICK r \in Nat : (host_at(k) \in Ball(host_at(d), r))'
        BY <2>1 DEF WellWired
      <4>2. host_at(k) \in Ball(host_at(d), r)
        BY <1>1, <4>1 DEF Ball, host_at, hosts
      <4> QED BY <4>2
    <3> QED BY <3>1, <3>2
  <2> QED BY <2>4 DEF WellWired
<1>3. TripInv
  BY <1>2
<1>4. CASE \E s, d \in 0 .. host_count - 1 : Send(s, d)
  BY <1>2, <1>3, <1>4, SendTrips
<1>5. CASE Forward
  BY <1>2, <1>3, <1>5, ForwardTrips
<1>6. CASE Arrive
  BY <1>6 DEF Arrive, TripInv
<1>7. CASE UNCHANGED trip /\ at = {}
  BY <1>3, <1>7 DEF trip, TripInv
<1>8. CASE (TableNext \/ UNCHANGED tableVars) /\ UNCHANGED trip /\ at # {}
  <2>1. pc = "done" /\ Built
    BY <1>3, <1>8 DEF TripInv, TableInv, SearchInv
  <2>2. ~TableNext
    <3>1. ~Build
      <4>1. Len(plan.edges) \in Nat /\ made \in Nat /\ made = Len(plan.edges)
        BY <2>1, LayoutFacts DEF TableInv, FabricInv, Links, Built
      <4> QED BY <4>1 DEF Build, Materialise
    <3> QED BY <2>1, <3>1 DEF TableNext, Search, Look, NextNode, Level, Collect, Pack
  <2>3. UNCHANGED tableVars
    BY <1>8, <2>2
  <2>4. /\ host_count' = host_count /\ Nodes' = Nodes /\ plan' = plan /\ pc' = pc
        /\ at' = at /\ src' = src /\ dst' = dst /\ hops' = hops
        /\ (\A u : is_host(u)' = is_host(u))
    BY <1>8, <2>3, SameFabric DEF tableVars, trip
  <2>5. host_at(src)' = host_at(src) /\ host_at(dst)' = host_at(dst)
    BY <2>4 DEF host_at, hosts
  <2>6. /\ \A u, r : LinksAway(dst, u, r)' <=> LinksAway(dst, u, r)
        /\ \A r : LinksAway(dst, host_at(src), hops + r)' <=> LinksAway(dst, host_at(src), hops + r)
    BY <2>4, <2>5 DEF LinksAway
  <2> QED BY <1>3, <2>4, <2>5, <2>6 DEF TripInv
<1> QED BY <1>4, <1>5, <1>6, <1>7, <1>8 DEF Next, vars

LEMMA TripsHold == Spec => [](WellWired => TripInv)
<1>1. Init => (WellWired => TripInv)
  BY DEF Init, TripInv
<1>2. TableInv /\ (WellWired => TripInv) /\ [Next]_vars => (WellWired => TripInv)'
  BY StepTrips
<1> QED BY <1>1, <1>2, TableHolds, PTL DEF Spec

(* What a switch does in Simulation::on_arrive keeps every trip a shortest *)
(* one: the links crossed and those still to go add up to the distance     *)
(* between the two hosts, so a packet comes one link closer at every hop   *)
(* and none circles, whichever candidate each policy picks.                *)
THEOREM TripsAreShortest ==
  Spec => [](WellWired => \A u \in at :
               \E r \in Nat : /\ Apart(plan, host_at(dst), u, r)
                             /\ Apart(plan, host_at(dst), host_at(src), hops + r))
<1>1. ASSUME TripInv, NEW u \in at
      PROVE  \E r \in Nat : /\ Apart(plan, host_at(dst), u, r)
                            /\ Apart(plan, host_at(dst), host_at(src), hops + r)
  BY <1>1 DEF TripInv, LinksAway
<1>2. (WellWired => TripInv) =>
        (WellWired => \A u \in at :
           \E r \in Nat : /\ Apart(plan, host_at(dst), u, r)
                         /\ Apart(plan, host_at(dst), host_at(src), hops + r))
  BY <1>1
<1> QED BY <1>2, TripsHold, PTL

(* NeverStrays, for every blueprint whose hosts have one port and can be   *)
(* reached: the assertions of Simulation::on_arrive hold, whatever switch  *)
(* picks whatever candidate.                                               *)
THEOREM NoPacketStrays == Spec => [](WellWired => NeverStrays)
<1>1. ASSUME TableInv, WellWired, TripInv
      PROVE  NeverStrays
  <2> SUFFICES ASSUME NEW u \in at, ~is_host(u)
               PROVE  candidates(u, dst) # <<>>
    BY <1>1 DEF TripInv, NeverStrays
  <2>1. /\ pc = "done" /\ u \in Nodes /\ dst \in 0 .. host_count - 1
    BY <1>1 DEF TripInv
  <2>2. FabricInv /\ SearchInv /\ CellsInv /\ PackInv /\ Built /\ Layout
    BY <1>1, <2>1 DEF TableInv, SearchInv, FabricInv
  <2>3. PICK r : LinksAway(dst, u, r)
    BY <1>1 DEF TripInv
  <2>4. r # 0
    <3>1. is_host(host_at(dst))
      BY <2>1, <2>2, HostAt
    <3> QED BY <2>1, <2>2, <2>3, <3>1, ApartFacts
  <2>5. PICK v : Joined(u, v) /\ Nearer(dst, v, u)
    BY <2>1, <2>2, <2>3, <2>4, ApartFacts
  <2> DEFINE R == ports_of(u)
             C == candidates(u, dst)
  <2>6. C = Those(R, Closer(u, dst)) /\ R \in Seq(Nat) /\ DOMAIN R = 1 .. port_count[u]
    BY <2>1, <2>2, CandidatesAre, PortsReach
  <2>7. PICK i \in 1 .. port_count[u] : peer(R[i]) = v
    BY <2>1, <2>2, <2>5, PortsReach
  <2>8. R[i] \in Closer(u, dst)
    <3>1. i \in DOMAIN R /\ Nearer(dst, peer(R[i]), u)
      BY <2>5, <2>6, <2>7
    <3> QED BY <3>1 DEF Closer, ToSet
  <2>9. i \in 1 .. Len(R)
    <3>1. i \in DOMAIN R /\ R \in Seq(Nat)
      BY <2>6
    <3> HIDE DEF R
    <3> QED BY <3>1, LenProperties
  <2> HIDE DEF C, R
  <2>10. PICK j \in DOMAIN C : C[j] = R[i]
    <3>1. Selected(R, Closer(u, dst), Len(R), C)
      BY <2>6, ThoseFacts
    <3> QED BY <2>8, <2>9, <3>1 DEF Selected
  <2> QED BY <2>10 DEF C
<1>2. TableInv /\ (WellWired => TripInv) => (WellWired => NeverStrays)
  BY <1>1
<1> QED BY <1>2, TableHolds, TripsHold, PTL

-----------------------------------------------------------------------------
(* What the loops of the topologies build: switches, then hosts, and a set *)
(* of links.                                                               *)

Link == Nat \X Nat

Record == [is_host : Seq(BOOLEAN), edges : Seq(Link)]

(* The first S nodes are switches, the next n hosts.                       *)
Nodal(s, S, n) == Len(s) = S + n /\ \A i \in 1 .. S + n : s[i] <=> i > S

Made(S, n, L) == {b \in Record : Nodal(b.is_host, S, n) /\ ToSet(b.edges) = L}

LEMMA BlankMade == Blank \in Made(0, 0, {})
<1>1. ToSet(<<>>) = {}
  BY DEF ToSet
<1> QED BY <1>1 DEF Made, Blank, Record, Nodal

LEMMA AppendToSet ==
  ASSUME NEW T, NEW s \in Seq(T), NEW x \in T
  PROVE  Append(s, x) \in Seq(T) /\ ToSet(Append(s, x)) = ToSet(s) \cup {x}
<1>1. PICK r : r = Append(s, x)
  OBVIOUS
<1>2. /\ r \in Seq(T) /\ Len(r) = Len(s) + 1 /\ Len(s) \in Nat
      /\ \A i \in 1 .. Len(s) : r[i] = s[i]
      /\ r[Len(s) + 1] = x
  BY <1>1, AppendProperties
<1>3. DOMAIN r = 1 .. Len(s) + 1 /\ DOMAIN s = 1 .. Len(s)
  BY <1>2
<1>4. \A y : (\E i \in 1 .. Len(s) + 1 : r[i] = y) <=> y = x \/ \E i \in 1 .. Len(s) : s[i] = y
  <2>1. \A i \in 1 .. Len(s) + 1 : i = Len(s) + 1 \/ i \in 1 .. Len(s)
    BY <1>2
  <2>2. Len(s) + 1 \in 1 .. Len(s) + 1 /\ \A i \in 1 .. Len(s) : i \in 1 .. Len(s) + 1
    BY <1>2
  <2> QED BY <1>2, <2>1, <2>2
<1>5. \A y : y \in ToSet(r) <=> y \in ToSet(s) \cup {x}
  BY <1>3, <1>4 DEF ToSet
<1> QED BY <1>1, <1>2, <1>5

LEMMA MakesLink ==
  ASSUME NEW S, NEW n, NEW L, NEW b \in Made(S, n, L), NEW x \in Nat, NEW y \in Nat
  PROVE  connect(b, x, y) \in Made(S, n, L \cup {<<x, y>>})
<1>1. b \in Record /\ Nodal(b.is_host, S, n) /\ ToSet(b.edges) = L
  BY DEF Made
<1>2. PICK e, l : e = b.edges /\ l = <<x, y>>
  OBVIOUS
<1>3. e \in Seq(Link) /\ l \in Link /\ b.is_host \in Seq(BOOLEAN)
  BY <1>1, <1>2 DEF Record, Link
<1>4. Append(e, l) \in Seq(Link) /\ ToSet(Append(e, l)) = L \cup {l}
  <2>1. Append(e, l) \in Seq(Link) /\ ToSet(Append(e, l)) = ToSet(e) \cup {l}
    BY ONLY <1>3, AppendToSet, SMT
  <2>2. ToSet(e) = L
    BY ONLY <1>1, <1>2, Zenon
  <2> QED BY ONLY <2>1, <2>2, Zenon
<1>5. PICK r : r = Append(e, l)
  OBVIOUS
<1>6. connect(b, x, y) = [b EXCEPT !.edges = r]
  BY <1>2, <1>5 DEF connect
<1>7. [b EXCEPT !.edges = r] \in Record /\ [b EXCEPT !.edges = r].is_host = b.is_host
      /\ [b EXCEPT !.edges = r].edges = r
  BY <1>1, <1>4, <1>5 DEF Record
<1> QED BY <1>1, <1>2, <1>4, <1>5, <1>6, <1>7 DEF Made

LEMMA NodalGrows ==
  ASSUME NEW S \in Nat, NEW n \in Nat, NEW s \in Seq(BOOLEAN), NEW x \in BOOLEAN,
         Nodal(s, S, n), ~x => n = 0
  PROVE  /\ Append(s, x) \in Seq(BOOLEAN)
         /\ x => Nodal(Append(s, x), S, n + 1)
         /\ ~x => Nodal(Append(s, x), S + 1, 0)
<1>1. PICK r : r = Append(s, x)
  OBVIOUS
<1>2. PICK m : m = S + n
  OBVIOUS
<1>3. m \in Nat /\ m + 1 > S /\ Len(s) = m /\ \A i \in 1 .. m : s[i] <=> i > S
  BY <1>2 DEF Nodal
<1>4. r \in Seq(BOOLEAN) /\ Len(r) = m + 1 /\ r[m + 1] = x /\ \A i \in 1 .. m : r[i] = s[i]
  BY <1>1, <1>3, AppendProperties
<1>5. \A i \in 1 .. m + 1 : i \in 1 .. m \/ i = m + 1
  BY <1>3
<1>6. CASE x
  <2>1. S + (n + 1) = m + 1
    BY <1>2
  <2>2. \A i \in 1 .. m + 1 : r[i] <=> i > S
    BY <1>3, <1>4, <1>5, <1>6
  <2> QED BY <1>1, <1>4, <1>6, <2>1, <2>2 DEF Nodal
<1>7. CASE ~x
  <2>1. (S + 1) + 0 = m + 1 /\ m = S
    BY <1>2, <1>7
  <2>2. \A i \in 1 .. m : ~(i > S) /\ ~s[i] /\ ~r[i]
    BY <1>3, <1>4, <2>1
  <2>3. \A i \in 1 .. m + 1 : ~(i > S + 1)
    BY <2>1
  <2>4. \A i \in 1 .. m + 1 : ~r[i]
    BY <1>4, <1>5, <1>7, <2>2
  <2> QED BY <1>1, <1>4, <1>7, <2>1, <2>3, <2>4 DEF Nodal
<1> QED BY <1>6, <1>7

LEMMA MakesNode ==
  ASSUME NEW S \in Nat, NEW n \in Nat, NEW L, NEW b \in Made(S, n, L)
  PROVE  /\ n = 0 => add_switch(b) \in Made(S + 1, 0, L)
         /\ add_host(b) \in Made(S, n + 1, L)
         /\ Size(b) = S + n
<1>1. b \in Record /\ Nodal(b.is_host, S, n) /\ ToSet(b.edges) = L /\ b.is_host \in Seq(BOOLEAN)
  BY DEF Made, Record
<1>2. ASSUME NEW r \in Seq(BOOLEAN)
      PROVE  /\ [b EXCEPT !.is_host = r] \in Record /\ [b EXCEPT !.is_host = r].is_host = r
             /\ [b EXCEPT !.is_host = r].edges = b.edges
  BY <1>1 DEF Record
<1>3. ASSUME NEW m, NEW q, NEW r \in Seq(BOOLEAN), Nodal(r, m, q)
      PROVE  [b EXCEPT !.is_host = r] \in Made(m, q, L)
  BY <1>1, <1>2, <1>3 DEF Made
<1>4. n = 0 => add_switch(b) \in Made(S + 1, 0, L)
  <2>1. PICK r : r = Append(b.is_host, FALSE)
    OBVIOUS
  <2>2. n = 0 => r \in Seq(BOOLEAN) /\ Nodal(r, S + 1, 0)
    BY <1>1, <2>1, NodalGrows
  <2> QED BY <1>3, <2>1, <2>2 DEF add_switch
<1>5. add_host(b) \in Made(S, n + 1, L)
  <2>1. PICK r : r = Append(b.is_host, TRUE)
    OBVIOUS
  <2>2. r \in Seq(BOOLEAN) /\ Nodal(r, S, n + 1)
    BY <1>1, <2>1, NodalGrows
  <2> QED BY <1>3, <2>1, <2>2 DEF add_host
<1> QED BY <1>1, <1>4, <1>5 DEF Nodal, Size

(* A loop keeps what every turn of it keeps.                               *)
LEMMA LoopKeeps ==
  ASSUME NEW loop, NEW x, NEW w, NEW N \in Nat, NEW t, IsLoop(loop, x, w, N, t),
         NEW I, w \in I[0],
         \A n \in Nat : \A v \in I[n] : n < N => Turn(loop, x, v, n + 1) \in I[n + 1]
  PROVE  t[N] \in I[N]
<1> DEFINE K == {n \in Nat : n <= N => t[n] \in I[n]}
<1>1. \A n \in 0 .. N : t[n] = IF n = 0 THEN w ELSE Turn(loop, x, t[n - 1], n)
  BY DEF IsLoop
<1>2. 0 \in K
  BY <1>1
<1>3. ASSUME NEW n \in Nat, n \in K PROVE n + 1 \in K
  <2>1. SUFFICES ASSUME n + 1 <= N PROVE t[n + 1] \in I[n + 1]
    OBVIOUS
  <2>2. n + 1 \in 0 .. N /\ n + 1 # 0 /\ n + 1 - 1 = n /\ n <= N /\ n < N
    BY <2>1
  <2>3. t[n] \in I[n]
    BY <1>3, <2>2
  <2>4. t[n + 1] = Turn(loop, x, t[n], n + 1)
    BY <1>1, <2>2
  <2> QED BY <2>2, <2>3, <2>4
<1> HIDE DEF K
<1>4. N \in K
  BY <1>2, <1>3, Induction
<1> QED BY <1>4 DEF K


Images(g, n) == {g[j] : j \in 0 .. n - 1}

Unions(g, n) == UNION {g[j] : j \in 0 .. n - 1}

LEMMA Grows ==
  ASSUME NEW g
  PROVE  /\ Images(g, 0) = {} /\ Unions(g, 0) = {}
         /\ \A i \in Nat : \A L :
              /\ (L \cup Images(g, i)) \cup {g[i]} = L \cup Images(g, i + 1)
              /\ (L \cup Unions(g, i)) \cup g[i] = L \cup Unions(g, i + 1)
<1>1. ASSUME NEW j PROVE j \notin 0 .. 0 - 1
  OBVIOUS
<1>2. ASSUME NEW i \in Nat, NEW j PROVE j \in 0 .. i + 1 - 1 <=> j \in 0 .. i - 1 \/ j = i
  OBVIOUS
<1> QED BY <1>1, <1>2 DEF Images, Unions

UpLink(k, pod, a) == [j \in Nat |-> <<fat_tree_agg(k, pod, a), fat_tree_core(k, a, j)>>]

DownLink(k, pod, a) == [e \in Nat |-> <<fat_tree_agg(k, pod, a), fat_tree_edge(k, pod, e)>>]

Ladders(k, pod) == [a \in Nat |-> Images(UpLink(k, pod, a), k \div 2)
                                    \cup Images(DownLink(k, pod, a), k \div 2)]

Pods(k) == [pod \in Nat |-> Unions(Ladders(k, pod), k \div 2)]

HostLink(k) == [n \in Nat |-> <<fat_tree_switch_count(k) + n, EdgeOf(k, n)>>]

MeshLink(spines, i) == [s \in Nat |-> <<spines + i, s>>]

Meshes(spines) == [i \in Nat |-> Images(MeshLink(spines, i), spines)]

LeafLink(S, n, leaf) == [j \in Nat |-> <<S + (n + j), leaf>>]

Leaves(spines, S, hosts_per_leaf) ==
  [i \in Nat |-> Images(LeafLink(S, i * hosts_per_leaf, spines + i), hosts_per_leaf)]

IsArity(k) == k \in Nat /\ k >= 2 /\ k % 2 = 0

LEMMA NumberTypes ==
  ASSUME NEW k, IsArity(k)
  PROVE  /\ k \in Nat /\ k \div 2 \in Nat \ {0}
         /\ fat_tree_host_count(k) \in Nat /\ fat_tree_core_count(k) \in Nat
         /\ fat_tree_switch_count(k) \in Nat
         /\ \A pod, a \in Nat : fat_tree_agg(k, pod, a) \in Nat
         /\ \A pod, e \in Nat : fat_tree_edge(k, pod, e) \in Nat
         /\ \A i, j \in Nat : fat_tree_core(k, i, j) \in Nat
         /\ \A n \in Nat : EdgeOf(k, n) \in Nat /\ fat_tree_switch_count(k) + n \in Nat
<1>1. k \in Nat /\ k \div 2 \in Nat \ {0}
  BY DEF IsArity
<1> DEFINE half == k \div 2
<1>2. PICK c, d, e : c = k * k /\ d = k * k * k /\ e = 5 * k * k
  OBVIOUS
<1>3. c \in Nat /\ d \in Nat /\ e \in Nat
  BY <1>1, <1>2
<1>4. c \div 4 \in Nat /\ d \div 4 \in Nat /\ e \div 4 \in Nat
  BY <1>3
<1>5. /\ fat_tree_host_count(k) \in Nat /\ fat_tree_core_count(k) \in Nat
      /\ fat_tree_switch_count(k) \in Nat
  BY <1>2, <1>4 DEF fat_tree_host_count, fat_tree_core_count, fat_tree_switch_count
<1>6. \A i, j \in Nat : i * j \in Nat
  OBVIOUS
<1> HIDE DEF half
<1>7. \A pod, a \in Nat : fat_tree_agg(k, pod, a) \in Nat
  BY <1>1, <1>5, <1>6 DEF fat_tree_agg
<1>8. \A pod, a \in Nat : fat_tree_edge(k, pod, a) \in Nat
  BY <1>1, <1>5, <1>6 DEF fat_tree_edge
<1>9. \A i, j \in Nat : fat_tree_core(k, i, j) \in Nat
  BY <1>1, <1>6 DEF fat_tree_core
<1>10. ASSUME NEW n \in Nat PROVE EdgeOf(k, n) \in Nat
  <2>1. c \div 4 # 0
    BY <1>1, <1>2
  <2>2. n \div (c \div 4) \in Nat
    BY <1>4, <2>1
  <2>3. PICK m : m = k \div 2
    OBVIOUS
  <2>4. (n \div m) % m \in Nat
    BY <1>1, <2>3
  <2> QED BY <1>2, <1>8, <2>2, <2>3, <2>4
          DEF EdgeOf, fat_tree_pod_of_host, fat_tree_hosts_per_pod
<1>11. \A n \in Nat : fat_tree_switch_count(k) + n \in Nat
  <2>1. PICK m : m = fat_tree_switch_count(k)
    OBVIOUS
  <2> QED BY <1>5, <2>1
<1> QED BY <1>1, <1>5, <1>7, <1>8, <1>9, <1>10, <1>11

LEMMA SwitchesMade ==
  ASSUME NEW N \in Nat, NEW b \in Made(0, 0, {})
  PROVE  AddSwitches(N, b) \in Made(N, 0, {})
<1> DEFINE m == N
           x == 0
           P(t) == t = [i \in 0 .. m |-> IF i = 0 THEN b ELSE add_switch(t[i - 1])]
           c == CHOOSE t : P(t)
           I == [i \in Nat |-> Made(i, 0, {})]
<1>1. AddSwitches(N, b) = c[m]
  BY DEF AddSwitches, For
<1>2. m \in Nat
  OBVIOUS
<1>3. \A t : P(t) <=> IsLoop("switches", x, b, m, t)
  BY DEF IsLoop, Turn
<1>4. b \in I[0]
  OBVIOUS
<1>5. ASSUME NEW i \in Nat, NEW v \in I[i], i < m
      PROVE  Turn("switches", x, v, i + 1) \in I[i + 1]
  BY <1>5, MakesNode DEF Turn
<1>6. I[m] = Made(N, 0, {})
  BY <1>2
<1> HIDE DEF P, I, m, x
<1>7. IsLoop("switches", x, b, m, c)
  BY <1>2, <1>3, LoopExists
<1> HIDE DEF c
<1>8. c[m] \in I[m]
  BY <1>2, <1>4, <1>5, <1>7, LoopKeeps
<1> QED BY <1>1, <1>6, <1>8

LEMMA HostsMade ==
  ASSUME NEW N \in Nat, NEW S \in Nat, NEW b \in Made(S, 0, {})
  PROVE  AddHosts(N, b) \in Made(S, N, {})
<1> DEFINE m == N
           x == 0
           P(t) == t = [i \in 0 .. m |-> IF i = 0 THEN b ELSE add_host(t[i - 1])]
           c == CHOOSE t : P(t)
           I == [i \in Nat |-> Made(S, i, {})]
<1>1. AddHosts(N, b) = c[m]
  BY DEF AddHosts, For
<1>2. m \in Nat
  OBVIOUS
<1>3. \A t : P(t) <=> IsLoop("hosts", x, b, m, t)
  BY DEF IsLoop, Turn
<1>4. b \in I[0]
  OBVIOUS
<1>5. ASSUME NEW i \in Nat, NEW v \in I[i], i < m
      PROVE  Turn("hosts", x, v, i + 1) \in I[i + 1]
  BY <1>5, MakesNode DEF Turn
<1>6. I[m] = Made(S, N, {})
  BY <1>2
<1> HIDE DEF P, I, m, x
<1>7. IsLoop("hosts", x, b, m, c)
  BY <1>2, <1>3, LoopExists
<1> HIDE DEF c
<1>8. c[m] \in I[m]
  BY <1>2, <1>4, <1>5, <1>7, LoopKeeps
<1> QED BY <1>1, <1>6, <1>8

LEMMA UpMade ==
  ASSUME NEW k, IsArity(k), NEW pod \in Nat, NEW a \in Nat, NEW S, NEW n, NEW L, NEW b \in Made(S, n, L)
  PROVE  UpFor(k, pod, a, b) \in Made(S, n, L \cup Images(UpLink(k, pod, a), k \div 2))
<1> DEFINE m == k \div 2
           x == <<k, pod, a>>
           P(t) == t = [i \in 0 .. m |-> IF i = 0 THEN b ELSE connect(t[i - 1], fat_tree_agg(k, pod, a), fat_tree_core(k, a, i - 1))]
           c == CHOOSE t : P(t)
           I == [i \in Nat |-> Made(S, n, L \cup Images(UpLink(k, pod, a), i))]
<1>1. UpFor(k, pod, a, b) = c[m]
  BY DEF UpFor, For
<1>2. m \in Nat
  BY NumberTypes
<1>3. \A t : P(t) <=> IsLoop("up", x, b, m, t)
  BY DEF IsLoop, Turn
<1>4. b \in I[0]
  BY Grows
<1>5. ASSUME NEW i \in Nat, NEW v \in I[i], i < m
      PROVE  Turn("up", x, v, i + 1) \in I[i + 1]
  <2>1. v \in Made(S, n, L \cup Images(UpLink(k, pod, a), i))
    BY <1>5
  <2>2. PICK l1, l2 : l1 = fat_tree_agg(k, pod, a) /\ l2 = fat_tree_core(k, a, i)
    OBVIOUS
  <2>3. l1 \in Nat /\ l2 \in Nat
    BY <1>5, <2>2, NumberTypes
  <2>4. UpLink(k, pod, a)[i] = <<l1, l2>>
    BY <2>2 DEF UpLink
  <2>5. Turn("up", x, v, i + 1) = connect(v, l1, l2)
    <3>1. i + 1 - 1 = i
      OBVIOUS
    <3> QED BY <2>2, <3>1 DEF Turn
  <2>6. (L \cup Images(UpLink(k, pod, a), i)) \cup {<<l1, l2>>} = L \cup Images(UpLink(k, pod, a), i + 1)
    <3>1. PICK l : l = UpLink(k, pod, a)[i]
      OBVIOUS
    <3>2. (L \cup Images(UpLink(k, pod, a), i)) \cup {l} = L \cup Images(UpLink(k, pod, a), i + 1)
      BY <1>5, <3>1, Grows
    <3> QED BY <2>4, <3>1, <3>2
  <2> QED BY <2>1, <2>3, <2>5, <2>6, MakesLink
<1>6. I[m] = Made(S, n, L \cup Images(UpLink(k, pod, a), k \div 2))
  BY <1>2
<1> HIDE DEF P, I, m, x
<1>7. IsLoop("up", x, b, m, c)
  BY <1>2, <1>3, LoopExists
<1> HIDE DEF c
<1>8. c[m] \in I[m]
  BY <1>2, <1>4, <1>5, <1>7, LoopKeeps
<1> QED BY <1>1, <1>6, <1>8

LEMMA DownMade ==
  ASSUME NEW k, IsArity(k), NEW pod \in Nat, NEW a \in Nat, NEW S, NEW n, NEW L, NEW b \in Made(S, n, L)
  PROVE  DownFor(k, pod, a, b) \in Made(S, n, L \cup Images(DownLink(k, pod, a), k \div 2))
<1> DEFINE m == k \div 2
           x == <<k, pod, a>>
           P(t) == t = [i \in 0 .. m |-> IF i = 0 THEN b ELSE connect(t[i - 1], fat_tree_agg(k, pod, a), fat_tree_edge(k, pod, i - 1))]
           c == CHOOSE t : P(t)
           I == [i \in Nat |-> Made(S, n, L \cup Images(DownLink(k, pod, a), i))]
<1>1. DownFor(k, pod, a, b) = c[m]
  BY DEF DownFor, For
<1>2. m \in Nat
  BY NumberTypes
<1>3. \A t : P(t) <=> IsLoop("down", x, b, m, t)
  BY DEF IsLoop, Turn
<1>4. b \in I[0]
  BY Grows
<1>5. ASSUME NEW i \in Nat, NEW v \in I[i], i < m
      PROVE  Turn("down", x, v, i + 1) \in I[i + 1]
  <2>1. v \in Made(S, n, L \cup Images(DownLink(k, pod, a), i))
    BY <1>5
  <2>2. PICK l1, l2 : l1 = fat_tree_agg(k, pod, a) /\ l2 = fat_tree_edge(k, pod, i)
    OBVIOUS
  <2>3. l1 \in Nat /\ l2 \in Nat
    BY <1>5, <2>2, NumberTypes
  <2>4. DownLink(k, pod, a)[i] = <<l1, l2>>
    BY <2>2 DEF DownLink
  <2>5. Turn("down", x, v, i + 1) = connect(v, l1, l2)
    <3>1. i + 1 - 1 = i
      OBVIOUS
    <3> QED BY <2>2, <3>1 DEF Turn
  <2>6. (L \cup Images(DownLink(k, pod, a), i)) \cup {<<l1, l2>>} = L \cup Images(DownLink(k, pod, a), i + 1)
    <3>1. PICK l : l = DownLink(k, pod, a)[i]
      OBVIOUS
    <3>2. (L \cup Images(DownLink(k, pod, a), i)) \cup {l} = L \cup Images(DownLink(k, pod, a), i + 1)
      BY <1>5, <3>1, Grows
    <3> QED BY <2>4, <3>1, <3>2
  <2> QED BY <2>1, <2>3, <2>5, <2>6, MakesLink
<1>6. I[m] = Made(S, n, L \cup Images(DownLink(k, pod, a), k \div 2))
  BY <1>2
<1> HIDE DEF P, I, m, x
<1>7. IsLoop("down", x, b, m, c)
  BY <1>2, <1>3, LoopExists
<1> HIDE DEF c
<1>8. c[m] \in I[m]
  BY <1>2, <1>4, <1>5, <1>7, LoopKeeps
<1> QED BY <1>1, <1>6, <1>8

LEMMA MeshMade ==
  ASSUME NEW spines \in Nat, NEW i0 \in Nat, NEW S, NEW n, NEW L, NEW b \in Made(S, n, L)
  PROVE  MeshFor(spines, i0, b) \in Made(S, n, L \cup Images(MeshLink(spines, i0), spines))
<1> DEFINE m == spines
           x == <<spines, i0>>
           P(t) == t = [i \in 0 .. m |-> IF i = 0 THEN b ELSE connect(t[i - 1], spines + i0, i - 1)]
           c == CHOOSE t : P(t)
           I == [i \in Nat |-> Made(S, n, L \cup Images(MeshLink(spines, i0), i))]
<1>1. MeshFor(spines, i0, b) = c[m]
  BY DEF MeshFor, For
<1>2. m \in Nat
  OBVIOUS
<1>3. \A t : P(t) <=> IsLoop("mesh", x, b, m, t)
  BY DEF IsLoop, Turn
<1>4. b \in I[0]
  BY Grows
<1>5. ASSUME NEW i \in Nat, NEW v \in I[i], i < m
      PROVE  Turn("mesh", x, v, i + 1) \in I[i + 1]
  <2>1. v \in Made(S, n, L \cup Images(MeshLink(spines, i0), i))
    BY <1>5
  <2>2. PICK l1, l2 : l1 = spines + i0 /\ l2 = i
    OBVIOUS
  <2>3. l1 \in Nat /\ l2 \in Nat
    BY <1>5, <2>2
  <2>4. MeshLink(spines, i0)[i] = <<l1, l2>>
    BY <2>2 DEF MeshLink
  <2>5. Turn("mesh", x, v, i + 1) = connect(v, l1, l2)
    <3>1. i + 1 - 1 = i
      OBVIOUS
    <3> QED BY <2>2, <3>1 DEF Turn
  <2>6. (L \cup Images(MeshLink(spines, i0), i)) \cup {<<l1, l2>>} = L \cup Images(MeshLink(spines, i0), i + 1)
    <3>1. PICK l : l = MeshLink(spines, i0)[i]
      OBVIOUS
    <3>2. (L \cup Images(MeshLink(spines, i0), i)) \cup {l} = L \cup Images(MeshLink(spines, i0), i + 1)
      BY <1>5, <3>1, Grows
    <3> QED BY <2>4, <3>1, <3>2
  <2> QED BY <2>1, <2>3, <2>5, <2>6, MakesLink
<1>6. I[m] = Made(S, n, L \cup Images(MeshLink(spines, i0), spines))
  BY <1>2
<1> HIDE DEF P, I, m, x
<1>7. IsLoop("mesh", x, b, m, c)
  BY <1>2, <1>3, LoopExists
<1> HIDE DEF c
<1>8. c[m] \in I[m]
  BY <1>2, <1>4, <1>5, <1>7, LoopKeeps
<1> QED BY <1>1, <1>6, <1>8

HostFor(k, b) ==
  For(fat_tree_host_count(k), LAMBDA x, j : connect(x, fat_tree_switch_count(k) + j, EdgeOf(k, j)), b)

LEMMA HostLinksMade ==
  ASSUME NEW k, IsArity(k), NEW S, NEW n, NEW L, NEW b \in Made(S, n, L)
  PROVE  HostFor(k, b) \in Made(S, n, L \cup Images(HostLink(k), fat_tree_host_count(k)))
<1> DEFINE m == fat_tree_host_count(k)
           x == k
           P(t) == t = [i \in 0 .. m |-> IF i = 0 THEN b ELSE connect(t[i - 1], fat_tree_switch_count(k) + (i - 1), EdgeOf(k, i - 1))]
           c == CHOOSE t : P(t)
           I == [i \in Nat |-> Made(S, n, L \cup Images(HostLink(k), i))]
<1>1. HostFor(k, b) = c[m]
  BY DEF HostFor, For
<1>2. m \in Nat
  BY NumberTypes
<1>3. \A t : P(t) <=> IsLoop("uplinks", x, b, m, t)
  BY DEF IsLoop, Turn
<1>4. b \in I[0]
  BY Grows
<1>5. ASSUME NEW i \in Nat, NEW v \in I[i], i < m
      PROVE  Turn("uplinks", x, v, i + 1) \in I[i + 1]
  <2>1. v \in Made(S, n, L \cup Images(HostLink(k), i))
    BY <1>5
  <2>2. PICK l1, l2 : l1 = fat_tree_switch_count(k) + i /\ l2 = EdgeOf(k, i)
    OBVIOUS
  <2>3. l1 \in Nat /\ l2 \in Nat
    BY <1>5, <2>2, NumberTypes
  <2>4. HostLink(k)[i] = <<l1, l2>>
    BY <2>2 DEF HostLink
  <2>5. Turn("uplinks", x, v, i + 1) = connect(v, l1, l2)
    <3>1. i + 1 - 1 = i
      OBVIOUS
    <3> QED BY <2>2, <3>1 DEF Turn
  <2>6. (L \cup Images(HostLink(k), i)) \cup {<<l1, l2>>} = L \cup Images(HostLink(k), i + 1)
    <3>1. PICK l : l = HostLink(k)[i]
      OBVIOUS
    <3>2. (L \cup Images(HostLink(k), i)) \cup {l} = L \cup Images(HostLink(k), i + 1)
      BY <1>5, <3>1, Grows
    <3> QED BY <2>4, <3>1, <3>2
  <2> QED BY <2>1, <2>3, <2>5, <2>6, MakesLink
<1>6. I[m] = Made(S, n, L \cup Images(HostLink(k), fat_tree_host_count(k)))
  BY <1>2
<1> HIDE DEF P, I, m, x
<1>7. IsLoop("uplinks", x, b, m, c)
  BY <1>2, <1>3, LoopExists
<1> HIDE DEF c
<1>8. c[m] \in I[m]
  BY <1>2, <1>4, <1>5, <1>7, LoopKeeps
<1> QED BY <1>1, <1>6, <1>8

LEMMA PodMade ==
  ASSUME NEW k, IsArity(k), NEW pod \in Nat, NEW S, NEW n, NEW L, NEW b \in Made(S, n, L)
  PROVE  PodFor(k, pod, b) \in Made(S, n, L \cup Unions(Ladders(k, pod), k \div 2))
<1> DEFINE m == k \div 2
           x == <<k, pod>>
           P(t) == t = [i \in 0 .. m |-> IF i = 0 THEN b ELSE DownFor(k, pod, i - 1, UpFor(k, pod, i - 1, t[i - 1]))]
           c == CHOOSE t : P(t)
           I == [i \in Nat |-> Made(S, n, L \cup Unions(Ladders(k, pod), i))]
<1>1. PodFor(k, pod, b) = c[m]
  BY DEF PodFor, For
<1>2. m \in Nat
  BY NumberTypes
<1>3. \A t : P(t) <=> IsLoop("pod", x, b, m, t)
  BY DEF IsLoop, Turn
<1>4. b \in I[0]
  BY Grows
<1>5. ASSUME NEW i \in Nat, NEW v \in I[i], i < m
      PROVE  Turn("pod", x, v, i + 1) \in I[i + 1]
  <2>1. v \in Made(S, n, L \cup Unions(Ladders(k, pod), i))
    BY <1>5
  <2>2. PICK l, M : l = Ladders(k, pod)[i] /\ M = L \cup Unions(Ladders(k, pod), i)
    OBVIOUS
  <2>3. i + 1 - 1 = i
    OBVIOUS
  <2>4. PICK u, d : /\ u = Images(UpLink(k, pod, i), k \div 2)
                    /\ d = Images(DownLink(k, pod, i), k \div 2)
    OBVIOUS
  <2>5. l = u \cup d
    BY <2>2, <2>4 DEF Ladders
  <2>6. UpFor(k, pod, i, v) \in Made(S, n, M \cup u)
    BY <2>1, <2>2, <2>4, UpMade
  <2>7. DownFor(k, pod, i, UpFor(k, pod, i, v)) \in Made(S, n, (M \cup u) \cup d)
    BY <2>4, <2>6, DownMade
  <2>8. (M \cup u) \cup d = M \cup l
    BY <2>5
  <2>9. Turn("pod", x, v, i + 1) \in Made(S, n, M \cup l)
    BY <2>3, <2>7, <2>8 DEF Turn
  <2>10. M \cup l = L \cup Unions(Ladders(k, pod), i + 1)
    BY <1>5, <2>2, Grows
  <2> QED BY <2>9, <2>10
<1>6. I[m] = Made(S, n, L \cup Unions(Ladders(k, pod), k \div 2))
  BY <1>2
<1> HIDE DEF P, I, m, x
<1>7. IsLoop("pod", x, b, m, c)
  BY <1>2, <1>3, LoopExists
<1> HIDE DEF c
<1>8. c[m] \in I[m]
  BY <1>2, <1>4, <1>5, <1>7, LoopKeeps
<1> QED BY <1>1, <1>6, <1>8

PodsFor(k, b) == For(k, LAMBDA x, pod : PodFor(k, pod, x), b)

LEMMA PodsMade ==
  ASSUME NEW k, IsArity(k), NEW S, NEW n, NEW L, NEW b \in Made(S, n, L)
  PROVE  PodsFor(k, b) \in Made(S, n, L \cup Unions(Pods(k), k))
<1> DEFINE m == k
           x == k
           P(t) == t = [i \in 0 .. m |-> IF i = 0 THEN b ELSE PodFor(k, i - 1, t[i - 1])]
           c == CHOOSE t : P(t)
           I == [i \in Nat |-> Made(S, n, L \cup Unions(Pods(k), i))]
<1>1. PodsFor(k, b) = c[m]
  BY DEF PodsFor, For
<1>2. m \in Nat
  BY NumberTypes
<1>3. \A t : P(t) <=> IsLoop("pods", x, b, m, t)
  BY DEF IsLoop, Turn
<1>4. b \in I[0]
  BY Grows
<1>5. ASSUME NEW i \in Nat, NEW v \in I[i], i < m
      PROVE  Turn("pods", x, v, i + 1) \in I[i + 1]
  <2>1. v \in Made(S, n, L \cup Unions(Pods(k), i))
    BY <1>5
  <2>2. PICK l, M : l = Pods(k)[i] /\ M = L \cup Unions(Pods(k), i)
    OBVIOUS
  <2>3. i + 1 - 1 = i
    OBVIOUS
  <2>4. l = Unions(Ladders(k, i), k \div 2)
    BY <2>2 DEF Pods
  <2>5. PodFor(k, i, v) \in Made(S, n, M \cup l)
    BY <2>1, <2>2, <2>4, PodMade
  <2>6. Turn("pods", x, v, i + 1) \in Made(S, n, M \cup l)
    BY <2>3, <2>5 DEF Turn
  <2>7. M \cup l = L \cup Unions(Pods(k), i + 1)
    BY <1>5, <2>2, Grows
  <2> QED BY <2>6, <2>7
<1>6. I[m] = Made(S, n, L \cup Unions(Pods(k), k))
  BY <1>2
<1> HIDE DEF P, I, m, x
<1>7. IsLoop("pods", x, b, m, c)
  BY <1>2, <1>3, LoopExists
<1> HIDE DEF c
<1>8. c[m] \in I[m]
  BY <1>2, <1>4, <1>5, <1>7, LoopKeeps
<1> QED BY <1>1, <1>6, <1>8

MeshesFor(spines, leaves, b) == For(leaves, LAMBDA x, i : MeshFor(spines, i, x), b)

LEMMA MeshesMade ==
  ASSUME NEW spines \in Nat, NEW leaves \in Nat, NEW S, NEW n, NEW L, NEW b \in Made(S, n, L)
  PROVE  MeshesFor(spines, leaves, b) \in Made(S, n, L \cup Unions(Meshes(spines), leaves))
<1> DEFINE m == leaves
           x == spines
           P(t) == t = [i \in 0 .. m |-> IF i = 0 THEN b ELSE MeshFor(spines, i - 1, t[i - 1])]
           c == CHOOSE t : P(t)
           I == [i \in Nat |-> Made(S, n, L \cup Unions(Meshes(spines), i))]
<1>1. MeshesFor(spines, leaves, b) = c[m]
  BY DEF MeshesFor, For
<1>2. m \in Nat
  OBVIOUS
<1>3. \A t : P(t) <=> IsLoop("meshes", x, b, m, t)
  BY DEF IsLoop, Turn
<1>4. b \in I[0]
  BY Grows
<1>5. ASSUME NEW i \in Nat, NEW v \in I[i], i < m
      PROVE  Turn("meshes", x, v, i + 1) \in I[i + 1]
  <2>1. v \in Made(S, n, L \cup Unions(Meshes(spines), i))
    BY <1>5
  <2>2. PICK l, M : l = Meshes(spines)[i] /\ M = L \cup Unions(Meshes(spines), i)
    OBVIOUS
  <2>3. i + 1 - 1 = i
    OBVIOUS
  <2>4. l = Images(MeshLink(spines, i), spines)
    BY <2>2 DEF Meshes
  <2>5. MeshFor(spines, i, v) \in Made(S, n, M \cup l)
    BY <2>1, <2>2, <2>4, MeshMade
  <2>6. Turn("meshes", x, v, i + 1) \in Made(S, n, M \cup l)
    BY <2>3, <2>5 DEF Turn
  <2>7. M \cup l = L \cup Unions(Meshes(spines), i + 1)
    BY <1>5, <2>2, Grows
  <2> QED BY <2>6, <2>7
<1>6. I[m] = Made(S, n, L \cup Unions(Meshes(spines), leaves))
  BY <1>2
<1> HIDE DEF P, I, m, x
<1>7. IsLoop("meshes", x, b, m, c)
  BY <1>2, <1>3, LoopExists
<1> HIDE DEF c
<1>8. c[m] \in I[m]
  BY <1>2, <1>4, <1>5, <1>7, LoopKeeps
<1> QED BY <1>1, <1>6, <1>8

LEMMA BelowMade ==
  ASSUME NEW spines \in Nat, NEW hosts_per_leaf \in Nat, NEW i0 \in Nat,
         NEW S \in Nat, NEW n \in Nat, NEW L, NEW b \in Made(S, n, L)
  PROVE  BelowFor(spines, hosts_per_leaf, i0, b) \in Made(S, n + hosts_per_leaf, L \cup Images(LeafLink(S, n, spines + i0), hosts_per_leaf))
<1> DEFINE m == hosts_per_leaf
           x == <<spines, i0>>
           P(t) == t = [i \in 0 .. m |-> IF i = 0 THEN b ELSE connect(add_host(t[i - 1]), Size(t[i - 1]), spines + i0)]
           c == CHOOSE t : P(t)
           I == [i \in Nat |-> Made(S, n + i, L \cup Images(LeafLink(S, n, spines + i0), i))]
<1>1. BelowFor(spines, hosts_per_leaf, i0, b) = c[m]
  BY DEF BelowFor, For
<1>2. m \in Nat
  OBVIOUS
<1>3. \A t : P(t) <=> IsLoop("below", x, b, m, t)
  BY DEF IsLoop, Turn
<1>4. b \in I[0]
  <2>1. I[0] = Made(S, n + 0, L \cup Images(LeafLink(S, n, spines + i0), 0))
    OBVIOUS
  <2>2. n + 0 = n
    OBVIOUS
  <2>3. L \cup Images(LeafLink(S, n, spines + i0), 0) = L
    BY Grows
  <2> QED BY <2>1, <2>2, <2>3
<1>5. ASSUME NEW i \in Nat, NEW v \in I[i], i < m
      PROVE  Turn("below", x, v, i + 1) \in I[i + 1]
  <2>1. v \in Made(S, n + i, L \cup Images(LeafLink(S, n, spines + i0), i))
    BY <1>5
  <2>2. PICK m0, l1, l2 : m0 = n + i /\ l1 = S + m0 /\ l2 = spines + i0
    OBVIOUS
  <2>3. m0 \in Nat /\ l1 \in Nat /\ l2 \in Nat /\ n + (i + 1) = m0 + 1
    BY <1>5, <2>2
  <2>4. Size(v) = l1 /\ add_host(v) \in Made(S, m0 + 1, L \cup Images(LeafLink(S, n, l2), i))
    BY <2>1, <2>2, <2>3, MakesNode
  <2>5. connect(add_host(v), l1, l2)
          \in Made(S, m0 + 1, (L \cup Images(LeafLink(S, n, l2), i)) \cup {<<l1, l2>>})
    BY <2>3, <2>4, MakesLink
  <2>6. Turn("below", x, v, i + 1) = connect(add_host(v), l1, l2)
    BY <2>2, <2>4 DEF Turn
  <2>7. (L \cup Images(LeafLink(S, n, l2), i)) \cup {<<l1, l2>>}
          = L \cup Images(LeafLink(S, n, l2), i + 1)
    <3>1. PICK l : l = LeafLink(S, n, l2)[i]
      OBVIOUS
    <3>2. (L \cup Images(LeafLink(S, n, l2), i)) \cup {l} = L \cup Images(LeafLink(S, n, l2), i + 1)
      BY <1>5, <3>1, Grows
    <3>3. l = <<l1, l2>>
      BY <1>5, <2>2, <3>1 DEF LeafLink
    <3> QED BY <3>2, <3>3
  <2>8. I[i + 1] = Made(S, n + (i + 1), L \cup Images(LeafLink(S, n, spines + i0), i + 1))
    BY <1>5
  <2> QED BY <2>2, <2>3, <2>5, <2>6, <2>7, <2>8
<1>6. I[m] = Made(S, n + hosts_per_leaf, L \cup Images(LeafLink(S, n, spines + i0), hosts_per_leaf))
  BY <1>2
<1> HIDE DEF P, I, m, x
<1>7. IsLoop("below", x, b, m, c)
  BY <1>2, <1>3, LoopExists
<1> HIDE DEF c
<1>8. c[m] \in I[m]
  BY <1>2, <1>4, <1>5, <1>7, LoopKeeps
<1> QED BY <1>1, <1>6, <1>8

LeavesFor(spines, leaves, hosts_per_leaf, b) ==
  For(leaves, LAMBDA x, i : BelowFor(spines, hosts_per_leaf, i, x), b)

LEMMA LeavesMade ==
  ASSUME NEW spines \in Nat, NEW leaves \in Nat, NEW hosts_per_leaf \in Nat,
         NEW S \in Nat, NEW L, NEW b \in Made(S, 0, L)
  PROVE  LeavesFor(spines, leaves, hosts_per_leaf, b) \in Made(S, leaves * hosts_per_leaf, L \cup Unions(Leaves(spines, S, hosts_per_leaf), leaves))
<1> DEFINE m == leaves
           x == <<spines, hosts_per_leaf>>
           P(t) == t = [i \in 0 .. m |-> IF i = 0 THEN b ELSE BelowFor(spines, hosts_per_leaf, i - 1, t[i - 1])]
           c == CHOOSE t : P(t)
           I == [i \in Nat |-> Made(S, i * hosts_per_leaf, L \cup Unions(Leaves(spines, S, hosts_per_leaf), i))]
<1>1. LeavesFor(spines, leaves, hosts_per_leaf, b) = c[m]
  BY DEF LeavesFor, For
<1>2. m \in Nat
  OBVIOUS
<1>3. \A t : P(t) <=> IsLoop("leaves", x, b, m, t)
  BY DEF IsLoop, Turn
<1>4. b \in I[0]
  <2>1. I[0] = Made(S, 0 * hosts_per_leaf, L \cup Unions(Leaves(spines, S, hosts_per_leaf), 0))
    OBVIOUS
  <2>2. 0 * hosts_per_leaf = 0
    OBVIOUS
  <2>3. L \cup Unions(Leaves(spines, S, hosts_per_leaf), 0) = L
    BY Grows
  <2> QED BY <2>1, <2>2, <2>3
<1>5. ASSUME NEW i \in Nat, NEW v \in I[i], i < m
      PROVE  Turn("leaves", x, v, i + 1) \in I[i + 1]
  <2>1. v \in Made(S, i * hosts_per_leaf, L \cup Unions(Leaves(spines, S, hosts_per_leaf), i))
    BY <1>5
  <2>2. PICK l, M, q : /\ l = Leaves(spines, S, hosts_per_leaf)[i] /\ q = i * hosts_per_leaf
                       /\ M = L \cup Unions(Leaves(spines, S, hosts_per_leaf), i)
    OBVIOUS
  <2>3. i + 1 - 1 = i /\ q \in Nat /\ q + hosts_per_leaf = (i + 1) * hosts_per_leaf
    BY <2>2
  <2>4. l = Images(LeafLink(S, q, spines + i), hosts_per_leaf)
    BY <2>2 DEF Leaves
  <2>5. BelowFor(spines, hosts_per_leaf, i, v) \in Made(S, q + hosts_per_leaf, M \cup l)
    BY <2>1, <2>2, <2>3, <2>4, BelowMade
  <2>6. Turn("leaves", x, v, i + 1) \in Made(S, q + hosts_per_leaf, M \cup l)
    BY <2>3, <2>5 DEF Turn
  <2>7. M \cup l = L \cup Unions(Leaves(spines, S, hosts_per_leaf), i + 1)
    BY <1>5, <2>2, Grows
  <2>8. I[i + 1] = Made(S, (i + 1) * hosts_per_leaf, L \cup Unions(Leaves(spines, S, hosts_per_leaf), i + 1))
    BY <1>5
  <2> QED BY <2>3, <2>6, <2>7, <2>8
<1>6. I[m] = Made(S, leaves * hosts_per_leaf, L \cup Unions(Leaves(spines, S, hosts_per_leaf), leaves))
  BY <1>2
<1> HIDE DEF P, I, m, x
<1>7. IsLoop("leaves", x, b, m, c)
  BY <1>2, <1>3, LoopExists
<1> HIDE DEF c
<1>8. c[m] \in I[m]
  BY <1>2, <1>4, <1>5, <1>7, LoopKeeps
<1> QED BY <1>1, <1>6, <1>8

-----------------------------------------------------------------------------
(* The two topologies                                                      *)

(* The numbers of a fat-tree of arity 2 m.                                 *)
LEMMA Half ==
  ASSUME NEW k, IsArity(k)
  PROVE  \E m \in Nat \ {0} : /\ k = 2 * m /\ k \div 2 = m
                              /\ fat_tree_core_count(k) = m * m
                              /\ fat_tree_hosts_per_pod(k) = m * m
                              /\ fat_tree_switch_count(k) = m * m + k * k
                              /\ fat_tree_core_count(k) + k * (m + m) = m * m + k * k
                              /\ fat_tree_host_count(k) = k * (m * m)
<1>1. PICK m : m = k \div 2
  OBVIOUS
<1>2. m \in Nat \ {0} /\ k = 2 * m /\ k \in Nat
  BY <1>1 DEF IsArity
<1>3. PICK c : c = m * m
  OBVIOUS
<1>4. c \in Nat /\ k * k = 4 * c /\ 5 * k * k = 4 * (5 * c) /\ k * k * k = 4 * (k * c)
  <2>1. k * k = 4 * c /\ c \in Nat
    BY <1>2, <1>3
  <2>2. 5 * k * k = 5 * (k * k)
    BY <1>2
  <2>3. k * k * k = 4 * c * k
    BY <2>1
  <2>4. 4 * c * k = 4 * (k * c)
    BY <1>2, <2>1
  <2> QED BY <2>1, <2>2, <2>3, <2>4
<1>5. \A x \in Nat : (4 * x) \div 4 = x
  OBVIOUS
<1>6. k * c \in Nat /\ 5 * c \in Nat
  BY <1>2, <1>4
<1>7. /\ (k * k) \div 4 = c /\ (5 * k * k) \div 4 = 5 * c /\ (k * k * k) \div 4 = k * c
  BY <1>4, <1>5, <1>6
<1>8. 5 * c = c + k * k /\ k * (m + m) = k * k
  BY <1>2, <1>4
<1> QED BY <1>1, <1>2, <1>3, <1>7, <1>8
        DEF fat_tree_core_count, fat_tree_hosts_per_pod, fat_tree_switch_count, fat_tree_host_count

LEMMA FatTreeMade ==
  ASSUME NEW k, IsArity(k)
  PROVE  FatTree(k) \in Made(fat_tree_switch_count(k), fat_tree_host_count(k),
                             Unions(Pods(k), k) \cup Images(HostLink(k), fat_tree_host_count(k)))
<1>1. PICK S, H, C : /\ S = fat_tree_switch_count(k) /\ H = fat_tree_host_count(k)
                     /\ C = fat_tree_core_count(k) + k * (k \div 2 + k \div 2)
  OBVIOUS
<1>2. S \in Nat /\ H \in Nat /\ C = S
  BY <1>1, Half, NumberTypes
<1>3. PICK nodes : nodes = AddHosts(H, AddSwitches(S, Blank))
  OBVIOUS
<1>4. nodes \in Made(S, H, {})
  BY <1>2, <1>3, BlankMade, SwitchesMade, HostsMade
<1>5. PICK b : b = PodsFor(k, nodes)
  OBVIOUS
<1>6. b \in Made(S, H, {} \cup Unions(Pods(k), k))
  BY <1>4, <1>5, PodsMade
<1>7. HostFor(k, b) \in Made(S, H, ({} \cup Unions(Pods(k), k)) \cup Images(HostLink(k), H))
  BY <1>1, <1>6, HostLinksMade
<1>8. FatTree(k) = HostFor(k, PodsFor(k, AddHosts(H, AddSwitches(C, Blank))))
  BY <1>1 DEF FatTree, HostFor, PodsFor, PodFor, UpFor, DownFor, EdgeOf
<1>9. ({} \cup Unions(Pods(k), k)) = Unions(Pods(k), k)
  OBVIOUS
<1> QED BY <1>1, <1>2, <1>3, <1>5, <1>7, <1>8, <1>9

LEMMA LeafSpineMade ==
  ASSUME NEW spines \in Nat, NEW leaves \in Nat, NEW hosts_per_leaf \in Nat
  PROVE  LeafSpine(spines, leaves, hosts_per_leaf)
           \in Made(spines + leaves, leaves * hosts_per_leaf,
                    Unions(Meshes(spines), leaves)
                      \cup Unions(Leaves(spines, spines + leaves, hosts_per_leaf), leaves))
<1>1. PICK S : S = spines + leaves
  OBVIOUS
<1>2. PICK nodes : nodes = AddSwitches(S, Blank)
  OBVIOUS
<1>3. S \in Nat /\ nodes \in Made(S, 0, {})
  BY <1>1, <1>2, BlankMade, SwitchesMade
<1>4. PICK b : b = MeshesFor(spines, leaves, nodes)
  OBVIOUS
<1>5. b \in Made(S, 0, {} \cup Unions(Meshes(spines), leaves))
  BY <1>3, <1>4, MeshesMade
<1>6. LeavesFor(spines, leaves, hosts_per_leaf, b)
        \in Made(S, leaves * hosts_per_leaf,
                 ({} \cup Unions(Meshes(spines), leaves))
                   \cup Unions(Leaves(spines, S, hosts_per_leaf), leaves))
  BY <1>3, <1>5, LeavesMade
<1>7. LeafSpine(spines, leaves, hosts_per_leaf)
        = LeavesFor(spines, leaves, hosts_per_leaf, MeshesFor(spines, leaves, nodes))
  BY <1>1, <1>2 DEF LeafSpine, LeavesFor, MeshesFor, MeshFor, BelowFor
<1>8. {} \cup Unions(Meshes(spines), leaves) = Unions(Meshes(spines), leaves)
  OBVIOUS
<1> QED BY <1>1, <1>4, <1>6, <1>7, <1>8

(* The hosts of such a record are its last nodes, in order.                *)
LEMMA LastNodes ==
  ASSUME NEW b, IsBlueprint(b), NEW S \in Nat, NEW n \in Nat, NEW L, b \in Made(S, n, L)
  PROVE  Len(HostsOf(b)) = n /\ \A i \in 1 .. n : HostsOf(b)[i] = S + i - 1
<1> DEFINE T == {u \in NodesOf(b) : b.is_host[u + 1]}
           seq == [i \in 1 .. Size(b) |-> i - 1]
           r(i) == ThoseAt(seq, T, i)
           Q(s, i) == /\ s \in Seq(Nat)
                      /\ (i <= S => Len(s) = 0) /\ (i > S => Len(s) = i - S)
                      /\ \A j \in 1 .. Len(s) : s[j] = S + j - 1
           I == {i \in Nat : i <= S + n => Q(r(i), i)}
<1>1. Size(b) = S + n /\ \A i \in 1 .. S + n : b.is_host[i] <=> i > S
  BY DEF Made, Nodal, Size
<1>2. /\ seq \in Seq(Nat) /\ Len(seq) = S + n
      /\ \A i \in 1 .. S + n : seq[i] = i - 1 /\ (seq[i] \in T <=> i > S)
  <2>1. \A i \in 1 .. S + n : i - 1 \in NodesOf(b) /\ i - 1 + 1 = i
    BY <1>1 DEF NodesOf
  <2>2. \A i \in 1 .. S + n : i - 1 \in T <=> i > S
    BY <1>1, <2>1
  <2> HIDE DEF T
  <2> QED BY <1>1, <2>2
<1>3. HostsOf(b) = Those(seq, T)
  BY DEF HostsOf
<1> HIDE DEF T, seq
<1>4. /\ HostsOf(b) = r(S + n) /\ r(0) = <<>>
      /\ \A i \in Nat : r(i + 1) = OneMoreOf(seq, T, i + 1, r(i))
  BY <1>2, <1>3, ThoseLoop
<1> HIDE DEF r
<1>5. Q(<<>>, 0)
  OBVIOUS
<1>6. ASSUME NEW i \in Nat, i + 1 <= S + n, NEW s, Q(s, i),
             NEW t, t = OneMoreOf(seq, T, i + 1, s)
      PROVE  Q(t, i + 1)
  <2>1. i + 1 \in 1 .. S + n /\ i + 1 - 1 = i
    BY <1>6
  <2>2. seq[i + 1] = i /\ (seq[i + 1] \in T <=> i + 1 > S)
    BY <1>2, <2>1
  <2>3. CASE i + 1 <= S
    <3>1. t = s /\ i <= S
      BY <1>6, <2>2, <2>3 DEF OneMoreOf
    <3>2. Len(t) = 0 /\ t \in Seq(Nat)
      BY <1>6, <3>1
    <3>4. i + 1 \in Nat /\ ~(i + 1 > S)
      BY <2>3
    <3>3. \A j \in 1 .. 0 : t[j] = S + j - 1
      OBVIOUS
    <3> QED BY <2>3, <3>2, <3>3, <3>4
  <2>4. CASE i + 1 > S
    <3>1. t = Append(s, i) /\ s \in Seq(Nat)
      BY <1>6, <2>2, <2>4 DEF OneMoreOf
    <3>2. PICK m : m = i - S
      OBVIOUS
    <3>3. m \in Nat /\ Len(s) = m /\ i + 1 - S = m + 1 /\ S + (m + 1) - 1 = i
      <4>1. i = S \/ i > S
        BY <2>4
      <4> QED BY <1>6, <2>4, <3>2, <4>1
    <3>4. /\ t \in Seq(Nat) /\ Len(t) = m + 1 /\ t[m + 1] = i
          /\ \A j \in 1 .. m : t[j] = s[j]
      BY <3>1, <3>3, AppendProperties
    <3>5. \A j \in 1 .. m : t[j] = S + j - 1
      BY <1>6, <3>3, <3>4
    <3>6. \A j \in 1 .. m + 1 : j \in 1 .. m \/ j = m + 1
      BY <3>3
    <3>7. \A j \in 1 .. m + 1 : t[j] = S + j - 1
      BY <3>3, <3>4, <3>5, <3>6
    <3> QED BY <2>4, <3>3, <3>4, <3>7
  <2> QED BY <2>3, <2>4
<1> HIDE DEF Q
<1>7. 0 \in I
  BY <1>4, <1>5
<1>8. ASSUME NEW i \in Nat, i \in I PROVE i + 1 \in I
  <2>1. i + 1 <= S + n => i <= S + n
    OBVIOUS
  <2>2. i + 1 <= S + n => Q(r(i + 1), i + 1)
    BY <1>4, <1>6, <1>8, <2>1
  <2> QED BY <2>2
<1> HIDE DEF I
<1>9. S + n \in I
  BY <1>7, <1>8, Induction
<1>10. PICK s, m : s = r(S + n) /\ m = S + n
  OBVIOUS
<1>11. Q(s, m) /\ m \in Nat /\ HostsOf(b) = s
  BY <1>4, <1>9, <1>10 DEF I
<1>12. Len(s) = n
  BY <1>10, <1>11 DEF Q
<1> QED BY <1>11, <1>12 DEF Q

(* A number at each node that is 0 at one host only, differs by at most 1  *)
(* across a link, and can always be lowered, is the distance from it.      *)
LEMMA Descent ==
  ASSUME Layout, NEW d \in 0 .. host_count - 1, NEW f,
         \A u \in Nodes : f[u] \in Nat /\ (f[u] = 0 <=> u = host_at(d)),
         \A u, v : Joined(u, v) => f[u] <= f[v] + 1,
         \A u \in Nodes : f[u] # 0 => \E v : Joined(u, v) /\ f[u] = f[v] + 1
  PROVE  \A u \in Nodes : LinksAway(d, u, f[u])
<1> DEFINE s == host_at(d)
           V(r) == Within(plan, s, r)
           I == {r \in Nat : \A u : u \in V(r) <=> u \in Nodes /\ f[u] <= r}
<1>1. IsBlueprint(plan) /\ s \in Nodes
  BY LayoutFacts, HostAt
<1>2. /\ \A u : u \in V(0) <=> u = s
      /\ \A r \in Nat : \A x : x \in V(r + 1) <=> x \in V(r) \/ \E y \in V(r) : Joined(x, y)
  BY <1>1, WithinStart, WithinStep DEF Joined
<1>3. \A u, v : Joined(u, v) => u \in Nodes /\ v \in Nodes
  BY JoinedFacts
<1>4. \A u \in Nodes : f[u] \in Nat /\ (f[u] = 0 <=> u = s)
  OBVIOUS
<1> HIDE DEF s, V
<1>5. 0 \in I
  BY <1>1, <1>2, <1>4
<1>6. ASSUME NEW r \in Nat, r \in I PROVE r + 1 \in I
  <2>1. \A u : u \in V(r) <=> u \in Nodes /\ f[u] <= r
    BY <1>6
  <2>2. ASSUME NEW u, u \in V(r + 1) PROVE u \in Nodes /\ f[u] <= r + 1
    <3>1. CASE u \in V(r)
      BY <1>4, <2>1, <3>1
    <3>2. CASE \E y \in V(r) : Joined(u, y)
      <4>1. PICK y \in V(r) : Joined(u, y)
        BY <3>2
      <4>2. u \in Nodes /\ y \in Nodes /\ f[y] <= r /\ f[u] <= f[y] + 1
        BY <1>3, <2>1, <4>1
      <4> QED BY <1>4, <4>2
    <3> QED BY <1>2, <2>2, <3>1, <3>2
  <2>3. ASSUME NEW u \in Nodes, f[u] <= r + 1 PROVE u \in V(r + 1)
    <3>1. CASE f[u] <= r
      BY <1>2, <2>1, <3>1
    <3>2. CASE ~(f[u] <= r)
      <4>1. f[u] = r + 1 /\ f[u] # 0
        BY <1>4, <2>3, <3>2
      <4>2. PICK v : Joined(u, v) /\ f[u] = f[v] + 1
        BY <4>1
      <4>3. v \in Nodes /\ f[v] \in Nat
        BY <1>3, <1>4, <4>2
      <4>4. f[v] <= r
        BY <4>1, <4>2, <4>3
      <4>5. v \in V(r)
        BY <2>1, <4>3, <4>4
      <4> QED BY <1>2, <4>2, <4>5
    <3> QED BY <3>1, <3>2
  <2>4. \A u : u \in V(r + 1) <=> u \in Nodes /\ f[u] <= r + 1
    BY <2>2, <2>3
  <2> QED BY <2>4
<1> HIDE DEF I
<1>7. \A r \in Nat : r \in I
  BY <1>5, <1>6, Induction
<1>8. \A r \in Nat : \A u : u \in V(r) <=> u \in Nodes /\ f[u] <= r
  BY <1>7 DEF I
<1>9. ASSUME NEW u \in Nodes PROVE LinksAway(d, u, f[u])
  <2>1. f[u] \in Nat /\ u \in V(f[u])
    BY <1>4, <1>8
  <2>2. \A q \in Nat : q < f[u] => u \notin V(q)
    BY <1>4, <1>8
  <2> QED BY <2>1, <2>2 DEF LinksAway, Apart, V, s
<1> QED BY <1>9

-----------------------------------------------------------------------------
(* Two tiers or three: S switches linked by M, H hosts of which host n      *)
(* hangs on switch up[n], and F[d][u], how far switch u is from host d.     *)

Risers(S, H, up) == {<<S + n, up[n]>> : n \in 0 .. H - 1}

Hangs(S, H, up, x, y) == \E n \in 0 .. H - 1 : x = S + n /\ y = up[n]

Tiered(b, S, H, M, up, F) ==
  /\ S \in Nat /\ H \in Nat
  /\ b \in Made(S, H, M \cup Risers(S, H, up))
  /\ \A l \in M : l = <<l[1], l[2]>> /\ l[1] \in 0 .. S - 1 /\ l[2] \in 0 .. S - 1
  /\ \A n \in 0 .. H - 1 : up[n] \in 0 .. S - 1
  /\ \A d \in 0 .. H - 1 :
       /\ \A u \in 0 .. S - 1 :
            /\ F[d][u] \in Nat /\ F[d][u] # 0 /\ (F[d][u] = 1 <=> u = up[d])
            /\ F[d][u] # 1 => \E v \in 0 .. S - 1 : /\ <<u, v>> \in M \/ <<v, u>> \in M
                                                  /\ F[d][u] = F[d][v] + 1
       /\ \A l \in M : F[d][l[1]] = F[d][l[2]] + 1 \/ F[d][l[2]] = F[d][l[1]] + 1

LEMMA TieredNodes ==
  ASSUME Layout, NEW S, NEW H, NEW M, NEW up, NEW F, Tiered(plan, S, H, M, up, F)
  PROVE  /\ host_count = H /\ Nodes = 0 .. S + H - 1
         /\ \A n \in 0 .. H - 1 : host_at(n) = S + n
         /\ \A u, v : Joined(u, v) <=> \/ <<u, v>> \in M \/ <<v, u>> \in M
                                       \/ Hangs(S, H, up, u, v) \/ Hangs(S, H, up, v, u)
<1>1. IsBlueprint(plan) /\ Nodes = NodesOf(plan)
  BY LayoutFacts
<1> DEFINE L == M \cup Risers(S, H, up)
<1>2. S \in Nat /\ H \in Nat /\ plan \in Made(S, H, L)
  BY DEF Tiered
<1>3. \A l \in L : l = <<l[1], l[2]>>
  BY DEF Tiered, Risers
<1>4. \A x, y : <<x, y>> \in L <=> <<x, y>> \in M \/ Hangs(S, H, up, x, y)
  BY DEF Risers, Hangs
<1> HIDE DEF L
<1>5. Len(HostsOf(plan)) = H /\ \A i \in 1 .. H : HostsOf(plan)[i] = S + i - 1
  BY <1>1, <1>2, LastNodes
<1>6. Size(plan) = S + H
  BY <1>2, MakesNode
<1>7. host_count = H /\ \A n : host_at(n) = HostsOf(plan)[n + 1]
  BY <1>5 DEF host_count, host_at, hosts
<1>8. \A n \in 0 .. H - 1 : n + 1 \in 1 .. H /\ S + (n + 1) - 1 = S + n
  BY <1>2
<1>9. \A n \in 0 .. H - 1 : host_at(n) = S + n
  BY <1>5, <1>7, <1>8
<1>10. \A u, v : Joined(u, v) <=> <<u, v>> \in L \/ <<v, u>> \in L
  <2>1. ToSet(plan.edges) = L
    BY <1>2 DEF Made
  <2>2. \A e \in L : {<<e[1], e[2]>>, <<e[2], e[1]>>} = {e, <<e[2], e[1]>>}
    BY <1>3
  <2>3. \A u, v : Joined(u, v) <=> \E e \in L : <<u, v>> \in {<<e[1], e[2]>>, <<e[2], e[1]>>}
    BY <2>1 DEF Joined, LinksOf
  <2>4. \A u, v : Joined(u, v) <=> \E e \in L : e = <<u, v>> \/ e = <<v, u>>
    BY <1>3, <2>3
  <2> QED BY <2>4
<1>11. \A u, v : Joined(u, v) <=> \/ <<u, v>> \in M \/ <<v, u>> \in M
                                  \/ Hangs(S, H, up, u, v) \/ Hangs(S, H, up, v, u)
  BY <1>4, <1>10, Zenon
<1>12. Nodes = 0 .. S + H - 1
  BY <1>2, <1>6 DEF Nodes
<1> QED BY <1>7, <1>9, <1>11, <1>12

(* How far node u is from host d.                                          *)
LinksTo(S, H, up, F, d) ==
  [u \in 0 .. S + H - 1 |->
     IF u < S THEN F[d][u] ELSE IF u = S + d THEN 0 ELSE F[d][up[u - S]] + 1]

LEMMA TieredAway ==
  ASSUME Layout, NEW S, NEW H, NEW M, NEW up, NEW F, Tiered(plan, S, H, M, up, F)
  PROVE  /\ WellWired
         /\ \A d \in 0 .. H - 1 : \A u \in Nodes : LinksAway(d, u, LinksTo(S, H, up, F, d)[u])
<1>1. /\ host_count = H /\ Nodes = 0 .. S + H - 1
      /\ \A n \in 0 .. H - 1 : host_at(n) = S + n
      /\ \A u, v : Joined(u, v) <=> \/ <<u, v>> \in M \/ <<v, u>> \in M
                                    \/ Hangs(S, H, up, u, v) \/ Hangs(S, H, up, v, u)
  BY TieredNodes
<1>2. /\ S \in Nat /\ H \in Nat
      /\ \A l \in M : l = <<l[1], l[2]>> /\ l[1] \in 0 .. S - 1 /\ l[2] \in 0 .. S - 1
      /\ \A n \in 0 .. H - 1 : up[n] \in 0 .. S - 1
  BY DEF Tiered
<1>3. \A x, y : <<x, y>> \in M => x \in 0 .. S - 1 /\ y \in 0 .. S - 1
  BY <1>2
<1>4. ASSUME NEW d \in 0 .. H - 1, NEW u \in Nodes
      PROVE  LinksAway(d, u, LinksTo(S, H, up, F, d)[u])
  <2> DEFINE f == LinksTo(S, H, up, F, d)
  <2>1. PICK G : G = F[d]
    OBVIOUS
  <2>2. /\ \A x \in 0 .. S - 1 :
             /\ G[x] \in Nat /\ G[x] # 0 /\ (G[x] = 1 <=> x = up[d])
             /\ G[x] # 1 => \E v \in 0 .. S - 1 : /\ <<x, v>> \in M \/ <<v, x>> \in M
                                                /\ G[x] = G[v] + 1
        /\ \A x, y : <<x, y>> \in M => G[x] = G[y] + 1 \/ G[y] = G[x] + 1
    <3>1. \A x \in 0 .. S - 1 :
             /\ G[x] \in Nat /\ G[x] # 0 /\ (G[x] = 1 <=> x = up[d])
             /\ G[x] # 1 => \E v \in 0 .. S - 1 : /\ <<x, v>> \in M \/ <<v, x>> \in M
                                                /\ G[x] = G[v] + 1
      <4>1. \A x \in 0 .. S - 1 :
              /\ F[d][x] \in Nat /\ F[d][x] # 0 /\ (F[d][x] = 1 <=> x = up[d])
              /\ F[d][x] # 1 => \E v \in 0 .. S - 1 : /\ <<x, v>> \in M \/ <<v, x>> \in M
                                                    /\ F[d][x] = F[d][v] + 1
        BY DEF Tiered
      <4> QED BY <2>1, <4>1, Zenon
    <3>2. \A l \in M : G[l[1]] = G[l[2]] + 1 \/ G[l[2]] = G[l[1]] + 1
      BY <2>1, Zenon DEF Tiered
    <3>3. \A x, y : <<x, y>>[1] = x /\ <<x, y>>[2] = y
      OBVIOUS
    <3>4. ASSUME NEW x, NEW y, <<x, y>> \in M PROVE G[x] = G[y] + 1 \/ G[y] = G[x] + 1
      <4>1. PICK l \in M : l = <<x, y>>
        BY <3>4
      <4>2. l[1] = x /\ l[2] = y
        BY <4>1
      <4> QED BY <3>2, <4>2
    <3> QED BY <3>1, <3>4
  <2>3. \A x \in 0 .. S + H - 1 :
          f[x] = IF x < S THEN G[x] ELSE IF x = S + d THEN 0 ELSE G[up[x - S]] + 1
    BY <2>1 DEF LinksTo
  <2> HIDE DEF f
  <2>4. /\ \A x \in 0 .. S - 1 : x \in Nodes /\ f[x] = G[x]
        /\ \A n \in 0 .. H - 1 : /\ S + n \in Nodes /\ S + n - S = n /\ (S + n = S + d <=> n = d)
                                 /\ f[S + n] = IF n = d THEN 0 ELSE G[up[n]] + 1
        /\ \A x \in Nodes : x \in 0 .. S - 1 \/ \E n \in 0 .. H - 1 : x = S + n
    <3>1. \A x \in 0 .. S - 1 : x \in 0 .. S + H - 1 /\ x < S
      BY <1>2
    <3>2. \A n \in 0 .. H - 1 : /\ S + n \in 0 .. S + H - 1 /\ ~(S + n < S)
                                /\ S + n - S = n /\ (S + n = S + d <=> n = d)
      BY <1>2
    <3>3. ASSUME NEW x \in 0 .. S + H - 1, x \notin 0 .. S - 1
          PROVE  \E n \in 0 .. H - 1 : x = S + n
      <4>1. x - S \in 0 .. H - 1 /\ x = S + (x - S)
        BY <1>2, <3>3
      <4> QED BY <4>1
    <3>4. ASSUME NEW n \in 0 .. H - 1 PROVE f[S + n] = IF n = d THEN 0 ELSE G[up[n]] + 1
      <4>1. PICK x : x = S + n
        OBVIOUS
      <4>2. x \in 0 .. S + H - 1 /\ ~(x < S) /\ x - S = n /\ (x = S + d <=> n = d)
        BY <1>2, <3>2, <4>1
      <4>3. f[x] = IF x < S THEN G[x] ELSE IF x = S + d THEN 0 ELSE G[up[x - S]] + 1
        BY <2>3, <4>2
      <4>4. f[x] = IF n = d THEN 0 ELSE G[up[n]] + 1
        BY ONLY <4>2, <4>3, Zenon
      <4> QED BY <4>1, <4>4
    <3> QED BY <1>1, <2>3, <3>1, <3>2, <3>3, <3>4
  <2>5. \A x \in Nodes : f[x] \in Nat /\ (f[x] = 0 <=> x = S + d)
    <3>1. ASSUME NEW x \in 0 .. S - 1 PROVE f[x] \in Nat /\ f[x] # 0 /\ x # S + d
      <4>1. x # S + d
        BY <1>2
      <4> QED BY <2>2, <2>4, <4>1
    <3>2. ASSUME NEW n \in 0 .. H - 1 PROVE f[S + n] \in Nat /\ (f[S + n] = 0 <=> S + n = S + d)
      <4>1. G[up[n]] \in Nat
        BY <1>2, <2>2
      <4>2. G[up[n]] + 1 \in Nat /\ G[up[n]] + 1 # 0
        BY <4>1
      <4> QED BY <2>4, <4>2
    <3> QED BY <2>4, <3>1, <3>2
  <2>6. ASSUME NEW x, NEW y, <<x, y>> \in M PROVE f[x] = f[y] + 1 \/ f[y] = f[x] + 1
    BY <1>3, <2>2, <2>4, <2>6
  <2>7. ASSUME NEW n \in 0 .. H - 1
        PROVE  IF n = d THEN f[up[n]] = f[S + n] + 1 ELSE f[S + n] = f[up[n]] + 1
    <3>1. up[n] \in 0 .. S - 1 /\ f[up[n]] = G[up[n]]
      BY <1>2, <2>4
    <3>2. n = d => G[up[n]] = 1 /\ f[S + n] = 0
      BY <2>2, <2>4, <3>1
    <3> QED BY <2>4, <3>1, <3>2
  <2>8. ASSUME NEW x, NEW y, Joined(x, y)
        PROVE  /\ x \in Nodes /\ y \in Nodes /\ f[x] \in Nat /\ f[y] \in Nat
               /\ f[x] = f[y] + 1 \/ f[y] = f[x] + 1
    <3>1. x \in Nodes /\ y \in Nodes
      BY <2>8, JoinedFacts
    <3>2. f[x] \in Nat /\ f[y] \in Nat
      BY <2>5, <3>1
    <3>3. ASSUME NEW n \in 0 .. H - 1
          PROVE  f[up[n]] = f[S + n] + 1 \/ f[S + n] = f[up[n]] + 1
      BY <2>7
    <3>4. \/ <<x, y>> \in M \/ <<y, x>> \in M
          \/ \E n \in 0 .. H - 1 : x = S + n /\ y = up[n]
          \/ \E n \in 0 .. H - 1 : y = S + n /\ x = up[n]
      BY <1>1, <2>8, Zenon DEF Hangs
    <3>5. f[x] = f[y] + 1 \/ f[y] = f[x] + 1
      BY <2>6, <3>3, <3>4, Zenon
    <3> QED BY <3>1, <3>2, <3>5
  <2>9. \A x, y : Joined(x, y) => f[x] <= f[y] + 1
    <3> SUFFICES ASSUME NEW x, NEW y, Joined(x, y) PROVE f[x] <= f[y] + 1
      OBVIOUS
    <3>1. PICK p, q : p = f[x] /\ q = f[y]
      OBVIOUS
    <3>2. p \in Nat /\ q \in Nat /\ (p = q + 1 \/ q = p + 1)
      BY <2>8, <3>1
    <3>3. p <= q + 1
      BY <3>2
    <3> QED BY <3>1, <3>3
  <2>10. ASSUME NEW x \in Nodes, f[x] # 0 PROVE \E v : Joined(x, v) /\ f[x] = f[v] + 1
    <3>1. CASE \E n \in 0 .. H - 1 : x = S + n
      <4>1. PICK n \in 0 .. H - 1 : x = S + n
        BY <3>1
      <4>2. n # d
        BY <2>4, <2>10, <4>1
      <4>3. f[x] = f[up[n]] + 1 /\ Joined(x, up[n])
        BY <1>1, <2>7, <4>1, <4>2 DEF Hangs
      <4> QED BY <4>3
    <3>2. CASE x \in 0 .. S - 1
      <4>1. CASE G[x] = 1
        <5>1. x = up[d]
          BY <2>2, <3>2, <4>1
        <5>2. Joined(x, S + d)
          BY <1>1, <5>1 DEF Hangs
        <5> QED BY <2>7, <5>1, <5>2
      <4>2. CASE G[x] # 1
        <5>1. PICK v \in 0 .. S - 1 : (<<x, v>> \in M \/ <<v, x>> \in M) /\ G[x] = G[v] + 1
          BY <2>2, <3>2, <4>2
        <5>2. Joined(x, v) /\ f[x] = f[v] + 1
          BY <1>1, <2>4, <3>2, <5>1
        <5> QED BY <5>2
      <4> QED BY <4>1, <4>2
    <3> QED BY <2>4, <3>1, <3>2
  <2>11. d \in 0 .. host_count - 1 /\ host_at(d) = S + d
    BY <1>1
  <2>12. \A x \in Nodes : LinksAway(d, x, f[x])
    BY <2>5, <2>9, <2>10, <2>11, Descent
  <2> QED BY <2>12 DEF f
<1>5. ASSUME NEW n \in 0 .. H - 1 PROVE \A y : Joined(S + n, y) <=> y = up[n]
  <2>1. \A j \in 0 .. H - 1 : (S + n = S + j <=> n = j) /\ S + n # up[j] /\ S + n \notin 0 .. S - 1
    BY <1>2
  <2>2. \A y : <<S + n, y>> \notin M /\ <<y, S + n>> \notin M
    BY <1>3, <2>1
  <2>3. ASSUME NEW y PROVE Joined(S + n, y) <=> y = up[n]
    <3>1. Joined(S + n, y) <=> Hangs(S, H, up, S + n, y) \/ Hangs(S, H, up, y, S + n)
      BY <1>1, <2>2
    <3>2. Hangs(S, H, up, S + n, y) <=> y = up[n]
      BY <2>1 DEF Hangs
    <3>3. ~Hangs(S, H, up, y, S + n)
      BY <2>1 DEF Hangs
    <3> QED BY <3>1, <3>2, <3>3
  <2> QED BY <2>3
<1>6. \A k \in 0 .. host_count - 1 : \E v : \A y : Joined(host_at(k), y) <=> y = v
  <2> SUFFICES ASSUME NEW k \in 0 .. H - 1 PROVE \E v : \A y : Joined(host_at(k), y) <=> y = v
    BY <1>1
  <2>1. host_at(k) = S + k
    BY <1>1
  <2> QED BY <1>5, <2>1
<1>7. ASSUME NEW k \in 0 .. H - 1, NEW d \in 0 .. H - 1
      PROVE  \E r \in Nat : host_at(k) \in Ball(host_at(d), r)
  <2>1. host_at(k) \in Nodes
    BY <1>1, HostAt
  <2>2. PICK r : LinksAway(d, host_at(k), r)
    BY <1>4, <2>1
  <2>3. r \in Nat /\ host_at(k) \in Within(plan, host_at(d), r)
    BY <2>2 DEF LinksAway, Apart
  <2>4. Ball(host_at(d), r) = Within(plan, host_at(d), r)
    BY <2>3, BallIs
  <2> QED BY <2>3, <2>4
<1> QED BY <1>1, <1>4, <1>6, <1>7 DEF WellWired

(* What a packet on its way has crossed                                    *)
LEMMA TieredTrips ==
  ASSUME Layout, NEW S, NEW H, NEW M, NEW up, NEW F, Tiered(plan, S, H, M, up, F),
         TripInv, src # dst, NEW u \in at
  PROVE  IF is_host(u) THEN hops = F[dst][up[src]] + 1 ELSE hops < F[dst][up[src]] + 1
<1>1. host_count = H /\ \A n \in 0 .. H - 1 : host_at(n) = S + n
  BY TieredNodes
<1>2. \A d \in 0 .. H - 1 : \A x \in Nodes : LinksAway(d, x, LinksTo(S, H, up, F, d)[x])
  BY TieredAway
<1>3. PICK s, d, n, r : /\ s = src /\ d = dst /\ n = hops
                        /\ LinksAway(d, u, r) /\ LinksAway(d, host_at(s), n + r)
  BY DEF TripInv
<1>4. /\ s \in 0 .. H - 1 /\ d \in 0 .. H - 1 /\ s # d /\ n \in Nat
      /\ u \in Nodes /\ (is_host(u) => u = host_at(d))
  BY <1>1, <1>3 DEF TripInv
<1>5. /\ host_at(s) \in Nodes /\ is_host(host_at(d)) /\ host_at(s) = S + s
      /\ S \in Nat /\ H \in Nat
  BY <1>1, <1>4, HostAt DEF Tiered
<1>6. LinksTo(S, H, up, F, d)[S + s] = F[d][up[s]] + 1
  <2>1. PICK x : x = S + s
    OBVIOUS
  <2>2. x \in 0 .. S + H - 1 /\ ~(x < S) /\ x # S + d /\ x - S = s
    BY <1>4, <1>5, <2>1
  <2>3. LinksTo(S, H, up, F, d)[x]
          = IF x < S THEN F[d][x] ELSE IF x = S + d THEN 0 ELSE F[d][up[x - S]] + 1
    BY <2>2 DEF LinksTo
  <2> QED BY <2>1, <2>2, <2>3, Zenon
<1>7. n + r = F[d][up[s]] + 1
  <2>1. LinksAway(d, host_at(s), F[d][up[s]] + 1)
    BY <1>2, <1>4, <1>5, <1>6
  <2> QED BY <1>1, <1>3, <1>4, <2>1, ApartFacts
<1>8. r \in Nat /\ (r = 0 <=> u = host_at(d))
  <2>1. r \in Nat
    BY <1>3 DEF LinksAway
  <2>2. u = host_at(d) => r = 0
    BY <1>1, <1>3, <1>4, ApartFacts
  <2>3. r = 0 => u = host_at(d)
    BY <1>1, <1>3, <1>4, ApartFacts
  <2> QED BY <2>1, <2>2, <2>3
<1>9. PICK t : t = F[d][up[s]] + 1
  OBVIOUS
<1>10. CASE is_host(u)
  <2>1. n = t
    BY <1>4, <1>7, <1>8, <1>9, <1>10
  <2> QED BY <1>3, <1>9, <1>10, <2>1
<1>11. CASE ~is_host(u)
  <2>1. r # 0
    BY <1>5, <1>8, <1>11
  <2>2. n < t
    BY <1>4, <1>7, <1>8, <1>9, <2>1
  <2> QED BY <1>3, <1>9, <1>11, <2>2
<1> QED BY <1>10, <1>11

-----------------------------------------------------------------------------
(* Leaf-spine                                                              *)

LeafOf(spines, H, hosts_per_leaf) == [n \in 0 .. H - 1 |-> spines + n \div hosts_per_leaf]

(* From host d: 1 to its own leaf, 2 to every spine, 3 to the other leaves. *)
FromSpines(spines, S, H, hosts_per_leaf) ==
  [d \in 0 .. H - 1 |-> [u \in 0 .. S - 1 |->
     IF u < spines THEN 2 ELSE IF u - spines = d \div hosts_per_leaf THEN 1 ELSE 3]]

LEMMA DivMod ==
  ASSUME NEW n \in Nat, NEW m \in Nat \ {0}
  PROVE  /\ n \div m \in Nat /\ n % m \in 0 .. m - 1
         /\ n = (n \div m) * m + (n % m)
OBVIOUS

LEMMA LeafSpineTiered ==
  ASSUME NEW spines \in Nat \ {0}, NEW leaves \in Nat \ {0}, NEW hosts_per_leaf \in Nat \ {0}
  PROVE  LET S == spines + leaves
             H == leaves * hosts_per_leaf
         IN  Tiered(LeafSpine(spines, leaves, hosts_per_leaf), S, H,
                    Unions(Meshes(spines), leaves), LeafOf(spines, H, hosts_per_leaf),
                    FromSpines(spines, S, H, hosts_per_leaf))
<1>1. PICK w : w = hosts_per_leaf
  OBVIOUS
<1>2. PICK S, H, M, up, F, b :
        /\ S = spines + leaves /\ H = leaves * w /\ M = Unions(Meshes(spines), leaves)
        /\ up = LeafOf(spines, H, w) /\ F = FromSpines(spines, S, H, w)
        /\ b = LeafSpine(spines, leaves, w)
  OBVIOUS
<1>3. /\ w \in Nat \ {0} /\ S \in Nat /\ H \in Nat
      /\ \A x \in 0 .. spines - 1 : x \in 0 .. S - 1
      /\ \A i \in 0 .. leaves - 1 : spines + i \in 0 .. S - 1
      /\ \A u \in 0 .. S - 1 : u < spines \/ u - spines \in 0 .. leaves - 1
  BY <1>1, <1>2
<1>4. \A n \in 0 .. H - 1 : n \div w \in 0 .. leaves - 1 /\ up[n] = spines + n \div w
  BY <1>2, <1>3, RowOf DEF LeafOf
<1>5. \A l : l \in M <=> \E i \in 0 .. leaves - 1 : \E s \in 0 .. spines - 1 : l = <<spines + i, s>>
  <2>1. \A i \in 0 .. leaves - 1 : Meshes(spines)[i] = Images(MeshLink(spines, i), spines)
    BY DEF Meshes
  <2>2. \A i \in 0 .. leaves - 1 : \A s \in 0 .. spines - 1 : MeshLink(spines, i)[s] = <<spines + i, s>>
    BY DEF MeshLink
  <2>3. \A l : l \in M <=> \E i \in 0 .. leaves - 1 : l \in Images(MeshLink(spines, i), spines)
    BY <1>2, <2>1 DEF Unions
  <2>4. \A i \in 0 .. leaves - 1 : \A l : l \in Images(MeshLink(spines, i), spines)
          <=> \E s \in 0 .. spines - 1 : l = <<spines + i, s>>
    BY <2>2 DEF Images
  <2> QED BY <2>3, <2>4
<1>6. Unions(Leaves(spines, S, w), leaves) = Risers(S, H, up)
  <2>1. \A i \in 0 .. leaves - 1 : Leaves(spines, S, w)[i] = Images(LeafLink(S, i * w, spines + i), w)
    BY DEF Leaves
  <2>2. \A i \in 0 .. leaves - 1 : \A j \in 0 .. w - 1 :
          LeafLink(S, i * w, spines + i)[j] = <<S + (i * w + j), spines + i>>
    BY <1>3 DEF LeafLink
  <2>3. \A l : l \in Unions(Leaves(spines, S, w), leaves)
          <=> \E i \in 0 .. leaves - 1 : l \in Images(LeafLink(S, i * w, spines + i), w)
    BY <2>1 DEF Unions
  <2>4. \A i \in 0 .. leaves - 1 : \A l : l \in Images(LeafLink(S, i * w, spines + i), w)
          <=> \E j \in 0 .. w - 1 : l = <<S + (i * w + j), spines + i>>
    BY <2>2 DEF Images
  <2>5. \A l : l \in Risers(S, H, up) <=> \E n \in 0 .. H - 1 : l = <<S + n, spines + n \div w>>
    BY <1>4 DEF Risers
  <2>6. ASSUME NEW i \in 0 .. leaves - 1, NEW j \in 0 .. w - 1
        PROVE  <<S + (i * w + j), spines + i>> \in Risers(S, H, up)
    <3>1. PICK n : n = i * w + j
      OBVIOUS
    <3>2. n \in 0 .. H - 1 /\ n \div w = i
      BY <1>2, <1>3, <3>1, CellFacts
    <3> QED BY <2>5, <3>1, <3>2
  <2>7. ASSUME NEW n \in 0 .. H - 1
        PROVE  \E i \in 0 .. leaves - 1 : \E j \in 0 .. w - 1 :
                 <<S + n, spines + n \div w>> = <<S + (i * w + j), spines + i>>
    <3>1. PICK i, j : i = n \div w /\ j = n % w
      OBVIOUS
    <3>2. i \in 0 .. leaves - 1 /\ j \in 0 .. w - 1 /\ n = i * w + j
      <4>1. n \in Nat
        BY <1>3
      <4>2. n % w \in 0 .. w - 1 /\ n = (n \div w) * w + (n % w)
        BY <1>3, <4>1, DivMod
      <4> QED BY <1>4, <3>1, <4>2
    <3>3. <<S + n, spines + n \div w>> = <<S + (i * w + j), spines + i>>
      BY <3>1, <3>2
    <3> QED BY <3>2, <3>3
  <2>8. \A l : l \in Unions(Leaves(spines, S, w), leaves) <=> l \in Risers(S, H, up)
    BY <2>3, <2>4, <2>5, <2>6, <2>7
  <2> QED BY <2>8
<1>7. b \in Made(S, H, M \cup Risers(S, H, up))
  BY <1>1, <1>2, <1>3, <1>6, LeafSpineMade
<1>8. \A l \in M : l = <<l[1], l[2]>> /\ l[1] \in 0 .. S - 1 /\ l[2] \in 0 .. S - 1
  BY <1>3, <1>5
<1>9. ASSUME NEW d \in 0 .. H - 1
      PROVE  /\ \A u \in 0 .. S - 1 :
                  /\ F[d][u] \in Nat /\ F[d][u] # 0 /\ (F[d][u] = 1 <=> u = up[d])
                  /\ F[d][u] # 1 => \E v \in 0 .. S - 1 : /\ <<u, v>> \in M \/ <<v, u>> \in M
                                                        /\ F[d][u] = F[d][v] + 1
             /\ \A l \in M : F[d][l[1]] = F[d][l[2]] + 1 \/ F[d][l[2]] = F[d][l[1]] + 1
  <2>1. PICK G, o : G = F[d] /\ o = d \div w
    OBVIOUS
  <2>2. o \in 0 .. leaves - 1 /\ up[d] = spines + o
    BY <1>4, <2>1
  <2>3. \A u \in 0 .. S - 1 : G[u] = IF u < spines THEN 2 ELSE IF u - spines = o THEN 1 ELSE 3
    BY <1>1, <1>2, <2>1 DEF FromSpines
  <2>4. /\ \A s \in 0 .. spines - 1 : s \in 0 .. S - 1 /\ G[s] = 2
        /\ \A i \in 0 .. leaves - 1 : /\ spines + i \in 0 .. S - 1
                                      /\ G[spines + i] = IF i = o THEN 1 ELSE 3
        /\ \A u \in 0 .. S - 1 : u \in 0 .. spines - 1 \/ \E i \in 0 .. leaves - 1 : u = spines + i
    <3>1. ASSUME NEW s \in 0 .. spines - 1 PROVE s \in 0 .. S - 1 /\ G[s] = 2
      BY <1>3, <2>3
    <3>2. ASSUME NEW i \in 0 .. leaves - 1
          PROVE  spines + i \in 0 .. S - 1 /\ G[spines + i] = IF i = o THEN 1 ELSE 3
      <4>1. PICK u : u = spines + i
        OBVIOUS
      <4>2. u \in 0 .. S - 1 /\ ~(u < spines) /\ u - spines = i
        BY <1>3, <4>1
      <4> QED BY <2>3, <4>1, <4>2
    <3>3. ASSUME NEW u \in 0 .. S - 1, u \notin 0 .. spines - 1
          PROVE  \E i \in 0 .. leaves - 1 : u = spines + i
      <4>1. u - spines \in 0 .. leaves - 1 /\ u = spines + (u - spines)
        BY <1>2, <3>3
      <4> QED BY <4>1
    <3> QED BY <3>1, <3>2, <3>3
  <2>5. \A s \in 0 .. spines - 1 : s # spines + o
    BY <2>2
  <2>6. ASSUME NEW s \in 0 .. spines - 1
        PROVE  /\ G[s] \in Nat /\ G[s] # 0 /\ (G[s] = 1 <=> s = up[d])
               /\ \E v \in 0 .. S - 1 : (<<s, v>> \in M \/ <<v, s>> \in M) /\ G[s] = G[v] + 1
    <3>1. G[s] = 2 /\ G[up[d]] = 1 /\ up[d] \in 0 .. S - 1
      BY <2>2, <2>4
    <3>2. <<up[d], s>> \in M
      BY <1>5, <2>2
    <3> QED BY <2>2, <2>5, <3>1, <3>2
  <2>7. ASSUME NEW i \in 0 .. leaves - 1
        PROVE  /\ G[spines + i] \in Nat /\ G[spines + i] # 0
               /\ (G[spines + i] = 1 <=> spines + i = up[d])
               /\ G[spines + i] # 1 => \E v \in 0 .. S - 1 :
                     /\ <<spines + i, v>> \in M \/ <<v, spines + i>> \in M
                     /\ G[spines + i] = G[v] + 1
    <3>1. 0 \in 0 .. spines - 1
      OBVIOUS
    <3>2. 0 \in 0 .. S - 1 /\ G[0] = 2 /\ <<spines + i, 0>> \in M
      BY <1>5, <2>4, <3>1
    <3>3. spines + i = spines + o <=> i = o
      BY <2>2
    <3>4. i # o => G[spines + i] = G[0] + 1
      BY <2>4, <3>2
    <3> QED BY <2>2, <2>4, <3>2, <3>3, <3>4
  <2>8. ASSUME NEW l \in M PROVE G[l[1]] = G[l[2]] + 1 \/ G[l[2]] = G[l[1]] + 1
    <3>1. PICK i \in 0 .. leaves - 1, s \in 0 .. spines - 1 : l = <<spines + i, s>>
      BY <1>5
    <3>2. l[1] = spines + i /\ l[2] = s /\ G[s] = 2 /\ (G[spines + i] = 1 \/ G[spines + i] = 3)
      BY <2>4, <3>1
    <3> QED BY <3>2
  <2>9. \A u \in 0 .. S - 1 :
          /\ G[u] \in Nat /\ G[u] # 0 /\ (G[u] = 1 <=> u = up[d])
          /\ G[u] # 1 => \E v \in 0 .. S - 1 : /\ <<u, v>> \in M \/ <<v, u>> \in M
                                             /\ G[u] = G[v] + 1
    <3> SUFFICES ASSUME NEW u \in 0 .. S - 1
                 PROVE  /\ G[u] \in Nat /\ G[u] # 0 /\ (G[u] = 1 <=> u = up[d])
                        /\ G[u] # 1 => \E v \in 0 .. S - 1 :
                              (<<u, v>> \in M \/ <<v, u>> \in M) /\ G[u] = G[v] + 1
      OBVIOUS
    <3>1. CASE u \in 0 .. spines - 1
      BY <2>6, <3>1
    <3>2. CASE \E i \in 0 .. leaves - 1 : u = spines + i
      BY <2>7, <3>2
    <3> QED BY <2>4, <3>1, <3>2
  <2> QED BY <2>1, <2>8, <2>9
<1>10. \A n \in 0 .. H - 1 : up[n] \in 0 .. S - 1
  BY <1>3, <1>4
<1>11. Tiered(b, S, H, M, up, F)
  BY <1>3, <1>7, <1>8, <1>9, <1>10 DEF Tiered
<1> QED BY <1>1, <1>2, <1>11

-----------------------------------------------------------------------------
(* Fat-tree: k pods of k switches after the m^2 cores, the first m of a pod *)
(* aggregation switches and the last m edge switches.                      *)

PodSwitch(k, m, pod, x) == m * m + (pod * k + x)

Column(m, n) == (n \div m) % m

Halves(k, m) ==
  /\ IsArity(k) /\ m \in Nat \ {0} /\ k = 2 * m /\ k \div 2 = m
  /\ fat_tree_core_count(k) = m * m /\ fat_tree_hosts_per_pod(k) = m * m
  /\ fat_tree_switch_count(k) = m * m + k * k
  /\ fat_tree_host_count(k) = k * (m * m)

LEMMA HalvesOf ==
  ASSUME NEW k, IsArity(k)
  PROVE  \E m : Halves(k, m)
BY Half DEF Halves

LEMMA HalvesTypes ==
  ASSUME NEW k, NEW m, Halves(k, m)
  PROVE  /\ m \in Nat \ {0} /\ k \in Nat \ {0} /\ k = 2 * m /\ IsArity(k)
         /\ m * m \in Nat \ {0}
         /\ fat_tree_switch_count(k) \in Nat /\ fat_tree_host_count(k) \in Nat
<1>1. /\ m \in Nat \ {0} /\ k \in Nat \ {0} /\ k = 2 * m /\ IsArity(k)
      /\ fat_tree_switch_count(k) = m * m + k * k /\ fat_tree_host_count(k) = k * (m * m)
  BY DEF Halves, IsArity
<1>2. PICK c, s : c = m * m /\ s = k * k
  OBVIOUS
<1>3. c \in Nat \ {0} /\ s \in Nat
  BY <1>1, <1>2
<1>4. fat_tree_switch_count(k) \in Nat
  BY <1>1, <1>2, <1>3
<1>5. fat_tree_host_count(k) \in Nat
  <2>1. k * c \in Nat
    BY <1>1, <1>3
  <2> QED BY <1>1, <1>2, <2>1
<1> QED BY <1>1, <1>2, <1>3, <1>4, <1>5

LEMMA SwitchNumbers ==
  ASSUME NEW k, NEW m, Halves(k, m)
  PROVE  /\ \A pod, a \in Nat : fat_tree_agg(k, pod, a) = PodSwitch(k, m, pod, a)
         /\ \A pod, e \in Nat : fat_tree_edge(k, pod, e) = PodSwitch(k, m, pod, m + e)
         /\ \A i, j \in Nat : fat_tree_core(k, i, j) = i * m + j
         /\ \A n \in Nat : EdgeOf(k, n) = PodSwitch(k, m, n \div (m * m), m + Column(m, n))
<1>0. /\ m \in Nat \ {0} /\ k = 2 * m /\ k \div 2 = m
      /\ fat_tree_core_count(k) = m * m /\ fat_tree_hosts_per_pod(k) = m * m
  BY DEF Halves
<1>1. PICK c : c = m * m
  OBVIOUS
<1>2. c \in Nat \ {0} /\ k \in Nat /\ fat_tree_core_count(k) = c /\ fat_tree_hosts_per_pod(k) = c
  BY <1>0, <1>1
<1>3. ASSUME NEW pod \in Nat, NEW a \in Nat
      PROVE  /\ fat_tree_agg(k, pod, a) = PodSwitch(k, m, pod, a)
             /\ fat_tree_edge(k, pod, a) = PodSwitch(k, m, pod, m + a)
  <2>1. PICK q : q = pod * k
    OBVIOUS
  <2>2. q \in Nat
    BY <1>2, <2>1
  <2>3. fat_tree_agg(k, pod, a) = c + q + a /\ PodSwitch(k, m, pod, a) = c + (q + a)
    BY <1>0, <1>1, <1>2, <2>1 DEF fat_tree_agg, PodSwitch
  <2>4. fat_tree_edge(k, pod, a) = c + q + m + a /\ PodSwitch(k, m, pod, m + a) = c + (q + (m + a))
    BY <1>0, <1>1, <1>2, <2>1 DEF fat_tree_edge, PodSwitch
  <2> QED BY <1>0, <1>2, <2>2, <2>3, <2>4
<1>4. \A i, j : fat_tree_core(k, i, j) = i * m + j
  BY <1>0 DEF fat_tree_core
<1>5. ASSUME NEW n \in Nat
      PROVE  EdgeOf(k, n) = PodSwitch(k, m, n \div (m * m), m + Column(m, n))
  <2>1. PICK p, e : p = n \div c /\ e = (n \div m) % m
    OBVIOUS
  <2>2. p \in Nat /\ e \in Nat
    <3>1. p \in Nat
      BY <1>0, <1>2, <2>1, DivMod
    <3>2. PICK y : y = n \div m
      OBVIOUS
    <3>3. y \in Nat /\ e = y % m
      BY <1>0, <2>1, <3>2, DivMod
    <3>4. e \in 0 .. m - 1
      BY <1>0, <3>3, DivMod
    <3> QED BY <3>1, <3>4
  <2>3. EdgeOf(k, n) = fat_tree_edge(k, p, e)
    BY <1>0, <1>2, <2>1 DEF EdgeOf, fat_tree_pod_of_host
  <2>4. fat_tree_edge(k, p, e) = PodSwitch(k, m, p, m + e)
    BY <1>3, <2>2, Zenon
  <2> QED BY <1>1, <2>1, <2>3, <2>4 DEF Column
<1> QED BY <1>3, <1>4, <1>5

(* From host d: 1 to its edge switch, 2 to its pod's aggregation switches,  *)
(* 3 to the cores and its pod's other edge switches, 4 and 5 elsewhere.    *)
FromSwitch(k, m, d, u) ==
  LET q    == u - m * m
      near == q \div k = d \div (m * m)
  IN  IF u < m * m THEN 3
      ELSE IF q % k < m THEN (IF near THEN 2 ELSE 4)
      ELSE IF ~near THEN 5
      ELSE IF q % k = m + Column(m, d) THEN 1 ELSE 3

FromSwitches(k, m, S, H) == [d \in 0 .. H - 1 |-> [u \in 0 .. S - 1 |-> FromSwitch(k, m, d, u)]]

LEMMA PodNumbers ==
  ASSUME NEW k, NEW m, Halves(k, m), NEW S, S = fat_tree_switch_count(k)
  PROVE  /\ \A pod, x \in 0 .. k - 1 :
              /\ PodSwitch(k, m, pod, x) \in 0 .. S - 1 /\ ~(PodSwitch(k, m, pod, x) < m * m)
              /\ (PodSwitch(k, m, pod, x) - m * m) \div k = pod
              /\ (PodSwitch(k, m, pod, x) - m * m) % k = x
         /\ \A i, j \in 0 .. m - 1 : i * m + j \in 0 .. S - 1 /\ i * m + j < m * m
         /\ \A u \in 0 .. S - 1 :
              \/ \E i, j \in 0 .. m - 1 : u = i * m + j
              \/ \E pod, x \in 0 .. k - 1 : u = PodSwitch(k, m, pod, x)
<1>0. k \in Nat /\ m \in Nat \ {0} /\ k = 2 * m /\ S = m * m + k * k
  BY HalvesTypes DEF Halves
<1> USE <1>0
<1>1. PICK c, s : c = m * m /\ s = k * k
  OBVIOUS
<1>2. c \in Nat /\ s \in Nat /\ S = c + s /\ k \in Nat \ {0} /\ S \in Nat
  BY <1>1
<1>3. ASSUME NEW pod \in 0 .. k - 1, NEW x \in 0 .. k - 1
      PROVE  /\ PodSwitch(k, m, pod, x) \in 0 .. S - 1 /\ ~(PodSwitch(k, m, pod, x) < m * m)
             /\ (PodSwitch(k, m, pod, x) - m * m) \div k = pod
             /\ (PodSwitch(k, m, pod, x) - m * m) % k = x
  <2>1. PICK q, u : q = pod * k + x /\ u = PodSwitch(k, m, pod, x)
    OBVIOUS
  <2>2. q \in 0 .. s - 1 /\ q \div k = pod
    BY <1>1, <1>2, <2>1, CellFacts
  <2>3. q = (q \div k) * k + (q % k) /\ q % k \in 0 .. k - 1
    <3>1. q \in Nat
      BY <1>2, <2>2
    <3> QED BY <1>2, <3>1, DivMod
  <2>4. q % k = x
    <3>1. PICK p, r : p = pod * k /\ r = q % k
      OBVIOUS
    <3>2. p \in Nat /\ r \in Nat
      BY <1>2, <2>3, <3>1
    <3>4. q = p + x /\ q = p + r
      BY <2>1, <2>2, <2>3, <3>1
    <3>3. r = x
      BY <3>2, <3>4
    <3> QED BY <3>1, <3>3
  <2>5. u = c + q
    BY <1>1, <2>1 DEF PodSwitch
  <2>6. u \in 0 .. S - 1 /\ ~(u < c) /\ u - c = q
    BY <1>2, <2>2, <2>5
  <2> QED BY <1>1, <2>1, <2>2, <2>4, <2>6
<1>4. ASSUME NEW i \in 0 .. m - 1, NEW j \in 0 .. m - 1
      PROVE  i * m + j \in 0 .. S - 1 /\ i * m + j < m * m
  <2>1. PICK u : u = i * m + j
    OBVIOUS
  <2>2. u \in 0 .. c - 1
    BY <1>1, <2>1, CellFacts
  <2>3. u \in 0 .. S - 1 /\ u < c
    BY <1>2, <2>2
  <2> QED BY <1>1, <2>1, <2>3
<1>5. ASSUME NEW u \in 0 .. S - 1, u < c
      PROVE  \E i, j \in 0 .. m - 1 : u = i * m + j
  <2>1. u \in Nat /\ u \in 0 .. m * m - 1
    BY <1>1, <1>2, <1>5
  <2>2. /\ u \div m \in 0 .. m - 1 /\ u % m \in 0 .. m - 1
        /\ u = (u \div m) * m + (u % m)
    BY <2>1, DivMod, RowOf
  <2> QED BY <2>2
<1>6. ASSUME NEW u \in 0 .. S - 1, ~(u < c)
      PROVE  \E pod, x \in 0 .. k - 1 : u = PodSwitch(k, m, pod, x)
  <2>1. PICK q : q = u - c
    OBVIOUS
  <2>2. q \in Nat /\ q \in 0 .. k * k - 1 /\ u = c + q
    BY <1>1, <1>2, <1>6, <2>1
  <2>3. /\ q \div k \in 0 .. k - 1 /\ q % k \in 0 .. k - 1
        /\ q = (q \div k) * k + (q % k)
    BY <1>2, <2>2, DivMod, RowOf
  <2>4. u = PodSwitch(k, m, q \div k, q % k)
    BY <1>1, <2>2, <2>3 DEF PodSwitch
  <2> QED BY <2>3, <2>4
<1> QED BY <1>3, <1>4, <1>5, <1>6, <1>1

LEMMA ColumnIn ==
  ASSUME NEW m \in Nat \ {0}, NEW n \in Nat
  PROVE  Column(m, n) \in 0 .. m - 1
<1>1. PICK y : y = n \div m
  OBVIOUS
<1>2. y \in Nat
  BY <1>1, DivMod
<1> QED BY <1>1, <1>2, DivMod DEF Column

EdgesOf(k, H) == [n \in 0 .. H - 1 |-> EdgeOf(k, n)]

CoreLink(k, m, pod, a, j) == <<PodSwitch(k, m, pod, a), a * m + j>>
EdgeLink(k, m, pod, a, j) == <<PodSwitch(k, m, pod, a), PodSwitch(k, m, pod, m + j)>>

(* What the links inside the pods and to the cores are.                    *)
LEMMA PodsAre ==
  ASSUME NEW k, NEW m, Halves(k, m)
  PROVE  \A l : l \in Unions(Pods(k), k) <=>
           \E pod \in 0 .. k - 1 : \E a, j \in 0 .. m - 1 :
             l = CoreLink(k, m, pod, a, j) \/ l = EdgeLink(k, m, pod, a, j)
<1>1. m \in Nat \ {0} /\ k \in Nat /\ k \div 2 = m
  BY DEF Halves, IsArity
<1>2. (\A pod \in 0 .. k - 1 : pod \in Nat) /\ (\A a \in 0 .. m - 1 : a \in Nat)
  BY <1>1
<1>3. \A pod \in 0 .. k - 1 : Pods(k)[pod] = Unions(Ladders(k, pod), m)
  BY <1>1, <1>2 DEF Pods
<1>4. \A pod \in 0 .. k - 1 : \A a \in 0 .. m - 1 :
        Ladders(k, pod)[a] = Images(UpLink(k, pod, a), m) \cup Images(DownLink(k, pod, a), m)
  BY <1>1, <1>2 DEF Ladders
<1>5. ASSUME NEW pod \in 0 .. k - 1, NEW a \in 0 .. m - 1, NEW j \in 0 .. m - 1
      PROVE  /\ UpLink(k, pod, a)[j] = CoreLink(k, m, pod, a, j)
             /\ DownLink(k, pod, a)[j] = EdgeLink(k, m, pod, a, j)
  <2>1. pod \in Nat /\ a \in Nat /\ j \in Nat
    BY <1>2
  <2>2. /\ UpLink(k, pod, a)[j] = <<fat_tree_agg(k, pod, a), fat_tree_core(k, a, j)>>
        /\ DownLink(k, pod, a)[j] = <<fat_tree_agg(k, pod, a), fat_tree_edge(k, pod, j)>>
    BY <2>1 DEF UpLink, DownLink
  <2>3. /\ fat_tree_agg(k, pod, a) = PodSwitch(k, m, pod, a)
        /\ fat_tree_edge(k, pod, j) = PodSwitch(k, m, pod, m + j)
        /\ fat_tree_core(k, a, j) = a * m + j
    <3>1. fat_tree_agg(k, pod, a) = PodSwitch(k, m, pod, a)
      BY <2>1, SwitchNumbers, Zenon
    <3>2. fat_tree_edge(k, pod, j) = PodSwitch(k, m, pod, m + j)
      <4>1. \A q, e \in Nat : fat_tree_edge(k, q, e) = PodSwitch(k, m, q, m + e)
        BY SwitchNumbers
      <4> QED BY ONLY <2>1, <4>1
    <3>3. fat_tree_core(k, a, j) = a * m + j
      BY <2>1, SwitchNumbers, Zenon
    <3> QED BY <3>1, <3>2, <3>3, Zenon
  <2> QED BY ONLY <2>2, <2>3 DEF CoreLink, EdgeLink
<1>6. \A l : l \in Unions(Pods(k), k) <=>
        \E pod \in 0 .. k - 1 : l \in Unions(Ladders(k, pod), m)
  BY <1>3 DEF Unions
<1>7. \A pod \in 0 .. k - 1 : \A l : l \in Unions(Ladders(k, pod), m) <=>
        \E a \in 0 .. m - 1 : \/ l \in Images(UpLink(k, pod, a), m)
                              \/ l \in Images(DownLink(k, pod, a), m)
  BY <1>4 DEF Unions
<1>8. \A pod \in 0 .. k - 1 : \A a \in 0 .. m - 1 : \A l :
        /\ l \in Images(UpLink(k, pod, a), m)
             <=> \E j \in 0 .. m - 1 : l = CoreLink(k, m, pod, a, j)
        /\ l \in Images(DownLink(k, pod, a), m)
             <=> \E j \in 0 .. m - 1 : l = EdgeLink(k, m, pod, a, j)
  BY <1>5 DEF Images
<1> QED BY ONLY <1>6, <1>7, <1>8

(* The distance of each kind of switch from host d.                        *)
LEMMA TreeDistances ==
  ASSUME NEW k, NEW m, Halves(k, m), NEW d \in Nat
  PROVE  /\ \A i, j \in 0 .. m - 1 : FromSwitch(k, m, d, i * m + j) = 3
         /\ \A pod \in 0 .. k - 1 : \A a \in 0 .. m - 1 :
              FromSwitch(k, m, d, PodSwitch(k, m, pod, a))
                = IF pod = d \div (m * m) THEN 2 ELSE 4
         /\ \A pod \in 0 .. k - 1 : \A e \in 0 .. m - 1 :
              FromSwitch(k, m, d, PodSwitch(k, m, pod, m + e))
                = IF pod # d \div (m * m) THEN 5 ELSE IF e = Column(m, d) THEN 1 ELSE 3
<1>0. k \in Nat /\ m \in Nat \ {0} /\ k = 2 * m
  BY HalvesTypes
<1>1. /\ \A pod, x \in 0 .. k - 1 :
              /\ ~(PodSwitch(k, m, pod, x) < m * m)
              /\ (PodSwitch(k, m, pod, x) - m * m) \div k = pod
              /\ (PodSwitch(k, m, pod, x) - m * m) % k = x
      /\ \A i, j \in 0 .. m - 1 : i * m + j < m * m
  <2>1. PICK S : S = fat_tree_switch_count(k)
    OBVIOUS
  <2>2. /\ \A pod, x \in 0 .. k - 1 :
              /\ PodSwitch(k, m, pod, x) \in 0 .. S - 1 /\ ~(PodSwitch(k, m, pod, x) < m * m)
              /\ (PodSwitch(k, m, pod, x) - m * m) \div k = pod
              /\ (PodSwitch(k, m, pod, x) - m * m) % k = x
        /\ \A i, j \in 0 .. m - 1 : i * m + j \in 0 .. S - 1 /\ i * m + j < m * m
        /\ \A u \in 0 .. S - 1 :
              \/ \E i, j \in 0 .. m - 1 : u = i * m + j
              \/ \E pod, x \in 0 .. k - 1 : u = PodSwitch(k, m, pod, x)
    BY <2>1, PodNumbers
  <2> QED BY <2>2, Zenon
<1> USE <1>0
<1>2. ASSUME NEW i \in 0 .. m - 1, NEW j \in 0 .. m - 1
      PROVE  FromSwitch(k, m, d, i * m + j) = 3
  BY <1>1 DEF FromSwitch
<1>3. \A a \in 0 .. m - 1 : /\ a \in 0 .. k - 1 /\ a < m
                            /\ m + a \in 0 .. k - 1 /\ ~(m + a < m)
  OBVIOUS
<1>4. ASSUME NEW pod \in 0 .. k - 1, NEW a \in 0 .. m - 1
      PROVE  FromSwitch(k, m, d, PodSwitch(k, m, pod, a)) = IF pod = d \div (m * m) THEN 2 ELSE 4
  <2>1. PICK u, q : u = PodSwitch(k, m, pod, a) /\ q = u - m * m
    OBVIOUS
  <2>2. ~(u < m * m) /\ q \div k = pod /\ q % k = a /\ a < m
    BY <1>1, <1>3, <2>1
  <2> QED BY <2>1, <2>2 DEF FromSwitch
<1>5. ASSUME NEW pod \in 0 .. k - 1, NEW e \in 0 .. m - 1
      PROVE  FromSwitch(k, m, d, PodSwitch(k, m, pod, m + e))
               = IF pod # d \div (m * m) THEN 5 ELSE IF e = Column(m, d) THEN 1 ELSE 3
  <2>1. PICK u, q, x, c : /\ x = m + e /\ u = PodSwitch(k, m, pod, x) /\ q = u - m * m
                          /\ c = Column(m, d)
    OBVIOUS
  <2>2. ~(u < m * m) /\ q \div k = pod /\ q % k = x /\ ~(x < m)
    BY <1>1, <1>3, <2>1
  <2>3. x = m + c <=> e = c
    <3>1. c \in 0 .. m - 1
      BY <2>1, ColumnIn
    <3> QED BY <2>1, <3>1
  <2> QED BY <2>1, <2>2, <2>3 DEF FromSwitch
<1> QED BY <1>2, <1>4, <1>5

-----------------------------------------------------------------------------
(* The switches of a fat-tree, each kind by its place.                     *)
CoreAt(m, i, j)     == i * m + j
AggAt(k, m, pod, a)  == PodSwitch(k, m, pod, a)
EdgeAt(k, m, pod, e) == PodSwitch(k, m, pod, m + e)

LEMMA TreeSwitches ==
  ASSUME NEW k, NEW m, Halves(k, m), NEW S, S = fat_tree_switch_count(k)
  PROVE  /\ \A i, j \in 0 .. m - 1 : CoreAt(m, i, j) \in 0 .. S - 1
         /\ \A pod \in 0 .. k - 1 : \A a \in 0 .. m - 1 :
              AggAt(k, m, pod, a) \in 0 .. S - 1 /\ EdgeAt(k, m, pod, a) \in 0 .. S - 1
         /\ \A u \in 0 .. S - 1 :
              \/ \E i, j \in 0 .. m - 1 : u = CoreAt(m, i, j)
              \/ \E pod \in 0 .. k - 1 : \E a \in 0 .. m - 1 :
                   u = AggAt(k, m, pod, a) \/ u = EdgeAt(k, m, pod, a)
<1>1. m \in Nat \ {0} /\ k \in Nat \ {0} /\ k = 2 * m /\ S = m * m + k * k
  BY HalvesTypes DEF Halves
<1>2. /\ \A pod, x \in 0 .. k - 1 :
            /\ PodSwitch(k, m, pod, x) \in 0 .. S - 1 /\ ~(PodSwitch(k, m, pod, x) < m * m)
            /\ (PodSwitch(k, m, pod, x) - m * m) \div k = pod
            /\ (PodSwitch(k, m, pod, x) - m * m) % k = x
      /\ \A i, j \in 0 .. m - 1 : i * m + j \in 0 .. S - 1 /\ i * m + j < m * m
      /\ \A u \in 0 .. S - 1 :
            \/ \E i, j \in 0 .. m - 1 : u = i * m + j
            \/ \E pod, x \in 0 .. k - 1 : u = PodSwitch(k, m, pod, x)
  BY PodNumbers
<1>3. \A pod, x \in 0 .. k - 1 : PodSwitch(k, m, pod, x) \in 0 .. S - 1
  BY ONLY <1>2, Zenon
<1>4. \A i, j \in 0 .. m - 1 : CoreAt(m, i, j) \in 0 .. S - 1
  BY ONLY <1>2, Zenon DEF CoreAt
<1>5. \A u \in 0 .. S - 1 :
            \/ \E i, j \in 0 .. m - 1 : u = CoreAt(m, i, j)
            \/ \E pod, x \in 0 .. k - 1 : u = PodSwitch(k, m, pod, x)
  BY ONLY <1>2, Zenon DEF CoreAt
<1>6. \A a \in 0 .. m - 1 : a \in 0 .. k - 1 /\ m + a \in 0 .. k - 1
  BY <1>1
<1>7. \A pod \in 0 .. k - 1 : \A a \in 0 .. m - 1 :
         AggAt(k, m, pod, a) \in 0 .. S - 1 /\ EdgeAt(k, m, pod, a) \in 0 .. S - 1
  BY ONLY <1>3, <1>6 DEF AggAt, EdgeAt
<1>8. ASSUME NEW pod \in 0 .. k - 1, NEW x \in 0 .. k - 1
      PROVE  \E a \in 0 .. m - 1 :
               PodSwitch(k, m, pod, x) = AggAt(k, m, pod, a)
                 \/ PodSwitch(k, m, pod, x) = EdgeAt(k, m, pod, a)
  <2>1. CASE x < m
    <3>1. x \in 0 .. m - 1
      BY <1>1, <2>1
    <3> QED BY <3>1 DEF AggAt
  <2>2. CASE ~(x < m)
    <3>1. PICK a : a = x - m
      OBVIOUS
    <3>2. a \in 0 .. m - 1 /\ x = m + a
      BY <1>1, <2>2, <3>1
    <3> QED BY <3>2 DEF EdgeAt
  <2> QED BY <2>1, <2>2
<1> QED BY ONLY <1>4, <1>5, <1>7, <1>8

LEMMA TreeLinks ==
  ASSUME NEW k, NEW m, Halves(k, m)
  PROVE  \A l : l \in Unions(Pods(k), k) <=>
           \E pod \in 0 .. k - 1 : \E a, j \in 0 .. m - 1 :
             \/ l = <<AggAt(k, m, pod, a), CoreAt(m, a, j)>>
             \/ l = <<AggAt(k, m, pod, a), EdgeAt(k, m, pod, j)>>
<1>1. \A pod, a, j : /\ CoreLink(k, m, pod, a, j) = <<AggAt(k, m, pod, a), CoreAt(m, a, j)>>
                     /\ EdgeLink(k, m, pod, a, j) = <<AggAt(k, m, pod, a), EdgeAt(k, m, pod, j)>>
  BY DEF CoreLink, EdgeLink, CoreAt, AggAt, EdgeAt
<1>2. \A l : l \in Unions(Pods(k), k) <=>
           \E pod \in 0 .. k - 1 : \E a, j \in 0 .. m - 1 :
             l = CoreLink(k, m, pod, a, j) \/ l = EdgeLink(k, m, pod, a, j)
  BY PodsAre
<1> QED BY ONLY <1>1, <1>2

LEMMA TreeFrom ==
  ASSUME NEW k, NEW m, Halves(k, m), NEW d \in Nat
  PROVE  /\ \A i, j \in 0 .. m - 1 : FromSwitch(k, m, d, CoreAt(m, i, j)) = 3
         /\ \A pod \in 0 .. k - 1 : \A a \in 0 .. m - 1 :
              /\ FromSwitch(k, m, d, AggAt(k, m, pod, a))
                   = IF pod = d \div (m * m) THEN 2 ELSE 4
              /\ FromSwitch(k, m, d, EdgeAt(k, m, pod, a))
                   = IF pod # d \div (m * m) THEN 5 ELSE IF a = Column(m, d) THEN 1 ELSE 3
<1>1. m \in Nat \ {0} /\ k \in Nat \ {0} /\ k = 2 * m
  BY HalvesTypes
<1>2. /\ \A i, j \in 0 .. m - 1 : FromSwitch(k, m, d, i * m + j) = 3
      /\ \A pod \in 0 .. k - 1 : \A a \in 0 .. m - 1 :
              FromSwitch(k, m, d, PodSwitch(k, m, pod, a))
                = IF pod = d \div (m * m) THEN 2 ELSE 4
      /\ \A pod \in 0 .. k - 1 : \A e \in 0 .. m - 1 :
              FromSwitch(k, m, d, PodSwitch(k, m, pod, m + e))
                = IF pod # d \div (m * m) THEN 5 ELSE IF e = Column(m, d) THEN 1 ELSE 3
  BY TreeDistances
<1> QED BY ONLY <1>2, Zenon DEF CoreAt, AggAt, EdgeAt

(* A host's edge switch.                                                   *)
LEMMA TreeHosts ==
  ASSUME NEW k, NEW m, Halves(k, m), NEW H, H = fat_tree_host_count(k), NEW n \in 0 .. H - 1
  PROVE  /\ n \in Nat /\ n \div (m * m) \in 0 .. k - 1 /\ Column(m, n) \in 0 .. m - 1
         /\ EdgesOf(k, H)[n] = EdgeAt(k, m, n \div (m * m), Column(m, n))
<1>1. m \in Nat \ {0} /\ k \in Nat \ {0} /\ H = k * (m * m) /\ H \in Nat /\ m * m \in Nat \ {0}
  BY HalvesTypes DEF Halves
<1>2. n \in Nat /\ Column(m, n) \in 0 .. m - 1
  BY <1>1, ColumnIn
<1>3. n \div (m * m) \in 0 .. k - 1
  <2>1. PICK c : c = m * m
    OBVIOUS
  <2>2. c \in Nat \ {0} /\ n \in 0 .. k * c - 1
    BY <1>1, <2>1
  <2>3. n \div c \in 0 .. k - 1
    BY <1>1, <2>2, RowOf
  <2> QED BY <2>1, <2>3
<1>4. EdgesOf(k, H)[n] = EdgeOf(k, n)
  BY DEF EdgesOf
<1>5. \A x \in Nat : EdgeOf(k, x) = PodSwitch(k, m, x \div (m * m), m + Column(m, x))
  BY SwitchNumbers
<1>6. EdgeOf(k, n) = PodSwitch(k, m, n \div (m * m), m + Column(m, n))
  BY ONLY <1>2, <1>5, Zenon
<1> QED BY ONLY <1>2, <1>3, <1>4, <1>6, Zenon DEF EdgeAt

LEMMA FatTreeTiered ==
  ASSUME NEW k, NEW m, Halves(k, m), NEW S, S = fat_tree_switch_count(k),
         NEW H, H = fat_tree_host_count(k)
  PROVE  Tiered(FatTree(k), S, H, Unions(Pods(k), k), EdgesOf(k, H), FromSwitches(k, m, S, H))
<1>1. PICK M, up, F, b : /\ M = Unions(Pods(k), k) /\ up = EdgesOf(k, H)
                         /\ F = FromSwitches(k, m, S, H) /\ b = FatTree(k)
  OBVIOUS
<1>2. m \in Nat \ {0} /\ k \in Nat \ {0} /\ S \in Nat /\ H \in Nat /\ IsArity(k)
  BY HalvesTypes
<1>3. /\ \A i, j \in 0 .. m - 1 : CoreAt(m, i, j) \in 0 .. S - 1
      /\ \A pod \in 0 .. k - 1 : \A a \in 0 .. m - 1 :
           AggAt(k, m, pod, a) \in 0 .. S - 1 /\ EdgeAt(k, m, pod, a) \in 0 .. S - 1
      /\ \A u \in 0 .. S - 1 :
           \/ \E i, j \in 0 .. m - 1 : u = CoreAt(m, i, j)
           \/ \E pod \in 0 .. k - 1 : \E a \in 0 .. m - 1 :
                u = AggAt(k, m, pod, a) \/ u = EdgeAt(k, m, pod, a)
  BY TreeSwitches
<1>4. \A l : l \in M <=>
           \E pod \in 0 .. k - 1 : \E a, j \in 0 .. m - 1 :
             \/ l = <<AggAt(k, m, pod, a), CoreAt(m, a, j)>>
             \/ l = <<AggAt(k, m, pod, a), EdgeAt(k, m, pod, j)>>
  BY <1>1, TreeLinks
<1>5. \A n \in 0 .. H - 1 :
         /\ n \in Nat /\ n \div (m * m) \in 0 .. k - 1 /\ Column(m, n) \in 0 .. m - 1
         /\ up[n] = EdgeAt(k, m, n \div (m * m), Column(m, n))
  BY <1>1, TreeHosts
<1>6. b \in Made(S, H, M \cup Risers(S, H, up))
  <2>1. b \in Made(S, H, M \cup Images(HostLink(k), H))
    BY <1>1, <1>2, FatTreeMade
  <2>2. \A n \in 0 .. H - 1 : HostLink(k)[n] = <<S + n, up[n]>>
    <3> SUFFICES ASSUME NEW n \in 0 .. H - 1 PROVE HostLink(k)[n] = <<S + n, up[n]>>
      OBVIOUS
    <3>1. n \in Nat
      BY <1>2
    <3>2. HostLink(k)[n] = <<S + n, EdgeOf(k, n)>>
      BY <3>1 DEF HostLink
    <3>3. up[n] = EdgeOf(k, n)
      BY <1>1 DEF EdgesOf
    <3> QED BY ONLY <3>2, <3>3
  <2>3. Images(HostLink(k), H) = Risers(S, H, up)
    <3>1. \A l : l \in Images(HostLink(k), H) <=> \E n \in 0 .. H - 1 : l = HostLink(k)[n]
      BY DEF Images
    <3>2. \A l : l \in Risers(S, H, up) <=> \E n \in 0 .. H - 1 : l = <<S + n, up[n]>>
      BY DEF Risers
    <3>3. \A l : l \in Images(HostLink(k), H) <=> l \in Risers(S, H, up)
      BY ONLY <2>2, <3>1, <3>2
    <3> QED BY <3>3
  <2> QED BY <2>1, <2>3
<1>7. \A l \in M : l = <<l[1], l[2]>> /\ l[1] \in 0 .. S - 1 /\ l[2] \in 0 .. S - 1
  <2> SUFFICES ASSUME NEW l \in M
               PROVE  l = <<l[1], l[2]>> /\ l[1] \in 0 .. S - 1 /\ l[2] \in 0 .. S - 1
    OBVIOUS
  <2>1. PICK pod \in 0 .. k - 1, a \in 0 .. m - 1, j \in 0 .. m - 1 :
             \/ l = <<AggAt(k, m, pod, a), CoreAt(m, a, j)>>
             \/ l = <<AggAt(k, m, pod, a), EdgeAt(k, m, pod, j)>>
    BY <1>4
  <2>2. /\ AggAt(k, m, pod, a) \in 0 .. S - 1 /\ CoreAt(m, a, j) \in 0 .. S - 1
        /\ EdgeAt(k, m, pod, j) \in 0 .. S - 1
    BY <1>3
  <2> QED BY ONLY <2>1, <2>2
<1>8. \A n \in 0 .. H - 1 : up[n] \in 0 .. S - 1
  BY ONLY <1>3, <1>5
<1>9. ASSUME NEW d \in 0 .. H - 1
      PROVE  /\ \A u \in 0 .. S - 1 :
                  /\ F[d][u] \in Nat /\ F[d][u] # 0 /\ (F[d][u] = 1 <=> u = up[d])
                  /\ F[d][u] # 1 => \E v \in 0 .. S - 1 : /\ <<u, v>> \in M \/ <<v, u>> \in M
                                                        /\ F[d][u] = F[d][v] + 1
             /\ \A l \in M : F[d][l[1]] = F[d][l[2]] + 1 \/ F[d][l[2]] = F[d][l[1]] + 1
  <2>1. PICK G : G = F[d]
    OBVIOUS
  <2>2. PICK p, e : p = d \div (m * m) /\ e = Column(m, d)
    OBVIOUS
  <2>3. p \in 0 .. k - 1 /\ e \in 0 .. m - 1 /\ up[d] = EdgeAt(k, m, p, e)
    BY ONLY <1>5, <2>2
  <2>4. \A u \in 0 .. S - 1 : G[u] = FromSwitch(k, m, d, u)
    BY <1>1, <2>1 DEF FromSwitches
  <2>5. d \in Nat
    BY <1>5
  <2>6. /\ \A i, j \in 0 .. m - 1 : FromSwitch(k, m, d, CoreAt(m, i, j)) = 3
        /\ \A pod \in 0 .. k - 1 : \A a \in 0 .. m - 1 :
             /\ FromSwitch(k, m, d, AggAt(k, m, pod, a)) = IF pod = d \div (m * m) THEN 2 ELSE 4
             /\ FromSwitch(k, m, d, EdgeAt(k, m, pod, a))
                  = IF pod # d \div (m * m) THEN 5 ELSE IF a = Column(m, d) THEN 1 ELSE 3
    BY <2>5, TreeFrom
  <2>7. \A i, j \in 0 .. m - 1 : G[CoreAt(m, i, j)] = 3
    BY ONLY <1>3, <2>4, <2>6
  <2>8. \A pod \in 0 .. k - 1 : \A a \in 0 .. m - 1 :
             /\ G[AggAt(k, m, pod, a)] = IF pod = p THEN 2 ELSE 4
             /\ G[EdgeAt(k, m, pod, a)] = IF pod # p THEN 5 ELSE IF a = e THEN 1 ELSE 3
    BY ONLY <1>3, <2>2, <2>4, <2>6
  <2>9. \A l \in M : G[l[1]] = G[l[2]] + 1 \/ G[l[2]] = G[l[1]] + 1
    <3> SUFFICES ASSUME NEW l \in M PROVE G[l[1]] = G[l[2]] + 1 \/ G[l[2]] = G[l[1]] + 1
      OBVIOUS
    <3>1. PICK pod \in 0 .. k - 1, a \in 0 .. m - 1, j \in 0 .. m - 1 :
               \/ l = <<AggAt(k, m, pod, a), CoreAt(m, a, j)>>
               \/ l = <<AggAt(k, m, pod, a), EdgeAt(k, m, pod, j)>>
      BY <1>4
    <3>2. /\ G[CoreAt(m, a, j)] = 3 /\ G[AggAt(k, m, pod, a)] = IF pod = p THEN 2 ELSE 4
          /\ G[EdgeAt(k, m, pod, j)] = IF pod # p THEN 5 ELSE IF j = e THEN 1 ELSE 3
      BY ONLY <2>7, <2>8
    <3> QED BY ONLY <3>1, <3>2
  <2>10. ASSUME NEW i \in 0 .. m - 1, NEW j \in 0 .. m - 1
         PROVE  /\ \E v \in 0 .. S - 1 : /\ <<v, CoreAt(m, i, j)>> \in M
                                         /\ G[CoreAt(m, i, j)] = G[v] + 1
                /\ G[CoreAt(m, i, j)] = 3 /\ CoreAt(m, i, j) # up[d]
    <3>1. AggAt(k, m, p, i) \in 0 .. S - 1 /\ <<AggAt(k, m, p, i), CoreAt(m, i, j)>> \in M
      BY ONLY <1>3, <1>4, <2>3
    <3>2. G[CoreAt(m, i, j)] = 3 /\ G[AggAt(k, m, p, i)] = 2 /\ G[up[d]] = 1
      BY ONLY <2>3, <2>7, <2>8
    <3> QED BY ONLY <3>1, <3>2
  <2>11. ASSUME NEW pod \in 0 .. k - 1, NEW a \in 0 .. m - 1
         PROVE  /\ \E v \in 0 .. S - 1 : /\ <<AggAt(k, m, pod, a), v>> \in M
                                         /\ G[AggAt(k, m, pod, a)] = G[v] + 1
                /\ G[AggAt(k, m, pod, a)] \in {2, 4} /\ AggAt(k, m, pod, a) # up[d]
    <3>1. G[AggAt(k, m, pod, a)] = (IF pod = p THEN 2 ELSE 4) /\ G[up[d]] = 1
      BY ONLY <2>3, <2>8
    <3>2. CASE pod = p
      <4>1. EdgeAt(k, m, p, e) \in 0 .. S - 1 /\ <<AggAt(k, m, pod, a), EdgeAt(k, m, p, e)>> \in M
        BY ONLY <1>3, <1>4, <2>3, <3>2
      <4> QED BY ONLY <2>3, <3>1, <3>2, <4>1
    <3>3. CASE pod # p
      <4>1. /\ CoreAt(m, a, a) \in 0 .. S - 1 /\ <<AggAt(k, m, pod, a), CoreAt(m, a, a)>> \in M
            /\ G[CoreAt(m, a, a)] = 3
        BY ONLY <1>3, <1>4, <2>7
      <4> QED BY ONLY <3>1, <3>3, <4>1
    <3> QED BY <3>2, <3>3
  <2>12. ASSUME NEW pod \in 0 .. k - 1, NEW a \in 0 .. m - 1
         PROVE  /\ G[EdgeAt(k, m, pod, a)] # 1 =>
                     \E v \in 0 .. S - 1 : /\ <<v, EdgeAt(k, m, pod, a)>> \in M
                                           /\ G[EdgeAt(k, m, pod, a)] = G[v] + 1
                /\ G[EdgeAt(k, m, pod, a)] \in {1, 3, 5}
                /\ G[EdgeAt(k, m, pod, a)] = 1 <=> EdgeAt(k, m, pod, a) = up[d]
    <3>1. /\ G[EdgeAt(k, m, pod, a)] = IF pod # p THEN 5 ELSE IF a = e THEN 1 ELSE 3
          /\ G[AggAt(k, m, pod, a)] = (IF pod = p THEN 2 ELSE 4) /\ G[up[d]] = 1
      BY ONLY <2>3, <2>8
    <3>2. AggAt(k, m, pod, a) \in 0 .. S - 1 /\ <<AggAt(k, m, pod, a), EdgeAt(k, m, pod, a)>> \in M
      BY ONLY <1>3, <1>4
    <3>3. G[EdgeAt(k, m, pod, a)] = 1 <=> EdgeAt(k, m, pod, a) = up[d]
      BY ONLY <2>3, <3>1
    <3>4. G[EdgeAt(k, m, pod, a)] # 1 => G[EdgeAt(k, m, pod, a)] = G[AggAt(k, m, pod, a)] + 1
      BY ONLY <3>1
    <3>5. G[EdgeAt(k, m, pod, a)] \in {1, 3, 5}
      BY ONLY <3>1
    <3> QED BY ONLY <3>2, <3>3, <3>4, <3>5
  <2>13. ASSUME NEW u \in 0 .. S - 1
         PROVE  /\ G[u] \in Nat /\ G[u] # 0 /\ (G[u] = 1 <=> u = up[d])
                /\ G[u] # 1 => \E v \in 0 .. S - 1 : /\ <<u, v>> \in M \/ <<v, u>> \in M
                                                   /\ G[u] = G[v] + 1
    <3>1. CASE \E i, j \in 0 .. m - 1 : u = CoreAt(m, i, j)
      <4>1. PICK i \in 0 .. m - 1, j \in 0 .. m - 1 : u = CoreAt(m, i, j)
        BY <3>1
      <4>2. /\ \E v \in 0 .. S - 1 : <<v, u>> \in M /\ G[u] = G[v] + 1
            /\ G[u] = 3 /\ u # up[d]
        BY ONLY <2>10, <4>1
      <4> QED BY <4>2
    <3>2. CASE \E pod \in 0 .. k - 1 : \E a \in 0 .. m - 1 : u = AggAt(k, m, pod, a)
      <4>1. PICK pod \in 0 .. k - 1, a \in 0 .. m - 1 : u = AggAt(k, m, pod, a)
        BY <3>2
      <4>2. /\ \E v \in 0 .. S - 1 : <<u, v>> \in M /\ G[u] = G[v] + 1
            /\ G[u] \in {2, 4} /\ u # up[d]
        BY ONLY <2>11, <4>1
      <4> QED BY <4>2
    <3>3. CASE \E pod \in 0 .. k - 1 : \E a \in 0 .. m - 1 : u = EdgeAt(k, m, pod, a)
      <4>1. PICK pod \in 0 .. k - 1, a \in 0 .. m - 1 : u = EdgeAt(k, m, pod, a)
        BY <3>3
      <4>2. /\ G[u] # 1 => \E v \in 0 .. S - 1 : <<v, u>> \in M /\ G[u] = G[v] + 1
            /\ G[u] \in {1, 3, 5} /\ (G[u] = 1 <=> u = up[d])
        BY ONLY <2>12, <4>1
      <4> QED BY <4>2
    <3> QED BY <1>3, <3>1, <3>2, <3>3
  <2> QED BY <2>1, <2>9, <2>13
<1>10. Tiered(b, S, H, M, up, F)
  BY <1>2, <1>6, <1>7, <1>8, <1>9 DEF Tiered
<1> QED BY <1>1, <1>10

-----------------------------------------------------------------------------
(* The closed forms of fat_tree.hpp and leaf_spine.hpp.                     *)
LEMMA Digits ==
  ASSUME NEW m \in Nat \ {0}, NEW n \in Nat
  PROVE  (n \div m) \div m = n \div (m * m)
<1>1. PICK c, y, r : c = m * m /\ y = n \div m /\ r = n % m
  OBVIOUS
<1>2. c \in Nat \ {0} /\ y \in Nat /\ r \in 0 .. m - 1 /\ n = y * m + r
  <2>1. c \in Nat \ {0}
    BY <1>1
  <2>2. y \in Nat /\ r \in 0 .. m - 1 /\ n = y * m + r
    BY <1>1, DivMod
  <2> QED BY <2>1, <2>2
<1>3. PICK q, e : q = y \div m /\ e = y % m
  OBVIOUS
<1>4. q \in Nat /\ e \in 0 .. m - 1 /\ y = q * m + e
  BY <1>2, <1>3, DivMod
<1>5. PICK x : x = e * m + r
  OBVIOUS
<1>6. x \in 0 .. c - 1
  BY <1>1, <1>2, <1>4, <1>5, CellFacts
<1>7. n = q * c + x
  <2>1. y * m = q * c + e * m
    BY <1>1, <1>2, <1>4
  <2>2. PICK f, g : f = q * c /\ g = e * m
    OBVIOUS
  <2>3. f \in Nat /\ g \in Nat
    BY <1>2, <1>4, <2>2
  <2>4. n = f + g + r /\ x = g + r
    BY <1>2, <1>5, <2>1, <2>2
  <2>5. n = f + x
    BY <1>2, <2>3, <2>4
  <2> QED BY <2>2, <2>5
<1>8. n \div c = q
  <2>1. PICK t : t = q + 1
    OBVIOUS
  <2>2. q \in 0 .. t - 1 /\ t \in Nat /\ c \in Nat
    BY <1>2, <1>4, <2>1
  <2>3. (q * c + x) \div c = q
    BY ONLY <1>6, <2>2, CellFacts
  <2> QED BY <1>7, <2>3
<1> QED BY <1>1, <1>3, <1>8

LEMMA SameEdge ==
  ASSUME NEW m \in Nat \ {0}, NEW s \in Nat, NEW d \in Nat
  PROVE  s \div m = d \div m
           <=> s \div (m * m) = d \div (m * m) /\ Column(m, s) = Column(m, d)
<1>1. PICK x, y : x = s \div m /\ y = d \div m
  OBVIOUS
<1>2. x \in Nat /\ y \in Nat
  BY <1>1, DivMod
<1>3. s \div (m * m) = x \div m /\ d \div (m * m) = y \div m
  BY <1>1, Digits
<1>4. Column(m, s) = x % m /\ Column(m, d) = y % m
  BY <1>1 DEF Column
<1>5. x = (x \div m) * m + (x % m) /\ y = (y \div m) * m + (y % m)
  BY <1>2, DivMod
<1> QED BY <1>1, <1>3, <1>4, <1>5

LEMMA TreeHops ==
  ASSUME NEW k, NEW m, Halves(k, m), NEW S, S = fat_tree_switch_count(k),
         NEW H, H = fat_tree_host_count(k), NEW s \in 0 .. H - 1, NEW d \in 0 .. H - 1
  PROVE  FromSwitches(k, m, S, H)[d][EdgesOf(k, H)[s]] + 1 = fat_tree_hops(k, s, d)
<1>1. /\ m \in Nat \ {0} /\ k \div 2 = m /\ fat_tree_hosts_per_pod(k) = m * m
      /\ s \in Nat /\ d \in Nat
  BY HalvesTypes DEF Halves
<1>2. PICK u, v : u = EdgesOf(k, H)[s] /\ v = FromSwitches(k, m, S, H)[d][u]
  OBVIOUS
<1>3. PICK p, e, q, f : /\ p = s \div (m * m) /\ e = Column(m, s)
                        /\ q = d \div (m * m) /\ f = Column(m, d)
  OBVIOUS
<1>4. p \in 0 .. k - 1 /\ e \in 0 .. m - 1 /\ u = EdgeAt(k, m, p, e)
  BY <1>2, <1>3, TreeHosts
<1>5. u \in 0 .. S - 1
  BY <1>4, TreeSwitches
<1>6. v = FromSwitch(k, m, d, EdgeAt(k, m, p, e))
  BY <1>2, <1>4, <1>5 DEF FromSwitches
<1>7. v = IF p # q THEN 5 ELSE IF e = f THEN 1 ELSE 3
  <2>1. \A pod \in 0 .. k - 1 : \A a \in 0 .. m - 1 :
          /\ FromSwitch(k, m, d, AggAt(k, m, pod, a))
               = IF pod = d \div (m * m) THEN 2 ELSE 4
          /\ FromSwitch(k, m, d, EdgeAt(k, m, pod, a))
               = IF pod # d \div (m * m) THEN 5 ELSE IF a = Column(m, d) THEN 1 ELSE 3
    BY <1>1, TreeFrom
  <2> QED BY ONLY <1>3, <1>4, <1>6, <2>1
<1>8. /\ fat_tree_edge_of_host(k, s) = fat_tree_edge_of_host(k, d) <=> (p = q /\ e = f)
      /\ fat_tree_pod_of_host(k, s) = fat_tree_pod_of_host(k, d) <=> p = q
  <2>1. /\ fat_tree_edge_of_host(k, s) = s \div m /\ fat_tree_edge_of_host(k, d) = d \div m
        /\ fat_tree_pod_of_host(k, s) = p /\ fat_tree_pod_of_host(k, d) = q
    BY <1>1, <1>3 DEF fat_tree_edge_of_host, fat_tree_hosts_per_edge, fat_tree_pod_of_host
  <2>2. s \div m = d \div m <=> (p = q /\ e = f)
    BY <1>1, <1>3, SameEdge
  <2> QED BY ONLY <2>1, <2>2
<1>9. fat_tree_hops(k, s, d) = IF p = q /\ e = f THEN 2 ELSE IF p = q THEN 4 ELSE 6
  BY <1>8 DEF fat_tree_hops
<1>10. v + 1 = fat_tree_hops(k, s, d)
  BY ONLY <1>7, <1>9
<1> QED BY <1>2, <1>10

LEMMA SpineHops ==
  ASSUME NEW c \in LeafSpines, NEW S, S = c[1] + c[2], NEW H, H = c[2] * c[3],
         NEW s \in 0 .. H - 1, NEW d \in 0 .. H - 1
  PROVE  FromSpines(c[1], S, H, c[3])[d][LeafOf(c[1], H, c[3])[s]] + 1
           = LeafSpineHops(c[3], s, d)
<1>1. PICK spines, leaves, w : spines = c[1] /\ leaves = c[2] /\ w = c[3]
  OBVIOUS
<1>2. /\ spines \in Nat \ {0} /\ leaves \in Nat \ {0} /\ w \in Nat \ {0}
      /\ S = spines + leaves /\ H = leaves * w
  BY <1>1, ConfigsAssumption
<1>3. PICK x, y : x = s \div w /\ y = d \div w
  OBVIOUS
<1>4. x \in 0 .. leaves - 1 /\ y \in 0 .. leaves - 1
  BY <1>2, <1>3, RowOf
<1>5. LeafOf(spines, H, w)[s] = spines + x
  BY <1>3 DEF LeafOf
<1>6. PICK z : z = spines + x
  OBVIOUS
<1>7. FromSpines(spines, S, H, w)[d][z] = IF x = y THEN 1 ELSE 3
  <2>1. z \in 0 .. S - 1 /\ ~(z < spines) /\ z - spines = x
    BY <1>2, <1>4, <1>6
  <2>2. FromSpines(spines, S, H, w)[d][z]
          = IF z < spines THEN 2 ELSE IF z - spines = d \div w THEN 1 ELSE 3
    BY ONLY d \in 0 .. H - 1, <2>1, Zenon DEF FromSpines
  <2> QED BY ONLY <1>3, <2>1, <2>2
<1>8. LeafSpineHops(w, s, d) = IF x = y THEN 2 ELSE 4
  BY <1>3 DEF LeafSpineHops
<1>9. FromSpines(spines, S, H, w)[d][LeafOf(spines, H, w)[s]] + 1 = LeafSpineHops(w, s, d)
  BY ONLY <1>5, <1>6, <1>7, <1>8
<1> QED BY ONLY <1>1, <1>9, Zenon

(* A packet under way has two hosts, and runs on a finished table.         *)
TwoHosts == at # {} => /\ pc = "done" /\ src # dst
                       /\ src \in 0 .. host_count - 1 /\ dst \in 0 .. host_count - 1

LEMMA TwoHostsHold == Spec => []TwoHosts
<1>1. Init => TwoHosts
  BY DEF Init, TwoHosts
<1>2. ASSUME TableInv, TwoHosts, [Next]_vars
      PROVE  TwoHosts'
  <2>1. host_count' = host_count
    <3>1. plan' = plan
      BY <1>2 DEF Next, TableNext, Build, Materialise, Search, Look, NextNode, Level, Collect,
                  Pack, Send, Forward, Arrive, vars, tableVars, fabric
    <3> QED BY <3>1 DEF host_count, hosts
  <2>2. ASSUME NEW s \in 0 .. host_count - 1, NEW d \in 0 .. host_count - 1, Send(s, d)
        PROVE  TwoHosts'
    BY <2>1, <2>2 DEF Send, TwoHosts, tableVars
  <2>3. CASE Forward
    BY <1>2, <2>1, <2>3 DEF Forward, TwoHosts, tableVars
  <2>4. CASE Arrive
    BY <2>4 DEF Arrive, TwoHosts
  <2>5. CASE UNCHANGED trip /\ at = {}
    BY <2>5 DEF trip, TwoHosts
  <2>6. CASE (TableNext \/ UNCHANGED tableVars) /\ UNCHANGED trip /\ at # {}
    <3>1. pc = "done" /\ Built
      BY <1>2, <2>6 DEF TwoHosts, TableInv, SearchInv
    <3>2. ~TableNext
      <4>1. ~Build
        <5>1. Len(plan.edges) \in Nat /\ made \in Nat /\ made = Len(plan.edges)
          BY <1>2, <3>1, LayoutFacts DEF TableInv, FabricInv, Links, Built
        <5> QED BY <5>1 DEF Build, Materialise
      <4> QED BY <3>1, <4>1 DEF TableNext, Search, Look, NextNode, Level, Collect, Pack
    <3>3. UNCHANGED tableVars
      BY <2>6, <3>2
    <3> QED BY <1>2, <2>1, <2>6, <3>3 DEF TwoHosts, trip, tableVars
  <2> QED BY <1>2, <2>2, <2>3, <2>4, <2>5, <2>6 DEF Next, vars
<1> QED BY <1>1, <1>2, TableHolds, PTL DEF Spec

-----------------------------------------------------------------------------
(* The closed forms, of every trip on every topology.                      *)
LEMMA SpinesTiered ==
  ASSUME NEW c \in LeafSpines, NEW S, S = c[1] + c[2], NEW H, H = c[2] * c[3]
  PROVE  Tiered(Spines[c], S, H, Unions(Meshes(c[1]), c[2]), LeafOf(c[1], H, c[3]),
                FromSpines(c[1], S, H, c[3]))
<1>1. PICK x, y, z : x = c[1] /\ y = c[2] /\ z = c[3]
  OBVIOUS
<1>2. x \in Nat \ {0} /\ y \in Nat \ {0} /\ z \in Nat \ {0}
  BY <1>1, ConfigsAssumption
<1>3. Spines[c] = LeafSpine(x, y, z)
  BY <1>1 DEF Spines
<1>4. Tiered(LeafSpine(x, y, z), x + y, y * z, Unions(Meshes(x), y), LeafOf(x, y * z, z),
             FromSpines(x, x + y, y * z, z))
  BY <1>2, LeafSpineTiered
<1> QED BY ONLY <1>1, <1>3, <1>4, S = c[1] + c[2], H = c[2] * c[3], Zenon

LEMMA TreesTiered ==
  ASSUME NEW k \in Arities
  PROVE  \E m, S, H : /\ Halves(k, m) /\ S = fat_tree_switch_count(k)
                      /\ H = fat_tree_host_count(k)
                      /\ Tiered(Trees[k], S, H, Unions(Pods(k), k), EdgesOf(k, H),
                                FromSwitches(k, m, S, H))
<1>1. IsArity(k)
  BY ConfigsAssumption DEF IsArity
<1>2. PICK m : Halves(k, m)
  BY <1>1, HalvesOf
<1>3. PICK S, H : S = fat_tree_switch_count(k) /\ H = fat_tree_host_count(k)
  OBVIOUS
<1>4. Trees[k] = FatTree(k)
  BY DEF Trees
<1>5. Tiered(FatTree(k), S, H, Unions(Pods(k), k), EdgesOf(k, H), FromSwitches(k, m, S, H))
  BY <1>2, <1>3, FatTreeTiered
<1> QED BY <1>2, <1>3, <1>4, <1>5, Zenon

LEMMA ConfiguredWired ==
  ASSUME Layout, plan \in Configured
  PROVE  WellWired
<1>1. ASSUME NEW k \in Arities, plan = Trees[k]
      PROVE  WellWired
  BY <1>1, TreesTiered, TieredAway, Zenon
<1>2. ASSUME NEW c \in LeafSpines, plan = Spines[c]
      PROVE  WellWired
  BY <1>2, SpinesTiered, TieredAway, Zenon
<1> QED BY <1>1, <1>2 DEF Configured

(* HopsAsPromised: fat_tree_hops of fat_tree.hpp and the two constants of   *)
(* leaf_spine.hpp are the number of links every packet crosses between two  *)
(* hosts, for every even arity and every number of spines, leaves and hosts *)
(* per leaf, whichever candidates the switches pick.                       *)
THEOREM EveryHopCounted == Spec => []HopsAsPromised
<1>1. ASSUME TableInv, WellWired => TripInv, TwoHosts
      PROVE  HopsAsPromised
  <2>1. Layout
    BY <1>1 DEF TableInv, FabricInv
  <2>2. ASSUME NEW u \in at, NEW k \in Arities, plan = Trees[k]
        PROVE  IF is_host(u) THEN hops = fat_tree_hops(k, src, dst)
               ELSE hops < fat_tree_hops(k, src, dst)
    <3>1. PICK m, S, H : /\ Halves(k, m) /\ S = fat_tree_switch_count(k)
                         /\ H = fat_tree_host_count(k)
                         /\ Tiered(plan, S, H, Unions(Pods(k), k), EdgesOf(k, H),
                                   FromSwitches(k, m, S, H))
      BY <2>2, TreesTiered, Zenon
    <3>2. src # dst /\ src \in 0 .. host_count - 1 /\ dst \in 0 .. host_count - 1
      BY <1>1 DEF TwoHosts
    <3>3. TripInv
      BY <1>1, <2>1, <3>1, TieredAway, Zenon
    <3>4. host_count = H
      BY <2>1, <3>1, TieredNodes
    <3>5. FromSwitches(k, m, S, H)[dst][EdgesOf(k, H)[src]] + 1 = fat_tree_hops(k, src, dst)
      <4>1. src \in 0 .. H - 1 /\ dst \in 0 .. H - 1
        BY <3>2, <3>4
      <4> QED BY <3>1, <4>1, TreeHops
    <3>6. IF is_host(u) THEN hops = FromSwitches(k, m, S, H)[dst][EdgesOf(k, H)[src]] + 1
          ELSE hops < FromSwitches(k, m, S, H)[dst][EdgesOf(k, H)[src]] + 1
      BY <2>1, <3>1, <3>2, <3>3, TieredTrips
    <3> QED BY ONLY <3>5, <3>6, Zenon
  <2>3. ASSUME NEW u \in at, NEW c \in LeafSpines, plan = Spines[c]
        PROVE  IF is_host(u) THEN hops = LeafSpineHops(c[3], src, dst)
               ELSE hops < LeafSpineHops(c[3], src, dst)
    <3>1. PICK S, H, M, up, F : /\ S = c[1] + c[2] /\ H = c[2] * c[3]
                                /\ M = Unions(Meshes(c[1]), c[2])
                                /\ up = LeafOf(c[1], H, c[3])
                                /\ F = FromSpines(c[1], S, H, c[3])
      OBVIOUS
    <3>2. Tiered(plan, S, H, M, up, F)
      BY <2>3, <3>1, SpinesTiered, Zenon
    <3>3. src # dst /\ src \in 0 .. host_count - 1 /\ dst \in 0 .. host_count - 1
      BY <1>1 DEF TwoHosts
    <3>4. TripInv
      BY <1>1, <2>1, <3>2, TieredAway, Zenon
    <3>5. host_count = H
      BY <2>1, <3>2, TieredNodes
    <3>6. F[dst][up[src]] + 1 = LeafSpineHops(c[3], src, dst)
      <4>1. PICK s, d : s = src /\ d = dst
        OBVIOUS
      <4>2. s \in 0 .. H - 1 /\ d \in 0 .. H - 1
        BY <3>3, <3>5, <4>1
      <4>3. F[d][up[s]] + 1 = LeafSpineHops(c[3], s, d)
        <5>1. FromSpines(c[1], S, H, c[3])[d][LeafOf(c[1], H, c[3])[s]] + 1
                = LeafSpineHops(c[3], s, d)
          BY <3>1, <4>2, SpineHops
        <5> QED BY ONLY <3>1, <5>1, Zenon
      <4> QED BY <4>1, <4>3
    <3>7. IF is_host(u) THEN hops = F[dst][up[src]] + 1 ELSE hops < F[dst][up[src]] + 1
      BY <2>1, <3>2, <3>3, <3>4, TieredTrips
    <3> QED BY ONLY <3>6, <3>7, Zenon
  <2> QED BY <2>2, <2>3 DEF HopsAsPromised
<1>2. TableInv /\ (WellWired => TripInv) /\ TwoHosts => HopsAsPromised
  BY <1>1
<1> QED BY <1>2, TableHolds, TripsHold, TwoHostsHold, PTL

(* NeverStrays on the topologies: no fat-tree of an even arity and no      *)
(* leaf-spine leaves a packet without a next hop or brings it to a wrong   *)
(* host, so on_arrive's assertions hold without a condition on the wiring. *)
THEOREM NoneStraysOnClos == Spec => [](plan \in Configured => NeverStrays)
<1>1. TableInv /\ (WellWired => NeverStrays) => (plan \in Configured => NeverStrays)
  BY ConfiguredWired DEF TableInv, FabricInv
<1> QED BY <1>1, TableHolds, NoPacketStrays, PTL

LEMMA PodsOfRanks ==
  ASSUME NEW k \in Nat \ {0}, NEW c \in Nat \ {0}, NEW r \in 0 .. c * k - 1
  PROVE  /\ r \div k \in 0 .. c - 1 /\ r % k \in 0 .. k - 1
         /\ ((r % k) * c + r \div k) \div c = r % k
<1>1. PICK p, q : p = r % k /\ q = r \div k
  OBVIOUS
<1>2. r \in Nat /\ q \in 0 .. c - 1
  <2>1. PICK H : H = c * k
    OBVIOUS
  <2>2. H \in Nat /\ r \in 0 .. H - 1
    BY <2>1
  <2>3. r \div k \in 0 .. c - 1
    BY RowOf
  <2> QED BY <1>1, <2>2, <2>3
<1>3. p \in 0 .. k - 1
  BY <1>1, <1>2, DivMod
<1>4. (p * c + q) \div c = p
  BY ONLY <1>2, <1>3, k \in Nat \ {0}, c \in Nat \ {0}, CellFacts
<1> QED BY ONLY <1>1, <1>2, <1>3, <1>4, Zenon

LEMMA NextPod ==
  ASSUME NEW k \in Nat \ {0}, k >= 2, NEW c \in Nat \ {0}, NEW H, H = c * k,
         NEW r \in 0 .. H - 1
  PROVE  (r + 1) % H \in 0 .. H - 1 /\ r % k # ((r + 1) % H) % k
<1>1. H \in Nat \ {0} /\ r \in Nat
  <2>1. H \in Nat /\ c * k > 0
    BY SMT
  <2> QED BY <2>1
<1>2. PICK p, q : p = r % k /\ q = r \div k
  OBVIOUS
<1>3. p \in 0 .. k - 1 /\ q \in Nat /\ r = q * k + p
  BY <1>1, <1>2, DivMod
<1>4. CASE r + 1 < H
  <2>1. PICK x, t, z : x = r + 1 /\ t = x % k /\ z = x \div k
    OBVIOUS
  <2>2. x \in Nat /\ x \in 0 .. H - 1
    BY <1>1, <1>4, <2>1
  <2>3. x % H = x
    BY <1>1, <2>2
  <2>4. t \in 0 .. k - 1 /\ z \in Nat /\ x = z * k + t
    BY <2>1, <2>2, DivMod
  <2>5. ASSUME t = p PROVE FALSE
    <3>1. PICK f, g : f = z * k /\ g = q * k
      OBVIOUS
    <3>2. f \in Nat /\ g \in Nat
      BY <1>3, <2>4, <3>1
    <3>3. x = f + p /\ r = g + p
      BY <1>3, <2>4, <2>5, <3>1
    <3>4. f = g + 1
      BY <1>1, <1>3, <2>1, <3>2, <3>3
    <3>5. z * k = q * k + 1
      BY <3>1, <3>4
    <3>6. CASE z <= q
      <4>1. z * k <= q * k
        BY <1>3, <2>4, <3>6
      <4> QED BY <3>1, <3>2, <3>4, <4>1
    <3>7. CASE z >= q + 1
      <4>1. z * k >= q * k + k
        BY <1>3, <2>4, <3>7
      <4> QED BY <3>1, <3>2, <3>4, <4>1
    <3> QED BY <1>3, <2>4, <3>6, <3>7
  <2> QED BY <1>2, <2>1, <2>2, <2>3, <2>5
<1>5. CASE r + 1 = H
  <2>1. (r + 1) % H = 0
    BY <1>1, <1>5
  <2>2. 0 % k = 0 /\ 0 \in 0 .. H - 1
    BY <1>1
  <2>3. ASSUME p = 0 PROVE FALSE
    <3>1. c * k = q * k + 1
      BY <1>1, <1>3, <1>5, <2>3
    <3>2. PICK f, g : f = c * k /\ g = q * k
      OBVIOUS
    <3>3. f \in Nat /\ g \in Nat /\ f = g + 1
      BY <1>3, <3>1, <3>2
    <3>4. CASE c <= q
      <4>1. c * k <= q * k
        BY <1>3, <3>4
      <4> QED BY <3>2, <3>3, <4>1
    <3>5. CASE c >= q + 1
      <4>1. c * k >= q * k + k
        BY <1>3, <3>5
      <4> QED BY <3>2, <3>3, <4>1
    <3> QED BY <1>3, <3>4, <3>5
  <2> QED BY <1>2, <2>1, <2>2, <2>3
<1> QED BY <1>1, <1>4, <1>5

LEMMA RanksOfPods ==
  ASSUME NEW k \in Nat \ {0}, NEW c \in Nat \ {0}, NEW s \in 0 .. c * k - 1
  PROVE  \E r \in 0 .. c * k - 1 : (r % k) * c + r \div k = s
<1>1. PICK p, q : p = s \div c /\ q = s % c
  OBVIOUS
<1>2. s \in Nat /\ s \in 0 .. k * c - 1
  BY SMT
<1>3. p \in 0 .. k - 1
  BY <1>1, <1>2, RowOf
<1>4. q \in 0 .. c - 1 /\ s = p * c + q
  BY <1>1, <1>2, DivMod
<1>5. PICK r : r = q * k + p
  OBVIOUS
<1>6. r \in 0 .. c * k - 1 /\ r \div k = q
  BY <1>3, <1>4, <1>5, CellFacts
<1>7. r % k = p
  <2>1. r \in Nat
    <3>1. PICK H : H = c * k
      OBVIOUS
    <3> QED BY <1>6, <3>1
  <2>2. PICK t, f : t = r % k /\ f = q * k
    OBVIOUS
  <2>3. t \in 0 .. k - 1 /\ r = f + t
    BY <1>6, <2>1, <2>2, DivMod
  <2>4. f \in Nat /\ r = f + p
    BY <1>4, <1>5, <2>2
  <2>5. t = p
    BY ONLY <1>3, <2>3, <2>4, k \in Nat \ {0}
  <2> QED BY <2>2, <2>5
<1>8. (r % k) * c + r \div k = s
  BY <1>4, <1>6, <1>7
<1> QED BY <1>6, <1>8

LEMMA CrossPodHops ==
  ASSUME NEW k, NEW m, Halves(k, m), NEW s \in Nat, NEW d \in Nat,
         s \div (m * m) # d \div (m * m)
  PROVE  fat_tree_hops(k, s, d) = 6
<1>1. /\ m \in Nat \ {0} /\ k \div 2 = m /\ fat_tree_hosts_per_pod(k) = m * m
  BY HalvesTypes DEF Halves
<1>2. s \div m # d \div m
  BY <1>1, SameEdge
<1> QED BY <1>1, <1>2
        DEF fat_tree_hops, fat_tree_edge_of_host, fat_tree_hosts_per_edge, fat_tree_pod_of_host

(* RingCrossesPods: place_ranks of all_reduce.cpp, round robin over the     *)
(* pods, puts a rank on every host and the two hosts of every step of the  *)
(* ring, the last and the first included, in two pods, six links apart,    *)
(* for every even arity.                                                   *)
THEOREM EveryRingCrossesPods == Spec => []RingCrossesPods
<1>1. ASSUME TableInv, TwoHosts, HopsAsPromised
      PROVE  RingCrossesPods
  <2> SUFFICES ASSUME NEW u \in at, NEW k \in Arities, plan = Trees[k]
               PROVE  /\ \E r \in 0 .. host_count - 1 : RoundRobinPods(k, r) = src
                      /\ \A r \in 0 .. host_count - 1 :
                           /\ RoundRobinPods(k, r) = src
                           /\ RoundRobinPods(k, (r + 1) % host_count) = dst
                           => (is_host(u) <=> hops = 6)
    BY DEF RingCrossesPods
  <2>1. Layout
    BY <1>1 DEF TableInv, FabricInv
  <2>2. PICK m, S, H : /\ Halves(k, m) /\ S = fat_tree_switch_count(k)
                       /\ H = fat_tree_host_count(k)
                       /\ Tiered(plan, S, H, Unions(Pods(k), k), EdgesOf(k, H),
                                 FromSwitches(k, m, S, H))
    BY TreesTiered, Zenon
  <2>3. host_count = H
    BY <2>1, <2>2, TieredNodes
  <2>4. PICK c : c = m * m
    OBVIOUS
  <2>5. /\ k \in Nat \ {0} /\ k >= 2 /\ c \in Nat \ {0} /\ fat_tree_hosts_per_pod(k) = c
        /\ m \in Nat \ {0}
    BY <2>2, <2>4, HalvesTypes DEF Halves
  <2>6. H = c * k
    BY <2>2, <2>4, <2>5 DEF Halves
  <2>7. \A r : RoundRobinPods(k, r) = (r % k) * c + r \div k
    BY <2>5 DEF RoundRobinPods
  <2>8. src \in 0 .. H - 1 /\ dst \in 0 .. H - 1
    BY <1>1, <2>3 DEF TwoHosts
  <2>9. \E r \in 0 .. H - 1 : RoundRobinPods(k, r) = src
    <3>1. \A s \in 0 .. c * k - 1 : \E r \in 0 .. c * k - 1 : (r % k) * c + r \div k = s
      BY <2>5, RanksOfPods
    <3>2. \E r \in 0 .. H - 1 : (r % k) * c + r \div k = src
      BY ONLY <2>6, <2>8, <3>1, Zenon
    <3> QED BY ONLY <2>7, <3>2, Zenon
  <2>10. ASSUME NEW r \in 0 .. H - 1, RoundRobinPods(k, r) = src,
                RoundRobinPods(k, (r + 1) % H) = dst
         PROVE  is_host(u) <=> hops = 6
    <3>1. PICK n : n = (r + 1) % H
      OBVIOUS
    <3>2. n \in 0 .. H - 1 /\ r % k # n % k
      BY <2>5, <2>6, <3>1, NextPod
    <3>3. \A x \in 0 .. c * k - 1 : ((x % k) * c + x \div k) \div c = x % k
      BY <2>5, PodsOfRanks
    <3>4. src \div c = r % k /\ dst \div c = n % k
      BY ONLY <2>6, <2>7, <2>10, <3>1, <3>2, <3>3, Zenon
    <3>5. src \in Nat /\ dst \in Nat
      BY <2>8
    <3>6. fat_tree_hops(k, src, dst) = 6
      <4>1. PICK s, d : s = src /\ d = dst
        OBVIOUS
      <4>2. s \in Nat /\ d \in Nat /\ s \div (m * m) # d \div (m * m)
        BY <2>4, <3>2, <3>4, <3>5, <4>1, Zenon
      <4>3. fat_tree_hops(k, s, d) = 6
        BY ONLY <2>2, <4>2, CrossPodHops, Zenon
      <4> QED BY <4>1, <4>3, Zenon
    <3>7. IF is_host(u) THEN hops = 6 ELSE hops < 6
      BY <1>1, <3>6 DEF HopsAsPromised
    <3> QED BY <3>7
  <2> QED BY ONLY <2>3, <2>9, <2>10, Zenon
<1>2. TableInv /\ TwoHosts /\ HopsAsPromised => RingCrossesPods
  BY <1>1
<1> QED BY <1>2, TableHolds, TwoHostsHold, EveryHopCounted, PTL

(* Every configured topology is a record FabricBuilder::build is right for: *)
(* the links of the loops of build_fat_tree and build_leaf_spine end at two *)
(* different nodes that exist, for every even arity and every number of     *)
(* spines, leaves and hosts per leaf.                                      *)
THEOREM TopologiesBuild == \A b \in Configured : IsBlueprint(b)
<1>1. ASSUME NEW b, NEW S, NEW H, NEW M, NEW up, NEW F, Tiered(b, S, H, M, up, F), H # 0
      PROVE  IsBlueprint(b)
  <2>1. /\ S \in Nat /\ H \in Nat \ {0} /\ b \in Record /\ Len(b.is_host) = S + H
        /\ ToSet(b.edges) = M \cup Risers(S, H, up)
    BY <1>1 DEF Tiered, Made, Nodal
  <2>2. Size(b) = S + H
    BY <2>1 DEF Size
  <2>3. b.is_host \in Seq(BOOLEAN) /\ b.edges \in Seq(Link)
    BY <2>1 DEF Record
  <2>4. ASSUME NEW l \in M \cup Risers(S, H, up)
        PROVE  l \in (0 .. Size(b) - 1) \X (0 .. Size(b) - 1) /\ l[1] # l[2]
    <3>1. CASE l \in M
      <4>1. l = <<l[1], l[2]>> /\ l[1] \in 0 .. S - 1 /\ l[2] \in 0 .. S - 1
        BY <1>1, <3>1 DEF Tiered
      <4>2. PICK f : /\ f = F[0] /\ f[l[1]] \in Nat /\ f[l[2]] \in Nat
                     /\ f[l[1]] = f[l[2]] + 1 \/ f[l[2]] = f[l[1]] + 1
        <5>1. 0 \in 0 .. H - 1
          BY <2>1
        <5> QED BY <1>1, <3>1, <4>1, <5>1 DEF Tiered
      <4>3. l[1] # l[2]
        BY ONLY <4>2
      <4> QED BY <2>1, <2>2, <4>1, <4>3
    <3>2. CASE l \in Risers(S, H, up)
      <4>1. PICK n \in 0 .. H - 1 : l = <<S + n, up[n]>>
        BY <3>2 DEF Risers
      <4>2. up[n] \in 0 .. S - 1
        BY <1>1 DEF Tiered
      <4> QED BY <2>1, <2>2, <4>1, <4>2
    <3> QED BY <3>1, <3>2
  <2>5. \A i \in DOMAIN b.edges : b.edges[i] \in M \cup Risers(S, H, up)
    BY <2>1 DEF ToSet
  <2>6. \A i \in DOMAIN b.edges : /\ b.edges[i] \in (0 .. Size(b) - 1) \X (0 .. Size(b) - 1)
                                 /\ b.edges[i][1] # b.edges[i][2]
    BY <2>4, <2>5
  <2>7. b.edges \in Seq((0 .. Size(b) - 1) \X (0 .. Size(b) - 1))
    BY <2>3, <2>6
  <2> QED BY <2>3, <2>6, <2>7 DEF IsBlueprint
<1>2. ASSUME NEW k \in Arities PROVE IsBlueprint(Trees[k])
  <2>1. PICK m, S, H : /\ Halves(k, m) /\ H = fat_tree_host_count(k)
                       /\ Tiered(Trees[k], S, H, Unions(Pods(k), k), EdgesOf(k, H),
                                 FromSwitches(k, m, S, H))
    BY TreesTiered, Zenon
  <2>2. H # 0
    <3>1. PICK c : c = m * m
      OBVIOUS
    <3>2. c \in Nat \ {0} /\ k \in Nat \ {0} /\ H = k * c
      BY <2>1, <3>1, HalvesTypes DEF Halves
    <3> QED BY ONLY <3>2
  <2> QED BY <1>1, <2>1, <2>2, Zenon
<1>3. ASSUME NEW c \in LeafSpines PROVE IsBlueprint(Spines[c])
  <2>1. PICK x, y, S, H : x = c[2] /\ y = c[3] /\ S = c[1] + c[2] /\ H = c[2] * c[3]
    OBVIOUS
  <2>2. x \in Nat \ {0} /\ y \in Nat \ {0} /\ H = x * y
    BY <2>1, ConfigsAssumption
  <2>3. H # 0
    BY ONLY <2>2
  <2>4. Tiered(Spines[c], S, H, Unions(Meshes(c[1]), c[2]), LeafOf(c[1], H, c[3]),
               FromSpines(c[1], S, H, c[3]))
    BY <2>1, SpinesTiered, Zenon
  <2> QED BY <1>1, <2>3, <2>4, Zenon
<1> QED BY <1>2, <1>3 DEF Configured
=============================================================================
