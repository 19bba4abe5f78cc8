-------------------------- MODULE PermutationProofs --------------------------
(***************************************************************************)
(* The shuffle makes one cycle, for any number of hosts and any draws.     *)
(* While the loop is at i the permutation has one cycle for every host up  *)
(* to i, so that at 0 it has one.  Cycles are spoken of by the sets they   *)
(* are closed under: forward, along dst, and backward, against it.         *)
(***************************************************************************)
EXTENDS Permutation, TLAPS

TypeOK == i \in Hosts /\ dst \in [Hosts -> Hosts]

Forward(d, S)  == \A h \in S : d[h] \in S
Backward(d, S) == \A h \in Hosts : d[h] \in S => h \in S

(* Every cycle has a host up to k in it ... *)
Reaches(d, k) ==
  /\ \A S \in SUBSET Hosts : S # {} /\ Forward(d, S) => \E q \in S : q <= k
  /\ \A S \in SUBSET Hosts : S # {} /\ Backward(d, S) => \E q \in S : q <= k

(* ... and only one, its owner. *)
Owns(d, k, owner) ==
  /\ \A q \in Hosts : q <= k => owner[q] = q
  /\ \A q \in Hosts : owner[d[q]] = owner[q]

IInv == /\ TypeOK
        /\ Reaches(dst, i)
        /\ \E owner \in [Hosts -> Hosts] : Owns(dst, i, owner)

Swapped(d, a, b) == [d EXCEPT ![a] = d[b], ![b] = d[a]]

-----------------------------------------------------------------------------
(* RandomStream::below stays below its argument. *)
LEMMA BelowIsBelow == ASSUME NEW n \in Nat \ {0}, NEW r \in Accepted(n)
                      PROVE  below(r, n) \in 0 .. n - 1
<1>1. reject_below(n) \in Nat
  BY PermutationAssumption, SMT DEF reject_below
<1>2. r \in Nat
  BY <1>1, PermutationAssumption, SMT DEF Accepted
<1> QED
  BY <1>2, SMT DEF below

(* Swapping the images of k and of a host below it makes one cycle of two. *)
LEMMA SwapMerges ==
  ASSUME NEW k \in Hosts, NEW j \in Hosts, j < k,
         NEW d \in [Hosts -> Hosts], NEW owner \in [Hosts -> Hosts],
         Owns(d, k, owner)
  PROVE  Owns(Swapped(d, k, j), k - 1, [q \in Hosts |-> IF owner[q] = k THEN j ELSE owner[q]])
<1> DEFINE e == Swapped(d, k, j)
           o == [q \in Hosts |-> IF owner[q] = k THEN j ELSE owner[q]]
<1>1. e[k] = d[j] /\ e[j] = d[k] /\ \A q \in Hosts \ {j, k} : e[q] = d[q]
  BY DEF Swapped, Hosts
<1>2. owner[k] = k /\ owner[j] = j
  BY DEF Owns, Hosts
<1>3. ASSUME NEW q \in Hosts, q <= k - 1  PROVE o[q] = q
  BY <1>3 DEF Owns, Hosts
<1>4. ASSUME NEW q \in Hosts  PROVE o[e[q]] = o[q]
  <2>1. owner[d[q]] = owner[q] /\ owner[d[j]] = j /\ owner[d[k]] = k
    BY <1>2 DEF Owns
  <2>2. d[q] \in Hosts /\ d[j] \in Hosts /\ d[k] \in Hosts
    OBVIOUS
  <2>3. CASE q = k
    BY <1>1, <1>2, <2>1, <2>2, <2>3
  <2>4. CASE q = j
    BY <1>1, <1>2, <2>1, <2>2, <2>4
  <2>5. CASE q \notin {j, k}
    BY <1>1, <2>1, <2>2, <2>5
  <2> QED
    BY <2>3, <2>4, <2>5
<1> QED
  BY <1>3, <1>4 DEF Owns

(* No cycle of the swapped permutation lies above k - 1. *)
LEMMA SwapReaches ==
  ASSUME NEW k \in Hosts, NEW j \in Hosts, j < k,
         NEW d \in [Hosts -> Hosts], NEW owner \in [Hosts -> Hosts],
         Owns(d, k, owner), Reaches(d, k)
  PROVE  Reaches(Swapped(d, k, j), k - 1)
<1> DEFINE e == Swapped(d, k, j)
<1>1. e[k] = d[j] /\ e[j] = d[k] /\ \A q \in Hosts \ {j, k} : e[q] = d[q]
  BY DEF Swapped, Hosts
<1>2. owner[k] = k /\ owner[j] = j /\ \A q \in Hosts : q <= k => owner[q] = q
  BY DEF Owns, Hosts
<1>3. \A q \in Hosts : d[q] \in Hosts /\ owner[d[q]] = owner[q]
  BY DEF Owns
<1>4. j # k
  BY DEF Hosts
<1>h. \A q \in Hosts : q <= k /\ ~(q <= k - 1) => q = k
  BY DEF Hosts
<1> HIDE DEF e
<1>5. ASSUME NEW S \in SUBSET Hosts, S # {}, Forward(e, S), \A q \in S : ~(q <= k - 1)
      PROVE  FALSE
  <2>1. j \notin S
    BY <1>5 DEF Hosts
  <2>2. CASE k \notin S
    <3>1. Forward(d, S)
      BY <1>1, <1>5, <2>1, <2>2 DEF Forward
    <3>2. PICK q \in S : q <= k
      BY <3>1, <1>5 DEF Reaches
    <3> QED
      BY <3>2, <1>5, <1>h, <2>2
  <2>3. CASE k \in S
    <3> DEFINE U == {q \in S : owner[q] = j}
    <3>1. d[j] \in U
      BY <1>1, <1>2, <1>3, <1>5, <2>3 DEF Forward
    <3>2. Forward(d, U)
      <4> SUFFICES ASSUME NEW q \in U  PROVE d[q] \in U
        BY DEF Forward
      <4>1. q \in Hosts \ {j, k} /\ q \in S /\ owner[q] = j
        BY <1>2, <1>4, <2>1
      <4>2. d[q] \in S
        BY <1>1, <1>5, <4>1 DEF Forward
      <4> QED
        BY <1>3, <4>1, <4>2
    <3>3. PICK q \in U : q <= k
      BY <3>1, <3>2 DEF Reaches
    <3> QED
      BY <3>3, <1>2, <2>1
  <2> QED
    BY <2>2, <2>3
<1>6. ASSUME NEW T \in SUBSET Hosts, T # {}, Backward(e, T), \A q \in T : ~(q <= k - 1)
      PROVE  FALSE
  <2>1. j \notin T
    BY <1>6 DEF Hosts
  <2>2. d[k] \notin T
    BY <1>1, <1>6, <2>1 DEF Backward
  <2>3. CASE k \notin T
    <3>1. d[j] \notin T
      BY <1>1, <1>6, <2>3 DEF Backward
    <3>2. Backward(d, T)
      BY <1>1, <1>6, <2>2, <3>1 DEF Backward
    <3>3. PICK q \in T : q <= k
      BY <3>2, <1>6 DEF Reaches
    <3> QED
      BY <3>3, <1>6, <1>h, <2>3
  <2>4. CASE k \in T
    <3> DEFINE U == {q \in Hosts \ T : owner[q] = k}
    <3>1. d[k] \in U
      BY <1>2, <1>3, <2>2
    <3>2. Forward(d, U)
      <4> SUFFICES ASSUME NEW q \in U  PROVE d[q] \in U
        BY DEF Forward
      <4>1. q \in Hosts \ {j, k} /\ q \notin T /\ owner[q] = k
        BY <1>2, <1>4, <2>4
      <4>2. d[q] \notin T
        BY <1>1, <1>6, <4>1 DEF Backward
      <4> QED
        BY <1>3, <4>1, <4>2
    <3>3. PICK q \in U : q <= k
      BY <3>1, <3>2 DEF Reaches
    <3> QED
      BY <3>3, <1>2, <2>4
  <2> QED
    BY <2>3, <2>4
<1>7. Reaches(e, k - 1)
  BY <1>5, <1>6 DEF Reaches
<1> QED
  BY <1>7 DEF e

-----------------------------------------------------------------------------
LEMMA InitInv == Init => IInv
<1> SUFFICES ASSUME Init  PROVE IInv
  OBVIOUS
<1>1. TypeOK
  BY PermutationAssumption DEF Init, TypeOK, Hosts
<1>2. \A q \in Hosts : q <= i
  BY PermutationAssumption DEF Init, Hosts
<1>3. Reaches(dst, i)
  BY <1>2 DEF Reaches
<1>4. Owns(dst, i, [h \in Hosts |-> h]) /\ [h \in Hosts |-> h] \in [Hosts -> Hosts]
  BY DEF Owns, Init
<1> QED
  BY <1>1, <1>3, <1>4 DEF IInv

LEMMA StepInv == IInv /\ [Next]_vars => IInv'
<1> SUFFICES ASSUME IInv, [Next]_vars  PROVE IInv'
  OBVIOUS
<1>1. CASE Swap
  <2>1. i \in Nat \ {0} /\ i \in Hosts /\ i' = i - 1 /\ i' \in Hosts
    BY <1>1, PermutationAssumption DEF Swap, IInv, TypeOK, Hosts
  <2>2. PICK r \in Accepted(i) : dst' = Swapped(dst, i, below(r, i))
    BY <1>1 DEF Swap, Swapped
  <2> DEFINE j == below(r, i)
  <2>3. j \in Hosts /\ j < i
    BY <2>1, BelowIsBelow, PermutationAssumption DEF Hosts
  <2>4. dst \in [Hosts -> Hosts] /\ Reaches(dst, i)
    BY DEF IInv, TypeOK
  <2>5. PICK owner \in [Hosts -> Hosts] : Owns(dst, i, owner)
    BY DEF IInv
  <2> HIDE DEF j
  <2>6. dst' \in [Hosts -> Hosts]
    BY <2>1, <2>2, <2>3, <2>4 DEF Swapped, j
  <2>7. Reaches(dst', i')
    BY <2>1, <2>2, <2>3, <2>4, <2>5, SwapReaches DEF j
  <2> DEFINE o == [q \in Hosts |-> IF owner[q] = i THEN j ELSE owner[q]]
  <2>8. Owns(Swapped(dst, i, j), i - 1, o) /\ o \in [Hosts -> Hosts]
    BY <2>1, <2>3, <2>4, <2>5, SwapMerges
  <2> HIDE DEF o
  <2>9. Owns(dst', i', o) /\ o \in [Hosts -> Hosts]
    BY <2>1, <2>2, <2>8 DEF j
  <2> QED
    BY <2>1, <2>6, <2>7, <2>9 DEF IInv, TypeOK
<1>2. CASE UNCHANGED vars
  BY <1>2 DEF vars, IInv, TypeOK, Reaches, Owns
<1> QED
  BY <1>1, <1>2 DEF Next, Done

THEOREM Invariant == Spec => []IInv
  BY InitInv, StepInv, PTL DEF Spec

LEMMA InvOneCycle == IInv => OneCycle
<1> SUFFICES ASSUME IInv, i = 0, NEW S \in SUBSET Hosts,
                    \A h \in S : dst[h] \in S, S # {}, S # Hosts
             PROVE  FALSE
  BY DEF OneCycle
<1> DEFINE T == Hosts \ S
<1>1. Forward(dst, S) /\ Backward(dst, T) /\ T # {} /\ T \in SUBSET Hosts
  BY DEF Forward, Backward, IInv, TypeOK
<1>2. PICK p \in S : p <= 0
  BY <1>1 DEF IInv, Reaches
<1>3. PICK q \in T : q <= 0
  BY <1>1 DEF IInv, Reaches
<1> QED
  BY <1>2, <1>3 DEF Hosts

(* The finished permutation is one cycle through all the hosts.  Of        *)
(* make_permutation: the shuffle.                                          *)
THEOREM AlwaysOneCycle == Spec => []OneCycle
  BY Invariant, InvOneCycle, PTL

(* Its assertion that no host is its own destination, which add_flow needs.*)
THEOREM NoSelf == Spec => [](i = 0 => \A h \in Hosts : dst[h] # h)
<1>1. OneCycle => (i = 0 => \A h \in Hosts : dst[h] # h)
  <2> SUFFICES ASSUME OneCycle, i = 0, NEW h \in Hosts, dst[h] = h  PROVE FALSE
    OBVIOUS
  <2>1. {h} = Hosts
    BY DEF OneCycle
  <2>2. 0 \in Hosts /\ 1 \in Hosts
    BY PermutationAssumption DEF Hosts
  <2> QED
    BY <2>1, <2>2
<1> QED
  BY <1>1, AlwaysOneCycle, PTL
=============================================================================
