----------------------------- MODULE Permutation -----------------------------
(***************************************************************************)
(* make_permutation's shuffle and the bounded draws it makes: Sattolo's    *)
(* algorithm, from the last host down, a turn of the loop a step.  Word is *)
(* the number of values next() may return, 2^64 in the code.               *)
(***************************************************************************)
EXTENDS Integers

CONSTANTS N,     \* hosts
          Word

ASSUME PermutationAssumption == N \in Nat /\ N >= 2 /\ Word \in Nat /\ Word >= N

Hosts == 0 .. N - 1

VARIABLES i,     \* the loop's index
          dst    \* who each host sends to

vars == <<i, dst>>

(* Words that would make the remainder fold unevenly are drawn again. *)
reject_below(n) == (Word - n) % n

Accepted(n) == IF n <= 1 THEN {0} ELSE reject_below(n) .. Word - 1

BelowOrEqual(r, n) == r % (n + 1)   \* mutated: a host may stay where it is

below(r, n) == r % n

Init == i = N - 1 /\ dst = [h \in Hosts |-> h]

Swap ==
  /\ i > 0
  /\ \E r \in Accepted(i) :
       LET j == below(r, i)
       IN  dst' = [dst EXCEPT ![i] = dst[j], ![j] = dst[i]]
  /\ i' = i - 1

Done == i = 0 /\ UNCHANGED vars

Next == Swap \/ Done

Spec == Init /\ [][Next]_vars

-----------------------------------------------------------------------------
(* The finished permutation is one cycle through all the hosts: whoever    *)
(* keeps sending to the next reaches everyone.                             *)
OneCycle ==
  i = 0 => \A S \in SUBSET Hosts :
             (\A h \in S : dst[h] \in S) => S = {} \/ S = Hosts
=============================================================================
