----------------------------- MODULE Forwarding -----------------------------
(***************************************************************************)
(* One packet crossing the fabric on a finished table.  It leaves by its   *)
(* host's first port; every switch may take any of the candidates, so      *)
(* every policy and every hash is covered; the first host ends the trip.   *)
(***************************************************************************)
EXTENDS RouteTable

VARIABLES at,     \* the node the packet arrives at, as a set of at most one
          src,    \* host indices of its trip
          dst,
          hops    \* links crossed

trip == <<at, src, dst, hops>>
vars == <<tableVars, trip>>

Init == /\ TableInit
        /\ at = {} /\ src = 0 /\ dst = 0 /\ hops = 0

nic(k) == ports_of(host_at(k))[1]

Cross(p) == at' = {peer(p)} /\ hops' = hops + 1

Send(s, d) == /\ pc = "done" /\ at = {} /\ s # d
              /\ src' = s /\ dst' = d
              /\ Cross(nic(s))
              /\ UNCHANGED tableVars

Forward == \E u \in at, p \in DOMAIN ports :
             /\ ~is_host(u)
             /\ p \in ToSet(candidates(u, dst))
             /\ Cross(p)
             /\ UNCHANGED <<tableVars, src, dst>>

(* Nothing of the trip is kept once the packet is at a host. *)
Arrive == /\ \E u \in at : is_host(u)
          /\ at' = {} /\ src' = 0 /\ dst' = 0 /\ hops' = 0
          /\ UNCHANGED tableVars

Next == \/ TableNext /\ UNCHANGED trip
        \/ \E s, d \in 0 .. host_count - 1 : Send(s, d)
        \/ Forward \/ Arrive

Spec == Init /\ [][Next]_vars

-----------------------------------------------------------------------------
(* NextHops, where no packet is under way: a packet does not change the table. *)
TableRight == at = {} => NextHops

(* The assertions of on_arrive: a switch always has a candidate, and the first
   host a packet meets is the one it was sent to. *)
NeverStrays ==
  \A u \in at : IF is_host(u) THEN u = host_at(dst)
                ELSE candidates(u, dst) # <<>>
=============================================================================
