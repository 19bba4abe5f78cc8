---------------------------- MODULE DropTailLink ----------------------------
(***************************************************************************)
(* What an output port promises: a first-in first-out link of one server   *)
(* and at most capacity waiting packets.  A packet that finds the waiting  *)
(* room full is dropped and counted; every other one is put on the wire,   *)
(* in the order of acceptance, and the server is never idle while a packet *)
(* waits.  OutputPort implements it with a circular buffer and events.     *)
(***************************************************************************)
EXTENDS Naturals, Sequences

CONSTANTS Packet, capacity

VARIABLES waiting,   \* packets accepted and not yet in service
          serving,   \* the packet in service: a sequence of at most one
          wire,      \* packets propagating, oldest first
          sent,      \* packets put on the wire
          dropped    \* packets refused

vars == <<waiting, serving, wire, sent, dropped>>

Init == /\ waiting = <<>> /\ serving = <<>> /\ wire = <<>>
        /\ sent = 0 /\ dropped = 0

Drop(p) == /\ Len(waiting) = capacity
           /\ dropped' = dropped + 1
           /\ UNCHANGED <<waiting, serving, wire, sent>>

Serve(p) == /\ capacity > 0 /\ serving = <<>>
            /\ serving' = <<p>>
            /\ UNCHANGED <<waiting, wire, sent, dropped>>

Wait(p) == /\ serving # <<>> /\ Len(waiting) < capacity
           /\ waiting' = Append(waiting, p)
           /\ UNCHANGED <<serving, wire, sent, dropped>>

Finish == /\ serving # <<>>
          /\ wire' = Append(wire, Head(serving))
          /\ sent' = sent + 1
          /\ IF waiting = <<>>
             THEN serving' = <<>> /\ waiting' = <<>>
             ELSE serving' = <<Head(waiting)>> /\ waiting' = Tail(waiting)
          /\ UNCHANGED dropped

Arrive == /\ wire # <<>>
          /\ wire' = Tail(wire)
          /\ UNCHANGED <<waiting, serving, sent, dropped>>

(* A new run starts only after everything has left the link. *)
Restart == /\ waiting = <<>> /\ serving = <<>> /\ wire = <<>>
           /\ sent' = 0 /\ dropped' = 0
           /\ UNCHANGED <<waiting, serving, wire>>

Next == \/ \E p \in Packet : Drop(p) \/ Serve(p) \/ Wait(p)
        \/ Finish \/ Arrive \/ Restart

Spec == Init /\ [][Next]_vars
=============================================================================
