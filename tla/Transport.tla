------------------------------ MODULE Transport ------------------------------
(***************************************************************************)
(* The fixed-window, ack-clocked sender of one flow and its receiver:      *)
(* Simulation::on_inject, try_send, send_packet, on_ack, on_timeout,       *)
(* on_data_arrival, complete_flow and release_flow.                        *)
(*                                                                         *)
(* The fabric between the two hosts is abstracted to a bag of copies that  *)
(* may be reordered, delayed without bound or dropped by a full queue; it  *)
(* never invents a copy.  Virtual time is abstracted too: any pending      *)
(* event may be the next one popped, so a timer may fire while its packet  *)
(* or the ack is still on the way (an RTO set too short), or long after.   *)
(***************************************************************************)
EXTENDS Naturals, Sequences, FiniteSets

CONSTANTS packets_total,   \* packets of the flow
          window_pkts,     \* FlowSpec::window_pkts as configured
          max_attempts,    \* TransportConfig::max_attempts
          Paced            \* period_ns > 0

ASSUME TransportAssumption ==
  /\ packets_total \in Nat \ {0}
  /\ window_pkts \in Nat
  /\ max_attempts \in Nat \ {0}
  /\ Paced \in BOOLEAN

Pkts     == 0 .. packets_total - 1
Attempts == 0 .. max_attempts - 1

(* min(window_pkts, packets_total), and at least 1. *)
Window == IF window_pkts >= packets_total THEN packets_total
          ELSE IF window_pkts = 0 THEN 1 ELSE window_pkts

VARIABLES
  tx,                 \* FlowTx; retx is the ring's live entries, head first, and
                      \* gated stands for now_ < next_send_ns
  flying,             \* indices with kInFlight
  acked,              \* indices with kAcked
  delivered,          \* indices with kDelivered
  attempt,            \* pkt_attempt_
  packets_delivered,  \* FlowResult::packets_delivered
  complete,           \* FlowResult::complete
  released,           \* the flow's first Inject has been pushed
  injects,            \* pending Inject events
  timers,             \* timers[i][a]: pending Timeout events of packet i, attempt a
  data,               \* data[i]: copies of data packet i in the fabric
  acks                \* acks[i]: copies of its ack in the fabric

result  == <<packets_delivered, complete>>
network == <<data, acks>>
vars == <<tx, flying, acked, delivered, attempt, result, released, injects,
          timers, network>>

-----------------------------------------------------------------------------
(* begin_run: a flow that depends on no other gets its Inject at once, a   *)
(* dependent one waits for release_flow.                                   *)
Init ==
  /\ tx = [next_seq |-> 0, in_flight |-> 0, retx |-> <<>>, gated |-> FALSE,
           send_scheduled |-> FALSE, failed |-> FALSE]
  /\ flying = {} /\ acked = {} /\ delivered = {}
  /\ attempt = [i \in Pkts |-> 0]
  /\ packets_delivered = 0 /\ complete = FALSE
  /\ released \in BOOLEAN
  /\ injects = IF released THEN 1 ELSE 0
  /\ timers = [i \in Pkts |-> [a \in Attempts |-> 0]]
  /\ data = [i \in Pkts |-> 0]
  /\ acks = [i \in Pkts |-> 0]

-----------------------------------------------------------------------------
(* One call of try_send pops the first p entries of the ring, sending the  *)
(* ones not acked in the meantime, and then takes m indices never sent.    *)

ResentBlindly(t, A, p) == 1 .. p   \* mutated: acked entries are not dropped

Resent(t, A, p) == {k \in 1 .. p : t.retx[k] \notin A}

Batch(t, A, p, m) == {t.retx[k] : k \in Resent(t, A, p)}
                     \cup (t.next_seq .. t.next_seq + m - 1)

Sends(t, A, p, m) == Cardinality(Resent(t, A, p)) + m

(* Mutated: the window test is off by one. *)
QuotaOffByOne(t) == IF t.gated \/ t.in_flight > Window THEN 0
                    ELSE IF Paced THEN 1 ELSE Window + 1 - t.in_flight

(* How many packets the window and the pacing gate let out: the gate       *)
(* closes behind every send of a paced flow.                               *)
Quota(t) == IF t.gated \/ t.in_flight >= Window THEN 0
            ELSE IF Paced THEN 1 ELSE Window - t.in_flight

(* Mutated: new packets go before retransmissions. *)
StopsFreshFirst(t, A, p, m) ==
  LET n == Sends(t, A, p, m)
  IN  /\ n <= Quota(t)
      /\ p > 0 => m = packets_total - t.next_seq
      /\ n < Quota(t) => p = Len(t.retx) /\ m = packets_total - t.next_seq
      /\ n = Quota(t) /\ p > 0 => p \in Resent(t, A, p)

(* Where the loop ends.  Retransmissions go first; it stops at the packet  *)
(* that uses the quota up, or with nothing left to send.                   *)
Stops(t, A, p, m) ==
  LET n == Sends(t, A, p, m)
  IN  /\ n <= Quota(t)
      /\ m > 0 => p = Len(t.retx)
      /\ n < Quota(t) => p = Len(t.retx) /\ m = packets_total - t.next_seq
      /\ n = Quota(t) /\ m = 0 /\ p > 0 => p \in Resent(t, A, p)

(* The loop meets the closed gate with room left in the window and no      *)
(* wake-up pushed yet.  Mutated: send_scheduled is not looked at; only an  *)
(* idle sender is woken.                                                   *)
WakesAgain(t) == t.in_flight < Window /\ t.gated
WakesIdle(t) == t.in_flight = 0 /\ t.gated /\ ~t.send_scheduled

Wakes(t) == t.in_flight < Window /\ t.gated /\ ~t.send_scheduled

(* Mutated: a timer for first transmissions only; a timer that carries     *)
(* attempt 0 whatever the packet's.                                        *)
ArmFirstOnly(tm, S) ==
  [i \in Pkts |-> [a \in Attempts |->
     IF i \in S /\ attempt'[i] = 0 /\ a = 0 THEN tm[i][a] + 1 ELSE tm[i][a]]]

ArmAttemptZero(tm, S) ==
  [i \in Pkts |-> [a \in Attempts |->
     IF i \in S /\ a = 0 THEN tm[i][a] + 1 ELSE tm[i][a]]]

(* send_packet for every index of S: the timer is pushed, and the packet   *)
(* enters the NIC queue or is dropped there.                               *)
ArmTimers(tm, S) ==
  [i \in Pkts |-> [a \in Attempts |->
     IF i \in S /\ a = attempt'[i] THEN tm[i][a] + 1 ELSE tm[i][a]]]

Inject(S) ==
  \E lost \in SUBSET S :
    data' = [i \in Pkts |-> IF i \in S \ lost THEN data[i] + 1 ELSE data[i]]

SendBatch(t, fl, tm, inj, p, m) ==
  LET S == Batch(t, acked', p, m)
      u == [next_seq |-> t.next_seq + m,
            in_flight |-> t.in_flight + Sends(t, acked', p, m),
            retx |-> SubSeq(t.retx, p + 1, Len(t.retx)),
            gated |-> IF S = {} THEN t.gated ELSE Paced,
            send_scheduled |-> t.send_scheduled,
            failed |-> t.failed]
  IN  /\ tx' = [u EXCEPT !.send_scheduled = @ \/ Wakes(u)]
      /\ injects' = IF Wakes(u) THEN inj + 1 ELSE inj
      /\ flying' = fl \cup S
      /\ timers' = ArmTimers(tm, S)
      /\ Inject(S)

(* try_send from the sender state t, flags fl, timers tm and pending       *)
(* Injects inj its caller leaves; acked' and attempt' are the caller's.    *)
MaySendAnyway(t) == TRUE   \* mutated: the failed test is dropped

MaySend(t) == ~t.failed

TrySend(t, fl, tm, inj) ==
  \/ /\ ~MaySend(t)
     /\ tx' = t /\ flying' = fl /\ timers' = tm /\ injects' = inj
     /\ UNCHANGED data
  \/ /\ MaySend(t)
     /\ \E p \in 0 .. Len(t.retx), m \in 0 .. packets_total - t.next_seq :
          Stops(t, acked', p, m) /\ SendBatch(t, fl, tm, inj, p, m)

-----------------------------------------------------------------------------
(* An Inject is popped: the flow starts, or a paced send's wait is over.   *)
on_inject ==
  /\ injects > 0
  /\ UNCHANGED <<acked, delivered, attempt, result, released, acks>>
  /\ TrySend([tx EXCEPT !.send_scheduled = FALSE], flying, timers, injects - 1)

(* Virtual time reaches next_send_ns. *)
PaceElapses ==
  /\ tx.gated
  /\ tx' = [tx EXCEPT !.gated = FALSE]
  /\ UNCHANGED <<flying, acked, delivered, attempt, result, released, injects,
                 timers, network>>

(* The flow this one depends on completed. *)
release_flow ==
  /\ ~released
  /\ released' = TRUE
  /\ injects' = injects + 1
  /\ UNCHANGED <<tx, flying, acked, delivered, attempt, result, timers, network>>

-----------------------------------------------------------------------------
(* What clearing kInFlight does to the window count. *)
Landed(t, i) == IF i \in flying THEN [t EXCEPT !.in_flight = @ - 1] ELSE t

AckedUpTo(i) == acked \cup (0 .. i)   \* mutated: the ack read as cumulative

AckedBy(i) == acked \cup {i}

DuplicateAck(i) ==
  /\ i \in acked
  /\ UNCHANGED <<tx, flying, acked, injects, timers, data>>

FirstAck(i) ==
  /\ i \notin acked
  /\ acked' = AckedBy(i)
  /\ UNCHANGED attempt
  /\ TrySend(Landed(tx, i), flying \ {i}, timers, injects)

on_ack(i) ==
  /\ acks[i] > 0
  /\ acks' = [acks EXCEPT ![i] = @ - 1]
  /\ UNCHANGED <<delivered, attempt, result, released>>
  /\ DuplicateAck(i) \/ FirstAck(i)

-----------------------------------------------------------------------------
(* The three early returns of on_timeout, in any order: none has an effect.*)
Ignored(i, a) == i \in acked \/ attempt[i] # a \/ tx.failed

GivesUpLate(i) == attempt[i] + 1 > max_attempts   \* mutated: off by one

GivesUp(i) == attempt[i] + 1 >= max_attempts

StaleTimer(i, a) ==
  /\ Ignored(i, a)
  /\ UNCHANGED <<tx, flying, acked, attempt, injects, data>>
  /\ timers' = [timers EXCEPT ![i][a] = @ - 1]

GiveUp(i, a) ==
  /\ ~Ignored(i, a)
  /\ GivesUp(i)
  /\ tx' = [Landed(tx, i) EXCEPT !.failed = TRUE]
  /\ flying' = flying \ {i}
  /\ timers' = [timers EXCEPT ![i][a] = @ - 1]
  /\ UNCHANGED <<acked, attempt, injects, data>>

Retransmit(i, a) ==
  /\ ~Ignored(i, a)
  /\ ~GivesUp(i)
  /\ UNCHANGED acked
  /\ attempt' = [attempt EXCEPT ![i] = @ + 1]
  /\ TrySend([Landed(tx, i) EXCEPT !.retx = Append(@, i)], flying \ {i},
             [timers EXCEPT ![i][a] = @ - 1], injects)

on_timeout(i, a) ==
  /\ timers[i][a] > 0
  /\ UNCHANGED <<delivered, result, released, acks>>
  /\ StaleTimer(i, a) \/ GiveUp(i, a) \/ Retransmit(i, a)

-----------------------------------------------------------------------------
(* A data packet reaches the receiver: a first copy counts, every copy is  *)
(* acked, and the ack enters the receiver's NIC queue or is dropped there. *)
CountsCopies(i) == i \in Pkts   \* mutated: a duplicate is counted

Counts(i) == i \notin delivered

on_data_arrival(i) ==
  /\ data[i] > 0
  /\ data' = [data EXCEPT ![i] = @ - 1]
  /\ delivered' = delivered \cup {i}
  /\ packets_delivered' = IF Counts(i) THEN packets_delivered + 1
                          ELSE packets_delivered
  /\ complete' = (complete \/ (Counts(i) /\ packets_delivered' = packets_total))
  /\ \E lost \in BOOLEAN :
       acks' = IF lost THEN acks ELSE [acks EXCEPT ![i] = @ + 1]
  /\ UNCHANGED <<tx, flying, acked, attempt, released, injects, timers>>

(* A full queue further along the path drops a copy. *)
LoseData(i) ==
  /\ data[i] > 0
  /\ data' = [data EXCEPT ![i] = @ - 1]
  /\ UNCHANGED <<tx, flying, acked, delivered, attempt, result, released,
                 injects, timers, acks>>

LoseAck(i) ==
  /\ acks[i] > 0
  /\ acks' = [acks EXCEPT ![i] = @ - 1]
  /\ UNCHANGED <<tx, flying, acked, delivered, attempt, result, released,
                 injects, timers, data>>

-----------------------------------------------------------------------------
Next ==
  \/ on_inject
  \/ PaceElapses
  \/ release_flow
  \/ \E i \in Pkts :
       \/ on_ack(i)
       \/ on_data_arrival(i)
       \/ LoseData(i)
       \/ LoseAck(i)
       \/ \E a \in Attempts : on_timeout(i, a)

Spec == Init /\ [][Next]_vars

(* run() pops until the queue is empty and time only moves forward, so     *)
(* every pending event is handled; a copy in the fabric is delivered or    *)
(* dropped.  Nothing makes the flow this one depends on complete, so       *)
(* release_flow has no fairness.                                           *)
Fairness ==
  /\ WF_vars(on_inject)
  /\ WF_vars(PaceElapses)
  /\ \A i \in Pkts :
       /\ WF_vars(on_data_arrival(i) \/ LoseData(i))
       /\ WF_vars(on_ack(i) \/ LoseAck(i))
       /\ \A a \in Attempts : WF_vars(on_timeout(i, a))

FairSpec == Spec /\ Fairness

-----------------------------------------------------------------------------
(* Properties *)

FlowTx == [next_seq : Nat, in_flight : Nat, retx : Seq(Pkts), gated : BOOLEAN,
           send_scheduled : BOOLEAN, failed : BOOLEAN]

(* Every variable stays in its range; in particular in_flight never wraps  *)
(* below zero and no attempt number reaches max_attempts.                  *)
TypeOK ==
  /\ tx \in FlowTx
  /\ tx.next_seq <= packets_total
  /\ flying \subseteq Pkts /\ acked \subseteq Pkts /\ delivered \subseteq Pkts
  /\ attempt \in [Pkts -> Attempts]
  /\ packets_delivered \in Nat
  /\ complete \in BOOLEAN /\ released \in BOOLEAN
  /\ injects \in Nat
  /\ timers \in [Pkts -> [Attempts -> Nat]]
  /\ data \in [Pkts -> Nat] /\ acks \in [Pkts -> Nat]

Ring == {tx.retx[k] : k \in 1 .. Len(tx.retx)}
Sent == 0 .. tx.next_seq - 1

(* in_flight counts exactly the packets flagged kInFlight, and together    *)
(* with the retransmission ring they never exceed the window: the ring of  *)
(* window slots that add_flow allocates cannot overflow, whatever the      *)
(* order of acks, timers and wake-ups.                                     *)
WindowHolds ==
  /\ tx.in_flight = Cardinality(flying)
  /\ tx.in_flight + Len(tx.retx) <= Window

(* The ring holds distinct packets that were sent and are not in flight:   *)
(* a packet is never both awaiting retransmission and counted against the  *)
(* window, even when its ack arrives while it waits in the ring.           *)
RingSound ==
  /\ flying \cup Ring \subseteq Sent
  /\ flying \cap Ring = {}
  /\ flying \cap acked = {}
  /\ \A j, k \in 1 .. Len(tx.retx) : tx.retx[j] = tx.retx[k] => j = k

(* A packet has at most one timer pending, and until it is acked that      *)
(* timer is the one of its latest attempt: no pending timer is ever stale. *)
OneTimer ==
  \A i \in Pkts, a \in Attempts :
    timers[i][a] <= IF i \in acked \/ a = attempt[i] THEN 1 ELSE 0

(* Until the sender gives up, a packet in flight has a timer running and   *)
(* every packet sent is acked, in flight or queued for retransmission: no  *)
(* drop can strand one.                                                    *)
NoOrphan ==
  ~tx.failed =>
    /\ \A i \in Sent : i \in acked \/ i \in flying \/ i \in Ring
    /\ \A i \in Pkts \ acked : i \in flying <=> timers[i][attempt[i]] > 0

(* At most one Inject is pending, and send_scheduled is set exactly while  *)
(* it is one that try_send pushed: the gate neither loses a wake-up nor    *)
(* multiplies it.                                                          *)
OneInject ==
  /\ injects <= 1
  /\ tx.send_scheduled => injects = 1
  /\ injects = 1 /\ ~tx.send_scheduled => tx.next_seq = 0

(* A released sender with room in its window and something to send has a   *)
(* wake-up pending; otherwise only an event already pending moves it.      *)
NoStall ==
  released /\ ~tx.failed /\ injects = 0 =>
    \/ tx.in_flight = Window
    \/ tx.retx = <<>> /\ tx.next_seq = packets_total

(* The sender never believes acked a packet the receiver does not hold,    *)
(* and an ack on the way is always for a delivered packet.                 *)
AckedDelivered ==
  /\ acked \subseteq delivered
  /\ \A i \in Pkts : acks[i] > 0 => i \in delivered

(* Duplicates are not counted: the flow is complete exactly when every     *)
(* packet has arrived, whatever was retransmitted.                         *)
CompleteMeansAll ==
  /\ packets_delivered = Cardinality(delivered)
  /\ complete <=> delivered = Pkts

(* After giving up on a packet the sender puts nothing on its NIC and      *)
(* starts no timer, although acks still arrive and open the window.        *)
FailedIsSilent ==
  [][tx.failed => /\ tx'.next_seq = tx.next_seq
                  /\ \A i \in Pkts : /\ data'[i] <= data[i]
                                     /\ \A a \in Attempts :
                                          timers'[i][a] <= timers[i][a]]_vars

(* Once released, a flow is eventually acknowledged in full or reported    *)
(* failed, whatever is dropped.                                            *)
FlowSettles == released ~> (tx.failed \/ acked = Pkts)

(* What the comment in on_timeout says of a flow whose sender gives up:    *)
(* "reported as failed and never completes".                               *)
FailedNeverCompletes == ~(tx.failed /\ complete)

(* The sender and receiver together implement the abstract sliding window. *)
Contract == INSTANCE SlidingWindow WITH
              next_seq <- tx.next_seq, failed <- tx.failed

SlidesTheWindow == Contract!Spec
=============================================================================
