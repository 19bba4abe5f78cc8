# gpu-fabric-sim in TLA+

gpu-fabric-sim is a deterministic, single-threaded discrete-event simulator of
a GPU cluster's network: hosts and switches joined by store-and-forward,
drop-tail links, flows with a fixed ack-clocked window, ECMP routing, and
workloads built from flows (a random permutation, a ring all-reduce).  This
directory models its logic in TLA+, checks it with TLC on small instances, and
proves what matters most of it with TLAPS for every value of the constants.

Paths below are relative to the repository.

## The system

| component | state | operations | talks to |
|---|---|---|---|
| event queue (`core/event_queue.hpp`) | binary heap, `next_seq_` | `push`, `pop`, `clear` | only the event loop |
| event loop (`core/simulation.cpp`, `run`) | `now_`, `RunStats` | pops the earliest event and calls its handler | everything, by direct calls |
| sender of a flow (`simulation.cpp`) | `FlowTx`, `kInFlight`, `kAcked`, `pkt_attempt_`, a slice of `retx_ring_` | `on_inject`, `try_send`, `send_packet`, `on_ack`, `on_timeout` | pushes Inject and Timeout events, enqueues on its host's NIC |
| receiver of a flow | `kDelivered`, `FlowResult` | `on_data_arrival`, `complete_flow` | enqueues acks on its NIC, releases dependent flows |
| flow dependencies | CSR table of dependents | `build_dependents`, `release_flow` | pushes the dependent's Inject |
| output port (`model/packet.hpp`, `model/fabric.hpp`) | `PacketRing`, `busy`, `in_flight`, counters | `enqueue`, `start_tx`, `on_tx_complete`, `reset_state` | pushes TxComplete and Arrive events |
| fabric (`model/fabric.cpp`) | nodes, ports, host index | `add_*`, `connect`, `build` | built by the topologies |
| routing (`routing/`) | next-hop candidates per (node, host); a hash seed | `build_shortest_path`, `candidates`, `select` | called by `on_arrive` at a switch |
| topologies (`topology/`) | none | `build_fat_tree`, `build_leaf_spine` | the fabric builder |
| workloads (`workload/`) | named random streams | `make_permutation`, `make_ring_all_reduce` | return flow specifications |
| metrics (`metrics/fct.cpp`) | none | percentiles and collective time | read the results |
| harness (`harness/scenario.*`), command line | scenario structs | assemble a run, closed forms, default timeout | everything above |

Nothing runs concurrently and nothing is persisted: there are no locks, threads
or crashes.  What is hard is *order*.  Events of many flows and ports interleave
in virtual time; a timer races an ack that is queued somewhere; packets are
dropped on any hop in either direction; events of one nanosecond are common; and
each handler reads state that earlier events left.  What makes each part correct:

- event queue: events leave in (time, insertion) order, none lost, none doubled;
- port: first-in first-out, drops only when full, never idle with a queue;
- sender: never more than a window outstanding, a ring that cannot overflow, no
  packet forgotten after a drop, one timer per outstanding packet, one wake-up
  per paced wait, silence after giving up;
- receiver: a packet counts once, completion means every packet;
- the whole: bytes conserved, dependents started exactly at completion, every
  flow's end accounted for, a second run of the object equal to the first;
- fabric and routing: the two directions of a link name each other, the table
  holds exactly the ports that lead closer, every choice among them arrives;
- topologies: as many links and equal-cost paths between hosts as the headers say;
- ring all-reduce: the flows compute the sum although their steps overlap;
- shuffle: one cycle through all the hosts, so that none sends to itself;
- metrics: the percentile of the definition, and every flow left out accounted for;
- harness: closed forms that no flow beats and that are exact where they claim to
  be, a timeout that never fires for a packet that is merely queued.

`PROJECT.json` lists each component and, under `hazards`, the places in the code
where one of these could go wrong without a test noticing.

## The modules

| module | models | relation |
|---|---|---|
| `SlidingWindow` | what a flow promises: at most a window outstanding, honest acks, completion at the receiver and failure at the sender | abstract |
| `Transport` | one flow's sender and receiver, every handler | implements `SlidingWindow` (TLC, proved) |
| `DropTailLink` | what a port promises | abstract |
| `OutputPort` | ring buffer, busy flag, TxComplete and Arrive events of one port | implements `DropTailLink` (TLC, proved) |
| `Agenda` | what the event queue promises | abstract |
| `EventQueue` | the heap, one step per turn of a sift | implements `Agenda` (TLC, proved) |
| `Units`, `Routing`, `Metrics` | serialisation times; keys, policies and the reduction of a hash; percentiles and collective time | operators |
| `Simulation` | the whole event loop on a fabric, in virtual time | every port of it implements `DropTailLink` (TLC, proved), every flow `Transport` (TLC) |
| `Builder` | the builder's record of nodes and links; what a built fabric and its table come to | what `Fabric` and `RouteTable` are checked, and proved, to build |
| `Fabric` | `build`, a link at a time | extends `Builder` |
| `RouteTable` | the breadth-first search a port at a time, next hops, packing, `candidates` | extends `Fabric` |
| `Forwarding` | one packet from host to host, any candidate at each switch | extends `RouteTable` |
| `Clos` | fat-tree and leaf-spine as builder calls, their closed forms, the round-robin placement | extends `Builder` |
| `Topologies` | packets on them | extends `Forwarding`, `Clos` |
| `Workloads` | the flows of the permutation and of the ring | extends `Clos` |
| `Permutation` | the shuffle and its bounded draws | |
| `AllReduce` | the ring's dependencies, with the buffers they stand for | extends `Workloads` |
| `Harness` | the closed forms, the sizing of the transport, the three `build_*` functions | extends `Workloads`, `Units` |
| `Validation` | the scenarios of `Harness`, run by `Simulation`, read by `Metrics` | extends all three |
| `TransportProofs`, `OutputPortProofs`, `EventQueueProofs`, `FabricProofs`, `PermutationProofs`, `AllReduceProofs`, `SimulationProofs`, `RunProofs` | theorems and proofs | |
| `MC*` | instances for TLC | |

### Transport and the code

`tx` is `FlowTx`, with the live entries of the retransmission ring as the
sequence `retx` (`WindowHolds` bounds it by the `window` slots allocated) and
`gated` for `now_ < next_send_ns`.  `flying`, `acked` and `delivered` are the
indices with `kInFlight`, `kAcked` and `kDelivered`; `acked_count` is never read
by the code and is left out.  `injects` and `timers` count the flow's pending
events; `data` and `acks` count the copies of each packet in the fabric.

One call of `try_send` is one step.  Its loop is given by where it ends
(`Stops`): `p` entries popped off the ring, those acked meanwhile dropped, then
`m` new packets, until the window, the pacing gate or the supply stops it.  The
actions are `on_inject`, `on_ack` (`DuplicateAck`, `FirstAck`), `on_timeout`
(`StaleTimer`, `GiveUp`, `Retransmit`), `on_data_arrival`, `release_flow`, and
for the environment `PaceElapses` (the clock reaches `next_send_ns`) and
`LoseData`, `LoseAck` (a full queue further on).

Time and fabric are abstracted: any pending event may be the next, so every race
of a timer with an ack is there, for every timeout, topology and load, and more
than any one fabric produces.  The fabric never invents a copy.  Safety carries
over to the code because every step of the code is a step of the model.
`Simulation` checks exactly that, with the clock in place.

### OutputPort and the code

`queue` is `PacketRing` (`buf_`, `head_`, `count_`) with its wrap-around
arithmetic; `completions` and `wire` are the port's pending TxComplete and
Arrive events.  `enqueue` is `drop` or `accept`, the latter including the call of
`start_tx` on an idle port; `on_tx_complete` includes the next `start_tx`.
Arrivals are a sequence because the delay is constant and the event queue
breaks ties by insertion.

### EventQueue and the code

`heap` and `size` are the vector; a sift is `pc`, the hole `i` and the event
`held`, one step for each turn of its loop, so the invariants hold *during* a
sift.  `push`, `pop` and `clear` are enabled between sifts only.  The model adds
the loop's clock `now` and the environment's promise `t >= now` (handlers only
schedule from the current time on; `RunAsserts` of `Simulation` checks it).

### Simulation and the code

A handler is an operator from simulator state to simulator state, so the calls
of the code (`on_ack` calls `try_send` calls `send_packet` calls `enqueue` calls
`start_tx`) are the same nest of operators.  `sim` is the object: pending
events, clock, ports, senders, packet bits, results, byte counters.  `setting`
picks the configuration out of `Scenarios`: the built fabric, the two kinds of
link, the transport, the flows, the policy and what `flow_hash` returns.  A run is
deterministic once it is chosen, which is the program's own claim.  A turn of the
loop is two steps, the clock and the handler, so that each maps to one step of
`Transport`.  `try_send`'s loop is `SendLoop` here, one `Turn` for each of its turns (the
window bounds their number: every turn but the last fills a slot), and
`SendersAreTransports` confirms that `Transport` describes its outcome correctly.
`PortsAreLinks` says of every port at once, fed by all the flows, what `OutputPort`
is proved to be alone.

Byte counts, serialisation times (truncating division), the pacing period, the
last short packet, the table of dependents and their release are computed as in
the code.  The event queue is a set ordered by `Before` and a port's ring a
sequence, which is what `EventQueue` and `OutputPort` are shown to implement.  The
candidates at a switch are those of `built`, which `TableRight` shows the search to
find.  `ScenariosAssumption` says what a scenario is: what `add_flow` and `begin_run`
assert, the unsigned types, and of the table (`IsRouted`) that every switch has a candidate
for every host, that a candidate is a port of the switch itself, and that one that ends at
a host ends at the right one, which is `NeverStrays`.  A hash is any number below `HashRange` (2^32 in the code) for each switch
and key; keys of acks are their flow's reversed.

### Harness, Validation and the code

`build_smoke`, `build_permutation` and `build_all_reduce` take a configuration and
return a scenario: the simulation and what is claimed of it (`analytical_ns`,
`analytical_exact`, and for each flow its lower bound).  What the random streams
return is part of the configuration.  Rates are in whole Gb/s.  `Validation` runs
the simulations and compares.  `least_ns` of a ring is the formula the permutation
uses, applied to each of its flows.

### Fabric, RouteTable, Forwarding, Topologies and the code

A blueprint is what the builder holds before `build`: `is_host_` and `edges_`.
`Materialise` is one turn of the second pass with both calls of `claim_slot`;
`first_port` is the prefix sum of the first pass.  Rates, delays and queues of
ports are `OutputPort`'s and `Simulation`'s business.  `RouteTable` is one state
machine, as `build_shortest_path` is one function: `pc` says which loop it is in,
`Search` starts the search from host `h`, `Look`, `NextNode` and `Level` are the
inner, middle and outer loop of `bfs_distances`, `Collect` the loop over nodes that
follows, `Pack` a turn of the two loops that pack (the sum so far is the length of
what is copied so far).  Distances have the width of `kUnreachable`, so that
`kUnreachable + 1` is 0 as in the code; links go both ways, so a node that was reached has
no neighbour that was not, and the 0 is never compared with.  `Forwarding` sends one packet at a time: a
switch may take any candidate, so every policy and every hash is covered, and
nothing but the table decides where it goes.

### Permutation and the code

`i` and `dst` are the loop's; a turn of the loop is a step.  `Accepted(n)` is what
`below64` may keep of the `Word` values (2^64 in the code) the generator draws from,
`below` the remainder it returns.

### AllReduce and the code

A flow is its index, `step * gpus + rank`, and `depends_on` is the code's, the one
by which `Workloads` builds the flows `Simulation` runs.
`complete_flow` is `complete_flow` with the `release_flow` of each dependent; how
long a flow takes is left open, and a flow that never completes is one whose
sender gave up.  The program moves sizes, not data: `buffer` and `payload` are
added to say what `all_reduce.hpp` calls the collective (sums in the first half,
copies in the second), and no action is guarded by them.

## The runs

| run | instance | shows |
|---|---|---|
| `transport_window` | 3 packets, window 2, 3 attempts, unpaced | window, timers, acks and verdict stay consistent; implements `SlidingWindow` |
| `transport_paced` | 3 packets, window 2, 2 attempts, paced, fair | ring and window sound, one wake-up, no stall, every released flow settles |
| `transport_failed` | 2 packets, window 1, 2 attempts | *violation*: a failed flow can complete |
| `output_port` | ring of 3, 2 distinct packets, at most 7 offers between resets | one server, drop-tail link |
| `event_queue` | times 0..2, at most 7 pushes between clears | heap order during sifts, nothing lost, implements `Agenda` |
| `topologies` | all 1024 graphs of 3 switches and 2 hosts, one with parallel links, one without hosts; fat-trees of arity 2 and 4, leaf-spines 2-2-2, 3-2-1, 1-3-2, all pairs of hosts | ports paired, search exact level by level, table holds exactly the closer ports of each node; packets arrive, over the promised number of links and paths; ring neighbours are in different pods |
| `simulation` | a leaf-spine of 2 leaves, 2 spines, 4 hosts; 55 settings of 3 flows and 4 of 6, each run twice | conservation, assertions, dependencies, in-order delivery, settled ends, the second run equal to the first, `DropTailLink` for each port, `Transport` for each flow |
| `scenarios` | 6 smoke, 5 permutation, 4 ring scenarios of the harness | closed forms, timeouts, percentiles |
| `all_reduce` | 2, 3 and 4 ranks, any order of completion | every chunk summed exactly once, none overwritten while sent |
| `permutation` | 6 hosts, words below 32, any draws | one cycle |
| `simulation_drop` | the same as `simulation` | *violation*: a flow that lost a packet completes |
| `ring_bound` | a ring of 3 ranks in sequence on a fat-tree of arity 4 | *violation*: it finishes before its lower bound |

**Bounds.**  `Transport` needs none beside its constants: a packet is sent at
most `max_attempts` times, so copies, timers and acks are finite.  A window of
two under three packets is the least where a retransmission competes with new
packets and the ring holds more than one entry; three attempts let an old copy,
its ack and two later attempts coexist.  Only pacing makes an entry wait in
the ring: without it the `try_send` that ends `on_timeout` takes the entry straight
out again, because the timeout has just made room in the window.  That is why the
ring is checked in the paced run.  `MaxOffers` (7, `MCOutputPort`) wraps a
ring of three twice with drops in between.  `MaxPushes` (7, `MCEventQueue`)
fills three levels of the heap, with more events than times, so ties abound.
The settings of `MCSimulation` take rings of 0, 1 and 3 slots, host and fabric
rings that differ, equal and unequal rates, timeouts shorter and longer than the
round trip, two start orders, two loads, both policies and three assignments of
data and acks to spines; between them they drop data and acks, resend, give up on a
packet delivered or not, release the dependent flow or strand it, and also run
without any loss.  Four more settings are about the table of dependents: two flows wait for
one, one for another and a sixth for that one, so the slots are not in the order of
the flows and an offset or a cursor one off releases the wrong flow or none.  `HashRange` (4 and 16) is large enough to reach every candidate.

The scenarios of `MCScenarios` keep the sizes, rates and delays of the source (1500
bytes in 120 ns, acks of 64 bytes); the numbers of packets, flows and buffers are
small.  Among them are: windows on both sides of the bandwidth-delay product, a
rate and a size that do not divide, a packet shorter than a nanosecond, full
buffers at every hop with the default timeout, flows that fail and are left out of
the percentiles, paced flows, rings whose closed form is exact and rings whose acks
make it inexact.

The graphs of `topologies` (`Graphs`, `MCTopologies`) include disconnected nodes,
cycles of either parity and hosts that are transit nodes; hosts are numbered
between switches so that host and node indices differ.  They are searched and
packed, and no packet is sent on them.  Arity 4 is the least where
a fat-tree has more than one path, one core per row and one edge switch per pod.
`kUnreachable` is 255 there: it only has to exceed every distance.  Four ranks make
chains of six flows, four of them independent.  `RouteTable`, `AllReduce` and
`Permutation` end in a step that changes nothing, so deadlock is checked for them.

**Deadlock** is not checked for `Transport`, whose flow stops when nothing of it is
pending; what must hold then is `EndsSettled` of `Simulation`.  `OutputPort` and
`EventQueue` are reset and run again, and `Simulation` ends in `Stop`.

**Fairness** (`Transport!Fairness`, used by `transport_paced` alone): weak fairness
of each pending event and each copy in the fabric.  `run()` pops until the queue
is empty, time never goes back and each event is finitely many events away; a
copy is in a queue that is served or on a wire of fixed delay, so it arrives or
is dropped.  `release_flow` has no fairness: nothing makes the flow it depends
on complete.

## The proofs

All are for every value of the constants under the named assumptions of the
modules (`TransportAssumption`: at least one packet and one attempt;
`PortAssumption`: any capacity, zero included; `TimeAssumption`).

*Transport.*  `Invariant` proves `IInv`, from which follow `TypeOK`,
`WindowHolds`, `RingSound`, `OneTimer`, `NoOrphan` and `AckedDelivered`.  None of
these is inductive alone: `in_flight` may be decremented without wrapping only
if it counts `flying`; an entry may be appended to the ring only if it was in
flight and is not in the ring; and that is known of a timed-out packet only
because its timer was the one of its latest attempt.  `IInv` states these as one
predicate, `Sound`, of the sender state, the flags and the timers, so that one
lemma says what `try_send` does to any sound state; each handler then proves that
the state it calls `try_send` from is sound.  `Caused` adds that copies and
deliveries are of packets sent.  Relative to it, `CompleteMeansAll` is inductive (only
an arrival changes what it speaks of), and `FailedIsSilent` follows from what each
handler does with `failed` set.

*Wake-ups* (same module).  `OneInject` needs to know that a flow not yet released has
sent nothing: an ack or a timeout then finds a flow that has sent, whose pending
`Inject`, if any, is the one `send_scheduled` announces (`SentByThen`).  `NoStall`
follows because `try_send` that leaves no `Inject` pending has used up its quota or
its packets (`SendsUntilExhausted`).

*The sliding window* (same module).  `ImplementsSlidingWindow` maps each call of
`try_send` to a `Send` or, with the ack that made it, an `Ack`.  What is outstanding is in
flight or in the ring, so the invariant's bound on the two is the contract's
(`WindowOfOutstanding`).

*OutputPort.*  `IInv` is `TypeOK /\ OneServer`.  The lemmas are that a push
appends to and a pop removes the head of `Contents`, the sequence the circular
buffer stands for.  `ImplementsDropTailLink` maps every step to a step of
`DropTailLink`; `Starts` is sound there only because an idle port has an empty
queue.

*EventQueue.*  `IInv` is `TypeOK /\ HeapOrdered /\ NothingLost`, where
`HeapOrdered` speaks of the array with its hole: order everywhere but across the
hole, and the hole's children no earlier than its parent.  That the root is the
minimum follows by well-founded descent along `Parent`.  `ImplementsAgenda` shows that every
turn of a sift leaves the set of pending events unchanged and that `pop` takes
the earliest.

*Permutation.*  `AlwaysOneCycle`, for any number of hosts and any draws.  While the
loop is at `i` every cycle of `dst` has exactly one host among `0..i`; at 0 there is
one cycle.  Cycles are spoken of by the sets they are closed under: `Reaches` says
that no set closed along `dst`, or against it, lies above `i`, and `Owns` that there is
a function constant along `dst` that names the one host up to `i` on each cycle.
Swapping the images of `i` and of a host strictly below it joins their two cycles
(`SwapMerges`, `SwapReaches`), which is where a draw of `i` itself would fail.
`NoSelf`, the assertion of `make_permutation`, follows.

*The builder* (`FabricProofs`).  `EveryPortPaired`, for any record of nodes and links,
parallel links included.  The run of a node begins after the link ends of all lower nodes and
has room for its own (`EndsFacts`), so the runs of two nodes are disjoint (`RunsApart`) and
together they are all port numbers (`RunsCover`).  The invariant says that a run is filled from
its beginning, one port for each link so far and in the order of the links
(`InOrderOfLinks`), and that every claimed port is in its owner's run (`InOwnersRun`); so the
two slots a link claims are new (`NewSlots`), and claiming them overwrites neither end of
another link.

*The search* (same module).  `SearchInLevels` and `TableOfShortestPaths`, for any blueprint,
disconnected ones and hosts in transit included.  The invariant of the search (`Scan`) speaks of the balls around the
host searched from: below `depth` a distance is at most `d` exactly in the ball of radius `d`;
the frontier has distance `depth - 1`, `next` is what has `depth`; and a node of the next ball
that is still missing hangs on a port of the frontier not yet looked at (`Missing`), so that when the
frontier is used up the level is complete (`LevelComplete`).  A level that finds nothing ends
the search: balls that stop growing stay as they are, and they stop within as many
steps as there are nodes (`WithinGrows`), which is why `depth` never reaches `kUnreachable` and
`dist + 1` never wraps on a node that was reached.  Exact distances make the next hops
the ports that enter a ball the node is outside of (`NextHopsAre`); each row of the packed array begins
where the one before ends (`RowAt`), so `candidates` reads back what was collected
(`CandidatesAre`), and that is what the reference of `Builder` selects (`DownhillIs`).

*Trips* (same module).  `TripsAreShortest` and `NoPacketStrays`, for any blueprint that is
`WellWired`: every host has one neighbour (hosts are "the ones with exactly one port",
`core/ids.hpp:50`) and can reach every other.  Without the first a host could be a transit node, without the second
a packet could be sent that has no route; the program checks neither, and both are proved of its topologies below.  A
candidate is one link closer, so links crossed and links to go add up to the distance of the two hosts
(`TripInv`).  A host other than the destination is never entered: its one neighbour, where the packet would have
to go on to, is where it came from (`HostEnds`).

*The topologies* (same module).  `EveryHopCounted`, `EveryRingCrossesPods`, `NoneStraysOnClos`
and `TopologiesBuild`, for every even arity and every number of spines, leaves and hosts per leaf.
What a loop of builder calls leaves is proved one turn at a time (`LoopKeeps`): the body
turns a record of so many switches, so many hosts and a set of links into one with a node or a link
more (`MakesNode`, `MakesLink`), so `FatTreeMade` and `LeafSpineMade` say which switches, hosts and
links there are, whatever the sizes.  Order and repetition of the links are dropped there: hop counts
do not depend on them.  A candidate closed form for the distance of a switch from a host is then checked link
by link (`FatTreeTiered`, `LeafSpineTiered`): it changes by exactly one along every link
between switches, falls along one of them at every switch but the host's own, and is 1 only there.  That
makes it the distance (`Descent`, `TieredAway`), which with `TripInv` counts the links of every
trip (`TieredTrips`).  The rest is index arithmetic: two hosts share an edge switch when they share
the pod and the column in it (`SameEdge`), and ranks one apart, the last and the first too, differ
modulo `k` (`NextPod`).

*The ring* (`AllReduceProofs`).  `AlwaysReduced` and `SendsAreStable`, for any number of
ranks.  A chunk has one flow in each step (`OneFlow`), each sent from where the one
before arrived (`WaitsArrives`), so what is complete of a chunk is the beginning of
that chain (`Chained`), a flow of step `s` carries the parts of the `s + 1` ranks from
the chunk's own onwards (`Carries`), and a rank holds what the latest arrival made
(`Holds`).  A rank receives a chunk twice only a whole turn apart (`TurnLater`): the
first time it adds to its own part alone, the second it is given the total, and between
the two lies the rank's own send.

*The event loop* (`SimulationProofs`).  `AssertsHold`, `DependentsWait` and `RunsSettle`, for any
fabric, table, link, transport and flows that `ScenariosAssumption` admits.  The state is one
record and a handler an operator on it, so the invariant is a predicate of records and each
operator a lemma.  `Good` holds at every call a handler makes: a packet under way is of a flow
that has been released, has been sent and, on a link to a host, is at its own destination
(`Homeward`); a port in service has one TxComplete pending; what a sender has sent is in flight,
in the ring or acked, in one of the first two at most (`Windowed`); what is in flight has the timer of its
latest attempt pending (`Timed`); a dependent flow has sent nothing before its release and
starts at the completion it waited for (`Chained`).  `AllRest` holds between events only: a
released sender with room and something to send has an Inject pending.  A handler breaks it
where it makes room (an ack, a timeout) and `try_send` restores it (`SendsRests`): the send loop
ends at the window, at the pacing gate, which leaves an Inject behind, or with nothing to send.
That is why `RunsSettle` follows when nothing is pending: nothing is in flight (it would have a timer), so
there is room, so there is nothing left to send, so everything is acked.  A released
dependent is in exactly one slot of the table of dependents (`slot`), so `complete_flow`
releases every flow that waits and no other.

*The second run* (same module).  `RunsAlwaysRepeat` compares two objects, so it speaks of the
states that a run passes through (`IsRun`, `RunTo`).  What `begin_run` makes does not depend on what
it is given (`SameBegin`), a turn of the loop has one outcome (`Deterministic`), and a run that
has drained goes no further, so two runs from the same beginning that both drain end
alike (`RunsMeet`, by the least turn after which they would differ).  The loops are
functions given by recursion, which TLAPS knows only as a choice of some function: that there is
one such function is `LoopUnique`.

*Conservation* (same module).  `BytesConserved` follows the books through every operator of a
handler.  `Missing` is what has been injected and is neither counted as received or dropped nor
in the fabric, by kind of packet.  Each operator leaves it alone (`Balanced`), makes it larger by one
packet (`Takes`: a packet is injected, or its Arrive event taken off the queue) or smaller
(`Gives`: it is queued or dropped, put on a wire, received), and a handler is a chain of these that
comes out even.  The sums are over finite sets of places (`Load`); that a sum may be split
and a member added or taken away (`LoadUnion`, `LoadAdd`) is proved by induction on the size of
the set, and that no two packets have the same place needs the numbers of pending
events to differ (`Shaped`).

*Ports of the loop* (`RunProofs`).  `PortsRefine` says of every port at once what
`ImplementsDropTailLink` says of one.  What `DropTailLink` sees of a port is the record `LinkOf`;
its wire is the pending Arrive events in the order they will be handled, and the first lemmas
say what that order makes of a new event that is the latest (`Line` grows at its end) and of
the first one taken away (it loses its head).  A new Arrive is the latest of its port because the
delay of a link is constant and nothing on it can be later than one delay from now
(`Links`).  Each call is then at most one step of one link, and a handler one step of
each of at most two: the port an event is about, and the one it sends on.  The theorem has
a hypothesis, `Paced`: every packet takes at least a nanosecond to send.  With a period of 0 (a packet of forty
bytes at 400 Gb/s) `try_send` hands its NIC several packets within one handler, which is several
steps of that link and not one.

*Order* (same module).  `OrderKept`: a flow that lost and resent nothing is received in
order, for any fabric without parallel links and any table, among any other traffic, paced
or not.  Not even the absence of cycles is assumed.  Here as in `PortsRefine` a port is named by its
owner and its peer, and there is one kind of host link and one of switch link, as in `Simulation`.  All data of a flow leaves a switch by the same port (`Hop`; this is what `select` must
not break), so the lanes along its path, wire before served before waiting, form one queue.  `Ordered` says that what
is sent and not received is in that queue, each packet once, and of two packets the lower
index is ahead: further on (`Later`) or earlier in the same lane.  A packet that moves on joins the end of the next
lane, where every lower one is ahead of it and no higher one has come (`Fits`); the one that
leaves the last lane is the oldest missing.  This speaks only of flows that have lost nothing (`Clean`), and
what keeps it inductive is that a packet in the ring has been sent before (`Tried`), so that sending it
from there is counted as a retransmission.  The invariant was checked by TLC on all states of
`simulation` before it was proved.

*Percentiles* (`RunProofs`).  `PercentilesRight`, for any number of flows and any times.  The
sorted list is given by rank, equal times by flow: the places 0 to n - 1 are taken by one flow
each (`PlaceTaken`, `SortedTimes`).  A time at place k - 1 is not exceeded by at least k flows
and fewer than k stay below it (`PlaceRanks`), and the k the code takes, the share times n
divided by 1000 and rounded up, is the least that covers the share (`PercentileLeast`).

*Routing* (`SimulationProofs`).  `hash_to_index` stays below `n` (`IndexBelow`), so `EcmpPolicy` returns a
candidate (`EcmpPicks`), and every candidate has a hash that picks it
(`EcmpReaches`); for any range of the hash.

*Checked by TLC only*, and why:

- `FlowSettles`: liveness under fairness is beyond the prover.
- `SendersAreTransports`: the copies of a packet and its timers are counted there over sets of events,
  for each index and attempt.  The invariants of `Transport` that matter for a run are proved
  of `Simulation` directly (`Windowed`, `Timed`, `AllRest`, `EndsSettled`).
- `PathsAsPromised`: the number of equal-cost paths is a sum over candidates taken recursively
  from node to node, and the ports of a switch are counted with repeated links; the proofs know the
  links of a topology as a set, and what a recursive definition computes for every
  input is induction over data.
- `ClosedForms`, `TimeoutMeansLoss`: statements about whole runs of particular scenarios.

## Where the code and its documents differ

- `core/simulation.cpp:305` says of a flow whose sender gives up that it "never
  completes"; it can (`transport_failed`).  `simulation.hpp:80` and
  `docs/design.md` say so correctly.  For the same reason a failed flow does not
  always strand "everything downstream of it" (`docs/design.md`).
- `docs/validation.md:170` says there is no retransmission and a drop leaves its flow
  permanently incomplete; there is and it need not (`simulation_drop`).
- Not a disagreement, but worth knowing: the attempt test of `on_timeout`
  (`simulation.cpp:291`) never rejects a timer the tests around it would accept.
  A packet is resent only from its own timer, so no superseded timer of an unacked
  packet is ever pending (`OneTimer`, proved).  And `Packet::attempt` is set by
  `send_packet` and never read.

- `scenario.cpp:171` says of a ring whose steps cross different numbers of links that
  the analytical time is the optimistic case, and `main.cpp:236` prints it as a lower
  bound; line 204 takes the longest step for all of them, and the collective can
  finish sooner (`ring_bound`).

Not disagreements of a run, but worth knowing:

- `docs/validation.md:105` says a collective whose steps overlapped would not be a
  collective.  Flows of different steps do overlap: a flow waits for one flow of the
  step before, not for all, and not for its own rank's; the flows form `gpus`
  independent chains, one for each chunk.  `Reduced` and `StableWhileSent` show that
  this is enough for the sum to be right.
- The lower bounds count the last packet as a whole one.  A flow whose size is no
  multiple of the MTU, the default of a million bytes included, can finish sooner
  (the fifth smoke scenario does; `ClosedForms` is stated for whole packets).
- `min_window_packets` asks for one packet more than needed when the packet's time
  divides the round trip.
- `analytical_exact` does not look at the queues: with a capacity of 0 it may hold of
  a flow that never completes.  `sized_transport` looks at the host link alone.
- The command line accepts a number of ranks with the default placement, which
  asserts one rank on every host (`all_reduce.cpp:25`).
- `virtual_end_ns` is the time of the last event, usually a timer of a packet acked
  long before.

## Not modelled

Identifiers, the scoped timer, the command line, the build, the tests and
doctest have no simulator state.  The hash of `flow_key.hpp` and the generator of
`rng.hpp` are arbitrary functions here: how evenly they spread is a question of
statistics.  `parse_routing` maps a name to a policy; `events_processed`, the sum
of retransmissions in `RunStats` and the `bytes_sent` and `bytes_dropped` of each port are counters
nothing depends on; the byte totals of `RunStats` are modelled.  Widths: attempts
are eight bits and capped by `max_attempts`, packet bytes sixteen bits and capped by
assertion, times sixty-four bits and not reached; none can wrap in the models' range.
