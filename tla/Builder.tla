------------------------------- MODULE Builder -------------------------------
(***************************************************************************)
(* FabricBuilder's record of nodes and links, and what a built fabric and  *)
(* its route table come to when no one looks at how: Fabric and RouteTable *)
(* are checked to build exactly this, and Simulation runs on it.           *)
(***************************************************************************)
EXTENDS Naturals, Sequences, SequencesExt

(* The builder's calls, each from one record of nodes and links to the next. *)
Blank == [is_host |-> <<>>, edges |-> <<>>]

Size(b) == Len(b.is_host)

add_switch(b) == [b EXCEPT !.is_host = Append(@, FALSE)]

add_host(b) == [b EXCEPT !.is_host = Append(@, TRUE)]

connect(b, x, y) == [b EXCEPT !.edges = Append(@, <<x, y>>)]

IsBlueprint(b) ==
  /\ b.is_host \in Seq(BOOLEAN)
  /\ b.edges \in Seq((0 .. Size(b) - 1) \X (0 .. Size(b) - 1))
  /\ \A i \in DOMAIN b.edges : b.edges[i][1] # b.edges[i][2]

-----------------------------------------------------------------------------
NodesOf(b) == 0 .. Size(b) - 1

(* The elements of seq that are in S, in order: a loop with a push_back. *)
Those(seq, S) ==
  LET those[i \in 0 .. Len(seq)] ==
        IF i = 0 THEN <<>>
        ELSE IF seq[i] \in S THEN Append(those[i - 1], seq[i]) ELSE those[i - 1]
  IN  those[Len(seq)]

HostsOf(b) == Those([i \in 1 .. Size(b) |-> i - 1], {u \in NodesOf(b) : b.is_host[u + 1]})

(* The far ends of node u's ports, in port order: a turn for each link. *)
Far(b, u) ==
  LET far[n \in 0 .. Len(b.edges)] ==
        IF n = 0 THEN <<>>
        ELSE IF b.edges[n][1] = u THEN Append(far[n - 1], b.edges[n][2])
        ELSE IF b.edges[n][2] = u THEN Append(far[n - 1], b.edges[n][1])
        ELSE far[n - 1]
  IN  far[Len(b.edges)]

(* The links <<u, v>> of which v is closer than u to host d: those that enter *)
(* the nodes at most r links from d, for some r, from outside.              *)
Downhill(b, d) ==
  LET links == UNION {{<<e[1], e[2]>>, <<e[2], e[1]>>} : e \in ToSet(b.edges)}
      Grown[r \in NodesOf(b)] ==
        IF r = 0 THEN [ball |-> {d}, into |-> {}]
        ELSE LET near  == Grown[r - 1]
                 enter == {l \in links : l[2] \in near.ball /\ l[1] \notin near.ball}
             IN  [ball |-> near.ball \cup {l[1] : l \in enter}, into |-> near.into \cup enter]
  IN  Grown[Size(b) - 1].into

(* The neighbours of u on the links of down, in port order. *)
NextNodes(b, down, u) == Those(Far(b, u), {v \in NodesOf(b) : <<u, v>> \in down})

built(b) ==
  LET hosts  == HostsOf(b)
      switch == NodesOf(b) \ ToSet(hosts)
      Table(d) == LET down == Downhill(b, d)
                  IN  {<<<<u, d>>, NextNodes(b, down, u)>> : u \in switch}
      table  == UNION {Table(d) : d \in ToSet(hosts)}
      To(x)  == (CHOOSE t \in table : t[1] = x)[2]
  IN  [hosts  |-> hosts,
       switch |-> switch,
       port   |-> UNION {{<<u, v>> : v \in ToSet(Far(b, u))} : u \in NodesOf(b)},
       nic    |-> [h \in ToSet(hosts) |-> <<h, Far(b, h)[1]>>],
       candidates |-> [x \in switch \X ToSet(hosts) |->
                         [i \in DOMAIN To(x) |-> <<x[1], To(x)[i]>>]]]
=============================================================================
