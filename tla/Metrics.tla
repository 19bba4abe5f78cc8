------------------------------- MODULE Metrics -------------------------------
(***************************************************************************)
(* metrics/fct.cpp: completion times of a sequence of FlowResults.         *)
(***************************************************************************)
EXTENDS Naturals, Sequences, FiniteSetsExt, SequencesExt

fct_ns(r) == r.finish_ns - r.start_ns

RankDown(permille, n) == (permille * n) \div 1000   \* mutated

rank_up(permille, n) == (permille * n + 999) \div 1000

percentile_ns(sorted, permille) == sorted[Max({1, rank_up(permille, Len(sorted))})]

is_complete(r) == r.complete

(* The times of the complete flows, sorted, equal ones by flow.            *)
completed_fcts(results) ==
  LET done == {i \in DOMAIN results : is_complete(results[i])}
      Sooner(i, j) == \/ fct_ns(results[i]) < fct_ns(results[j])
                      \/ fct_ns(results[i]) = fct_ns(results[j]) /\ i < j
  IN  [k \in 1 .. Cardinality(done) |->
         fct_ns(results[CHOOSE i \in done :
                          Cardinality({j \in done : Sooner(j, i)}) = k - 1])]

(* When a collective finished; 0 when a flow of it did not. *)
collective_time_ns(results) ==
  IF \A i \in DOMAIN results : results[i].complete
  THEN Max({0} \cup {results[i].finish_ns : i \in DOMAIN results})
  ELSE 0

NoFlows(total) == [flows_total |-> total, flows_complete |-> 0, flows_incomplete |-> total,
                   min_ns |-> 0, max_ns |-> 0, p50_ns |-> 0, p90_ns |-> 0, p99_ns |-> 0,
                   mean_ns |-> 0]

summarize_fct(results) ==
  LET fcts == completed_fcts(results)
      n == Len(fcts)
  IN  IF n = 0 THEN NoFlows(Len(results))
      ELSE [flows_total |-> Len(results), flows_complete |-> n,
            flows_incomplete |-> Len(results) - n,
            min_ns |-> fcts[1], max_ns |-> fcts[n],
            p50_ns |-> percentile_ns(fcts, 500), p90_ns |-> percentile_ns(fcts, 900),
            p99_ns |-> percentile_ns(fcts, 990),
            mean_ns |-> FoldLeft(LAMBDA x, y : x + y, 0, fcts) \div n]
=============================================================================
