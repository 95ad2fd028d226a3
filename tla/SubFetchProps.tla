--------------------------- MODULE SubFetchProps ---------------------------
(* What the caller of fetchAndParseSubs relies on. *)
EXTENDS SubFetch

\* Every variable ranges over the values the code gives it.
TypeOK ==
  /\ subs \in SubLists
  /\ upstream \in [URLs -> Answers]
  /\ unique \in Seq(URLs)
  /\ scan \in 1..(Len(subs) + 1)
  /\ Workers = IF cpc = "dedup" THEN {} ELSE 1..N
  /\ wpc \in [Workers -> WorkerPcs]
  /\ sem \subseteq Workers
  /\ results \in [Workers -> [snapshot : BOOLEAN, err : Verdicts, proxies : Seq(URLs)]]
  /\ done \subseteq Workers
  /\ cpc \in CallerPcs
  /\ spawned \in 0..N
  /\ next \in 1..(N + 1)
  /\ out \in Seq(URLs)
  /\ collected \in Seq(URLs)
  /\ counted \in Nat
  /\ verdict \in [kind : Verdicts, at : Seq(URLs), nodes : Seq(URLs)]
  /\ cancelled \in BOOLEAN
  /\ ended \in BOOLEAN

\* "Limit concurrency to avoid hammering upstreams": no more fetches are in
\* flight than the semaphore has slots, and a goroutine in flight holds one.
AtMostLimitInFlight ==
  /\ \A i \in Workers : wpc[i] \in {"fetch", "parse", "release"} <=> i \in sem
  /\ Cardinality(sem) <= Limit

\* results[i] is handed over by closing done[i]: the caller reads it only after
\* goroutine i has written it for the last time, so the two never race.
ResultsPublishedOnce ==
  [][\A i \in done : results'[i] = results[i]]_vars

\* wg.Wait covers every path: when the call has returned no goroutine of it is
\* left to touch the results, the collector or an upstream.
NothingRunsAfterReturn ==
  cpc = "returned" => \A i \in Workers : wpc[i] = "gone"

\* Whatever the upstreams do, the call returns: no goroutine is left waiting
\* for a slot, and the caller is not left waiting for a goroutine.
CallReturns == <>(cpc = "returned")

Loop == INSTANCE SequentialFetch WITH
  list <- subs,
  answers <- upstream,
  handled <- {unique[i] : i \in 1..(next - 1)},
  nodes <- out,
  snaps <- collected

\* "Preserve stable first failing URL semantics": however the goroutines
\* interleave, the call is a sequential loop over the URLs: same nodes,
\* the error of the first URL of the list that fails, never one that the caller's
\* own cancel() caused, and the same snapshots in the same order for the error log.
ImplementsSequentialLoop == Loop!LoopSpec
=============================================================================
