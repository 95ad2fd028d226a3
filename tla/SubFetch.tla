------------------------------ MODULE SubFetch ------------------------------
(***************************************************************************)
(* fetchAndParseSubs of internal/httpapi/convert.go: the subscriptions of  *)
(* one request are fetched and parsed by one goroutine per distinct URL,   *)
(* at most Limit at a time, while the caller consumes the results in the   *)
(* order of the URLs, cancels the rest at the first error, and returns     *)
(* only when every goroutine has ended.                                    *)
(*                                                                         *)
(* What an upstream answers is fixed for the request (upstream).  A fetch  *)
(* whose context is done (the caller cancelled, or the request's context   *)
(* ended by a disconnect or the conversion timeout) may fail with the      *)
(* context's error, or still end as the upstream has it when the answer    *)
(* was already there.  A node of a subscription is represented by the URL  *)
(* it came from.                                                           *)
(***************************************************************************)
EXTENDS Naturals, Sequences, FiniteSets, SequencesExt

CONSTANTS
  URLs,       \* subscription URLs
  SubLists,   \* the `sub` lists a request can carry
  Limit       \* concurrent fetches (4 in the code)

\* Both request parsers reject an empty list and entries that are blank
\* (parseConvertGET, parseConvertPOST), so the same check here never fails.
ASSUME SubsAreLists == SubLists \subseteq Seq(URLs) \ {<<>>}
ASSUME LimitIsPositive == Limit \in Nat \ {0}

VARIABLES
  subs,       \* the request's sub list
  upstream,   \* what each URL answers
  unique,     \* the distinct URLs in first-seen order
  scan,       \* the entry of subs the dedup loop is at
  wpc,        \* where each goroutine is
  sem,        \* the goroutines holding a slot of the semaphore
  results,    \* results[i], written by goroutine i only
  done,       \* the indices whose done channel is closed
  cpc,        \* where the caller is
  spawned,    \* how many goroutines the caller has started
  next,       \* the result the caller waits for
  out,        \* the nodes collected so far
  collected,  \* the resource snapshots handed to the collector, by URL
  counted,    \* the proxy count handed to the collector
  verdict,    \* what the call returns, once decided
  cancelled,  \* the caller has cancelled its derived context
  ended       \* the request's own context has ended

inputs == <<subs, upstream>>
workers == <<wpc, sem, results, done>>
caller == <<cpc, spawned, next, out, collected, counted, verdict>>
ctx == <<cancelled, ended>>
urls == <<unique, scan>>
vars == <<inputs, urls, workers, caller, ctx>>

\* A text without a node is an error of the parser too.
Answers == {"nodes", "bad_text", "unreachable"}
Verdicts == {"none", "proxies", "sub_parse_error", "fetch", "ctx", "parse"}
WorkerPcs == {"unborn", "acquire", "fetch", "parse", "release", "close", "wg_done", "gone"}
CallerPcs == {"dedup", "spawn", "collect", "drain", "returned"}

N == Len(unique)
Workers == DOMAIN wpc

\* A verdict with the URL it is about, if any; success carries the nodes.
Undecided == [kind |-> "none", at |-> <<>>, nodes |-> <<>>]
Failure(kind, at) == [kind |-> kind, at |-> at, nodes |-> <<>>]
Success(nodes) ==
  IF nodes = <<>> THEN Failure("sub_parse_error", <<>>)
                  ELSE [kind |-> "proxies", at |-> <<>>, nodes |-> nodes]

\* The nodes ss.ParseSubscriptionText finds at a URL that can be parsed.
Nodes(u) == IF upstream[u] = "nodes" THEN <<u>> ELSE <<>>

NoResult == [snapshot |-> FALSE, err |-> "none", proxies |-> <<>>]

-----------------------------------------------------------------------------
Init ==
  /\ subs \in SubLists
  /\ upstream \in [URLs -> Answers]
  /\ unique = <<>> /\ scan = 1
  /\ wpc = <<>> /\ sem = {} /\ results = <<>> /\ done = {}
  /\ cpc = "dedup" /\ spawned = 0 /\ next = 1
  /\ out = <<>> /\ collected = <<>> /\ counted = 0 /\ verdict = Undecided
  /\ cancelled = FALSE /\ ended = FALSE

CtxDone == cancelled \/ ended

\* "identical URLs are fetched once": one round of the loop over the list.
Dedup ==
  /\ cpc = "dedup" /\ scan <= Len(subs)
  /\ unique' = IF Contains(unique, subs[scan]) THEN unique ELSE Append(unique, subs[scan])
  /\ scan' = scan + 1
  /\ UNCHANGED <<inputs, workers, caller, ctx>>

\* One result and one channel per URL.
Prepare ==
  /\ cpc = "dedup" /\ scan > Len(subs)
  /\ wpc' = [i \in 1..N |-> "unborn"]
  /\ results' = [i \in 1..N |-> NoResult]
  /\ cpc' = "spawn"
  /\ UNCHANGED <<inputs, urls, sem, done, spawned, next, out, collected, counted, verdict, ctx>>

Spawn_OneTooMany ==
  /\ cpc = "spawn"
  /\ IF spawned <= N
     THEN /\ wpc' = [wpc EXCEPT ![spawned + 1] = "acquire"]
          /\ spawned' = spawned + 1
          /\ UNCHANGED cpc
     ELSE /\ cpc' = "collect"
          /\ UNCHANGED <<wpc, spawned>>
  /\ UNCHANGED <<inputs, urls, sem, results, done, next, out, collected, counted,
                 verdict, ctx>>

Spawn ==
  /\ cpc = "spawn"
  /\ IF spawned < N
     THEN /\ wpc' = [wpc EXCEPT ![spawned + 1] = "acquire"]
          /\ spawned' = spawned + 1
          /\ UNCHANGED cpc
     ELSE /\ cpc' = "collect"
          /\ UNCHANGED <<wpc, spawned>>
  /\ UNCHANGED <<inputs, urls, sem, results, done, next, out, collected, counted,
                 verdict, ctx>>

-----------------------------------------------------------------------------
(* Goroutine i.  Its deferred calls run in reverse order: release the      *)
(* semaphore, close done[i], wg.Done.                                      *)

WGoto(i, label) == wpc' = [wpc EXCEPT ![i] = label]

\* The capacity of the channel sem.
Slots_OnePerUrl == N
Slots == IF N < Limit THEN N ELSE Limit

Acquire_PublishesEarly(i) ==
  /\ wpc[i] = "acquire"
  /\ Cardinality(sem) < Slots
  /\ sem' = sem \cup {i}
  /\ done' = done \cup {i}
  /\ WGoto(i, "fetch")
  /\ UNCHANGED <<inputs, urls, results, caller, ctx>>

\* sem <- struct{}{}: not interrupted by a cancelled context.
Acquire(i) ==
  /\ wpc[i] = "acquire"
  /\ Cardinality(sem) < Slots
  /\ sem' = sem \cup {i}
  /\ WGoto(i, "fetch")
  /\ UNCHANGED <<inputs, urls, results, done, caller, ctx>>

Fetch(i) ==
  /\ wpc[i] = "fetch"
  /\ \/ /\ CtxDone
        /\ results' = [results EXCEPT ![i].err = "ctx"]
        /\ WGoto(i, "release")
     \/ /\ upstream[unique[i]] = "unreachable"
        /\ results' = [results EXCEPT ![i].err = "fetch"]
        /\ WGoto(i, "release")
     \/ /\ upstream[unique[i]] # "unreachable"
        /\ results' = [results EXCEPT ![i].snapshot = TRUE]
        /\ WGoto(i, "parse")
  /\ UNCHANGED <<inputs, urls, sem, done, caller, ctx>>

Parse(i) ==
  /\ wpc[i] = "parse"
  /\ IF upstream[unique[i]] = "bad_text"
     THEN results' = [results EXCEPT ![i].err = "parse"]
     ELSE results' = [results EXCEPT ![i].proxies = Nodes(unique[i])]
  /\ WGoto(i, "release")
  /\ UNCHANGED <<inputs, urls, sem, done, caller, ctx>>

Release_OnlyOnSuccess(i) ==
  /\ wpc[i] = "release"
  /\ sem' = IF results[i].err = "none" THEN sem \ {i} ELSE sem
  /\ WGoto(i, "close")
  /\ UNCHANGED <<inputs, urls, results, done, caller, ctx>>

Release(i) ==
  /\ wpc[i] = "release"
  /\ sem' = sem \ {i}
  /\ WGoto(i, "close")
  /\ UNCHANGED <<inputs, urls, results, done, caller, ctx>>

CloseDone(i) ==
  /\ wpc[i] = "close"
  /\ done' = done \cup {i}
  /\ WGoto(i, "wg_done")
  /\ UNCHANGED <<inputs, urls, sem, results, caller, ctx>>

WgDone(i) ==
  /\ wpc[i] = "wg_done"
  /\ WGoto(i, "gone")
  /\ UNCHANGED <<inputs, urls, sem, results, done, caller, ctx>>

-----------------------------------------------------------------------------
(* The caller. *)

\* <-done[i] returns.
Published_ByAny(i) == done # {}
Published(i) == i \in done

\* What the caller does with the results of goroutine `next`, once published.
Collect ==
  /\ cpc = "collect" /\ next <= N
  /\ Published(next)
  /\ collected' = IF results[next].snapshot THEN Append(collected, unique[next]) ELSE collected
  /\ IF results[next].err # "none"
     THEN /\ verdict' = Failure(results[next].err, <<unique[next]>>)
          /\ cancelled' = TRUE
          /\ cpc' = "drain"
          /\ UNCHANGED <<next, out>>
     ELSE /\ out' = out \o results[next].proxies
          /\ next' = next + 1
          /\ UNCHANGED <<verdict, cancelled, cpc>>
  /\ UNCHANGED <<inputs, urls, workers, spawned, counted, ended>>

\* wg.Wait returns.
AllGone_NotAwaited == TRUE
AllGone == \A i \in Workers : wpc[i] = "gone"

\* All results were good: count the nodes and return them (SUB_PARSE_ERROR
\* when there is none); the deferred cancel runs.
Finish ==
  /\ cpc = "collect" /\ next > N
  /\ AllGone
  /\ verdict' = Success(out)
  /\ counted' = Len(out)
  /\ cpc' = "returned"
  /\ cancelled' = TRUE
  /\ UNCHANGED <<inputs, urls, workers, spawned, next, out, collected, ended>>

\* The first error goes back to runConvert.
Abort ==
  /\ cpc = "drain"
  /\ AllGone
  /\ cpc' = "returned"
  /\ UNCHANGED <<inputs, urls, workers, spawned, next, out, collected, counted,
                 verdict, ctx>>

\* The client disconnects or ConvertTimeout passes.
RequestEnds ==
  /\ ~ended /\ cpc # "returned"
  /\ ended' = TRUE
  /\ UNCHANGED <<inputs, urls, workers, caller, cancelled>>

\* The call is over; the behaviour stays there.
Over == cpc = "returned" /\ UNCHANGED vars

WorkerStep(i) ==
  Acquire(i) \/ Fetch(i) \/ Parse(i) \/ Release(i) \/ CloseDone(i) \/ WgDone(i)

CallerStep == Dedup \/ Prepare \/ Spawn \/ Collect \/ Finish \/ Abort

Next ==
  \/ CallerStep
  \/ \E i \in Workers : WorkerStep(i)
  \/ RequestEnds
  \/ Over

Spec == Init /\ [][Next]_vars

(* Goroutines that can run do; a fetch ends, because every request has the *)
(* client timeout; slots of the semaphore go round.                        *)
FairSpec ==
  /\ Spec
  /\ WF_vars(CallerStep)
  /\ \A i \in 1..Cardinality(URLs) : WF_vars(i \in Workers /\ WorkerStep(i))
=============================================================================
