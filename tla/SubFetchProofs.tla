--------------------------- MODULE SubFetchProofs ---------------------------
(***************************************************************************)
(* For any list of URLs, any answers and any limit: the goroutines of a    *)
(* call are a sequential loop over the distinct URLs, no more than Limit   *)
(* of them fetch at a time, and none outlives the call.                    *)
(***************************************************************************)
EXTENDS SubFetchProps, FiniteSetTheorems, TLAPS

\* u is one of the first m entries of s.
Within(s, m, u) == \E l \in 1..m : s[l] = u

\* `unique` is the part of the list before `scan` without repetitions, in the
\* order of the first occurrences.
UniqueInv ==
  /\ \A i \in 1..(scan - 1) : Within(unique, N, subs[i])
  /\ \A l, m \in 1..N : unique[l] = unique[m] => l = m
  /\ \A m \in 1..N : \E i \in 1..(scan - 1) :
       /\ subs[i] = unique[m]
       /\ \A j \in 1..(i - 1) : Within(unique, m - 1, subs[j])
  /\ cpc # "dedup" => scan = Len(subs) + 1

\* Before the goroutines exist nothing has happened.
NothingYet ==
  /\ wpc = <<>> /\ results = <<>> /\ sem = {} /\ done = {}
  /\ next = 1 /\ spawned = 0

\* Goroutine i has written results[i] for the last time.
Settled(i) ==
  LET r == results[i]
      answer == upstream[unique[i]] IN
  \/ r.err = "none" /\ answer = "nodes" /\ r.snapshot /\ r.proxies = <<unique[i]>>
  \/ r.err = "parse" /\ answer = "bad_text" /\ r.snapshot
  \/ r.err = "fetch" /\ answer = "unreachable" /\ ~r.snapshot
  \/ r.err = "ctx" /\ ~r.snapshot /\ (ended \/ verdict # Undecided)

WorkerInv(i) ==
  /\ wpc[i] \in {"unborn", "acquire", "fetch"} => results[i] = NoResult
  /\ wpc[i] = "parse" => /\ results[i].snapshot /\ results[i].err = "none"
                         /\ upstream[unique[i]] # "unreachable"
  /\ wpc[i] \in {"release", "close", "wg_done", "gone"} => Settled(i)
  /\ i \in done => wpc[i] \in {"wg_done", "gone"}
  /\ wpc[i] \in {"fetch", "parse", "release"} <=> i \in sem

CallerInv ==
  /\ cpc = "dedup" => NothingYet
  /\ cpc = "spawn" => \A i \in Workers : i > spawned => wpc[i] = "unborn"
  /\ cpc \in {"dedup", "spawn", "collect"} => verdict = Undecided
  /\ cpc \in {"drain", "returned"} => verdict # Undecided
  /\ cancelled => verdict # Undecided
  /\ NothingRunsAfterReturn

\* The semaphore holds no more than its slots.
SlotsHold == Cardinality(sem) <= Slots

FetchInv ==
  /\ TypeOK
  /\ UniqueInv
  /\ \A i \in Workers : WorkerInv(i)
  /\ SlotsHold
  /\ CallerInv

-----------------------------------------------------------------------------
(* Data. *)

LEMMA FirstIndices == \A n \in Nat : 0 \in 0..n /\ 1 \in 1..(n + 1)
  OBVIOUS

LEMMA VerdictsDecide ==
  ASSUME NEW kind \in Verdicts \ {"none"}, NEW at, NEW nodes
  PROVE  Failure(kind, at) # Undecided /\ Success(nodes) # Undecided
  BY DEF Failure, Success, Undecided, Verdicts

LEMMA Basics ==
  ASSUME TypeOK
  PROVE  /\ N \in Nat /\ Len(subs) \in Nat /\ Slots \in Nat /\ Slots <= Limit
         /\ unique \in Seq(URLs) /\ subs \in Seq(URLs)
         /\ DOMAIN results = Workers /\ IsFiniteSet(sem)
  <1>1. N \in Nat /\ Len(subs) \in Nat /\ unique \in Seq(URLs) /\ subs \in Seq(URLs)
    BY SubsAreLists DEF TypeOK, N
  <1>2. Slots \in Nat /\ Slots <= Limit
    BY <1>1, LimitIsPositive DEF Slots
  <1>3. sem \subseteq 1..N
    BY DEF TypeOK
  <1>4. IsFiniteSet(1..N)
    BY <1>1, FS_Interval
  <1>5. IsFiniteSet(sem)
    BY <1>3, <1>4, FS_Subset
  <1>6. QED
    BY <1>1, <1>2, <1>5 DEF TypeOK

\* One round of the dedup loop.
LEMMA DedupKeepsUnique ==
  ASSUME TypeOK, UniqueInv, Dedup
  PROVE  UniqueInv' /\ unique' \in Seq(URLs) /\ scan' \in 1..(Len(subs) + 1)
  <1>0. /\ unique \in Seq(URLs) /\ subs \in Seq(URLs) /\ N \in Nat /\ Len(subs) \in Nat
        /\ scan \in 1..Len(subs) /\ scan' = scan + 1 /\ subs' = subs /\ cpc' = "dedup"
    BY Basics DEF Dedup, TypeOK, inputs, caller
  <1>1. subs[scan] \in URLs
    BY <1>0
  <1>2. CASE Contains(unique, subs[scan])
    <2>1. unique' = unique /\ N' = N /\ Within(unique, N, subs[scan])
      BY <1>2, <1>0 DEF Dedup, Contains, Within, N
    <2>3. \A i \in 1..(scan' - 1) : Within(unique, N, subs[i])
      BY <1>0, <2>1 DEF UniqueInv
    <2>4. \A m \in 1..N : \E i \in 1..(scan' - 1) :
            /\ subs[i] = unique[m]
            /\ \A j \in 1..(i - 1) : Within(unique, m - 1, subs[j])
      BY <1>0 DEF UniqueInv
    <2>5. QED
      BY <1>0, <2>1, <2>3, <2>4 DEF UniqueInv
  <1>3. CASE ~ Contains(unique, subs[scan])
    <2>1. /\ unique' = Append(unique, subs[scan])
          /\ \A l \in 1..N : unique[l] # subs[scan]
      BY <1>3, <1>0 DEF Dedup, Contains, N
    <2>2. /\ unique' \in Seq(URLs) /\ N' = N + 1 /\ unique'[N + 1] = subs[scan]
          /\ \A l \in 1..N : unique'[l] = unique[l]
      BY <1>0, <1>1, <2>1 DEF N
    <2>3. \A m \in 0..N : \A u : Within(unique', m, u) <=> Within(unique, m, u)
      BY <1>0, <2>2, SMTT(30) DEF Within
    <2>4. \A u : Within(unique, N, u) => Within(unique', N + 1, u)
      BY <1>0, <2>2, SMTT(30) DEF Within
    <2>5. Within(unique', N + 1, subs[scan])
      BY <1>0, <2>2 DEF Within
    <2>6. \A i \in 1..(scan' - 1) : Within(unique', N', subs[i])
      <3>1. \A i \in 1..(scan - 1) : Within(unique', N + 1, subs[i])
        BY <1>0, <2>4 DEF UniqueInv
      <3>2. QED
        BY <1>0, <2>2, <2>5, <3>1
    <2>7. \A l, m \in 1..N' : unique'[l] = unique'[m] => l = m
      <3>1. \A l, m \in 1..N : unique[l] = unique[m] => l = m
        BY DEF UniqueInv
      <3>2. QED
        BY <1>0, <2>1, <2>2, <3>1
    <2>8. ASSUME NEW m \in 1..N'
          PROVE  \E i \in 1..(scan' - 1) :
                   /\ subs[i] = unique'[m]
                   /\ \A j \in 1..(i - 1) : Within(unique', m - 1, subs[j])
      <3>1. CASE m \in 1..N
        <4>1. PICK i \in 1..(scan - 1) :
                     /\ subs[i] = unique[m]
                     /\ \A j \in 1..(i - 1) : Within(unique, m - 1, subs[j])
          BY <3>1 DEF UniqueInv
        <4>2. i \in 1..(scan' - 1) /\ subs[i] = unique'[m] /\ m - 1 \in 0..N
          BY <1>0, <2>2, <3>1, <4>1
        <4>3. QED
          BY <1>0, <2>3, <4>1, <4>2
      <3>2. CASE m = N + 1
        <4>1. scan \in 1..(scan' - 1) /\ subs[scan] = unique'[m] /\ m - 1 = N
          BY <1>0, <2>2, <3>2
        <4>2. \A j \in 1..(scan - 1) : Within(unique', N, subs[j])
          BY <1>0, <2>3 DEF UniqueInv
        <4>3. QED
          BY <4>1, <4>2
      <3>3. QED
        BY <1>0, <2>2, <3>1, <3>2
    <2>9. QED
      BY <1>0, <2>2, <2>6, <2>7, <2>8 DEF UniqueInv
  <1>4. QED
    BY <1>2, <1>3

-----------------------------------------------------------------------------
(* The goroutines. *)

\* What a step of goroutine i leaves alone.
LEMMA OthersStay ==
  ASSUME TypeOK, NEW i \in Workers, WorkerStep(i)
  PROVE  /\ UNCHANGED <<inputs, urls, caller, ctx>>
         /\ DOMAIN wpc' = Workers
         /\ \A j \in Workers \ {i} :
              /\ wpc'[j] = wpc[j] /\ results'[j] = results[j]
              /\ (j \in sem') = (j \in sem) /\ (j \in done') = (j \in done)
  <1>1. DOMAIN wpc = Workers /\ DOMAIN results = Workers
    BY DEF TypeOK, Workers
  <1>2. CASE Acquire(i)
    BY <1>1, <1>2 DEF Acquire, WGoto
  <1>3. CASE Fetch(i)
    BY <1>1, <1>3 DEF Fetch, WGoto
  <1>4. CASE Parse(i)
    BY <1>1, <1>4 DEF Parse, WGoto
  <1>5. CASE Release(i)
    BY <1>1, <1>5 DEF Release, WGoto
  <1>6. CASE CloseDone(i)
    BY <1>1, <1>6 DEF CloseDone, WGoto
  <1>7. CASE WgDone(i)
    BY <1>1, <1>7 DEF WgDone, WGoto, workers
  <1>8. QED
    BY <1>2, <1>3, <1>4, <1>5, <1>6, <1>7 DEF WorkerStep

\* A goroutine leaves the others' part of the invariant alone.
LEMMA OthersKept ==
  ASSUME TypeOK, NEW i \in Workers, WorkerStep(i), \A j \in Workers : WorkerInv(j)
  PROVE  \A j \in Workers \ {i} : WorkerInv(j)'
  <1> SUFFICES ASSUME NEW j \in Workers \ {i} PROVE WorkerInv(j)'
    OBVIOUS
  <1>1. /\ UNCHANGED <<upstream, unique, verdict, ended, wpc[j], results[j]>>
        /\ (j \in sem') = (j \in sem) /\ (j \in done') = (j \in done)
    BY OthersStay DEF inputs, urls, caller, ctx
  <1>2. (Undecided)' = Undecided
    BY DEF Undecided
  <1>3. QED
    BY <1>1, <1>2 DEF WorkerInv, Settled, NoResult

LEMMA WorkerKeeps ==
  ASSUME FetchInv, NEW i \in Workers, WorkerStep(i)
  PROVE  WorkerInv(i)' /\ TypeOK' /\ SlotsHold'
  <1> DEFINE Result == [snapshot : BOOLEAN, err : Verdicts, proxies : Seq(URLs)]
  <1>0. /\ N \in Nat /\ unique \in Seq(URLs) /\ cpc # "dedup" /\ Workers = 1..N
        /\ unique[i] \in URLs /\ upstream[unique[i]] \in Answers
        /\ DOMAIN wpc = Workers /\ DOMAIN results = Workers
        /\ wpc \in [Workers -> WorkerPcs] /\ WorkerInv(i)
        /\ results \in [Workers -> Result]
        /\ IsFiniteSet(sem) /\ Slots \in Nat /\ Cardinality(sem) \in Nat
        /\ Cardinality(sem) <= Slots
    <2>1. TypeOK /\ IsFiniteSet(sem)
      BY Basics DEF FetchInv
    <2>2. cpc # "dedup" /\ Workers = 1..N
      BY <2>1 DEF TypeOK
    <2>3. unique[i] \in URLs
      BY <2>1, <2>2, Basics DEF N
    <2>4. Cardinality(sem) \in Nat
      BY <2>1, FS_CardinalityType
    <2>5. QED
      BY <2>1, <2>2, <2>3, <2>4, Basics DEF FetchInv, TypeOK, SlotsHold
  <1>1. /\ UNCHANGED <<inputs, urls, caller, ctx>> /\ Workers' = Workers
        /\ DOMAIN wpc' = Workers /\ N' = N /\ Slots' = Slots
    BY OthersStay DEF FetchInv, N, Slots, Workers, urls
  <1>2. CASE Acquire(i)
    <2>1. /\ wpc' = [wpc EXCEPT ![i] = "fetch"] /\ sem' = sem \cup {i}
          /\ UNCHANGED <<results, done>> /\ wpc[i] = "acquire" /\ i \notin sem
          /\ Cardinality(sem) < Slots
      BY <1>0, <1>2 DEF Acquire, WGoto, WorkerInv
    <2>2. SlotsHold'
      <3>1. Cardinality(sem') = Cardinality(sem) + 1
        BY <1>0, <2>1, FS_AddElement
      <3>2. QED
        BY <1>0, <1>1, <2>1, <3>1 DEF SlotsHold
    <2>3. WorkerInv(i)'
      BY <1>0, <1>1, <2>1 DEF WorkerInv, NoResult
    <2>4. TypeOK'
      BY <1>0, <1>1, <2>1 DEF FetchInv, TypeOK, WorkerPcs, inputs, urls, caller, ctx
    <2>5. QED
      BY <2>2, <2>3, <2>4
  <1>3. CASE Fetch(i)
    <2>1. /\ UNCHANGED <<sem, done, upstream, unique, verdict, ended>> /\ wpc[i] = "fetch"
          /\ results[i] = NoResult /\ i \in sem /\ i \notin done /\ (Undecided)' = Undecided
      BY <1>0, <1>1, <1>3 DEF Fetch, WorkerInv, Undecided, inputs, urls, caller, ctx
    <2>2. CtxDone => ended \/ verdict # Undecided
      BY DEF FetchInv, CallerInv, CtxDone
    <2>3. ASSUME CtxDone, results' = [results EXCEPT ![i].err = "ctx"], wpc' = [wpc EXCEPT ![i] = "release"]
          PROVE  WorkerInv(i)' /\ results' \in [Workers -> Result] /\ wpc' \in [Workers -> WorkerPcs]
      <3>1. WorkerInv(i)'
        BY <1>0, <2>1, <2>2, <2>3 DEF WorkerInv, Settled, NoResult
      <3>2. results' \in [Workers -> Result] /\ wpc' \in [Workers -> WorkerPcs]
        BY <1>0, <2>3 DEF Verdicts, WorkerPcs
      <3>3. QED
        BY <3>1, <3>2
    <2>4. ASSUME upstream[unique[i]] = "unreachable",
                 results' = [results EXCEPT ![i].err = "fetch"], wpc' = [wpc EXCEPT ![i] = "release"]
          PROVE  WorkerInv(i)' /\ results' \in [Workers -> Result] /\ wpc' \in [Workers -> WorkerPcs]
      <3>1. WorkerInv(i)'
        BY <1>0, <2>1, <2>4 DEF WorkerInv, Settled, NoResult
      <3>2. results' \in [Workers -> Result] /\ wpc' \in [Workers -> WorkerPcs]
        BY <1>0, <2>4 DEF Verdicts, WorkerPcs
      <3>3. QED
        BY <3>1, <3>2
    <2>5. ASSUME upstream[unique[i]] # "unreachable",
                 results' = [results EXCEPT ![i].snapshot = TRUE], wpc' = [wpc EXCEPT ![i] = "parse"]
          PROVE  WorkerInv(i)' /\ results' \in [Workers -> Result] /\ wpc' \in [Workers -> WorkerPcs]
      <3>1. WorkerInv(i)'
        BY <1>0, <2>1, <2>5 DEF WorkerInv, NoResult
      <3>2. results' \in [Workers -> Result] /\ wpc' \in [Workers -> WorkerPcs]
        BY <1>0, <2>5 DEF WorkerPcs
      <3>3. QED
        BY <3>1, <3>2
    <2>6. WorkerInv(i)' /\ results' \in [Workers -> Result] /\ wpc' \in [Workers -> WorkerPcs]
      BY <1>3, <2>3, <2>4, <2>5 DEF Fetch, WGoto
    <2>7. TypeOK'
      BY <1>0, <1>1, <2>1, <2>6 DEF FetchInv, TypeOK, inputs, urls, caller, ctx
    <2>8. QED
      BY <1>0, <1>1, <2>1, <2>6, <2>7 DEF SlotsHold
  <1>4. CASE Parse(i)
    <2>1. /\ UNCHANGED <<sem, done, upstream, unique, verdict, ended>> /\ wpc[i] = "parse"
          /\ results[i].snapshot /\ results[i].err = "none" /\ upstream[unique[i]] # "unreachable"
          /\ i \in sem /\ i \notin done /\ wpc' = [wpc EXCEPT ![i] = "release"]
      BY <1>0, <1>1, <1>4 DEF Parse, WGoto, WorkerInv, inputs, urls, caller, ctx
    <2>2. \/ upstream[unique[i]] = "bad_text" /\ results' = [results EXCEPT ![i].err = "parse"]
          \/ upstream[unique[i]] = "nodes" /\ results' = [results EXCEPT ![i].proxies = <<unique[i]>>]
      BY <1>0, <1>4, <2>1 DEF Parse, Nodes, Answers
    <2>3. WorkerInv(i)'
      <3>1. CASE upstream[unique[i]] = "bad_text"
        BY <1>0, <2>1, <2>2, <3>1 DEF WorkerInv, Settled
      <3>2. CASE upstream[unique[i]] = "nodes"
        BY <1>0, <2>1, <2>2, <3>2 DEF WorkerInv, Settled
      <3>3. QED
        BY <2>2, <3>1, <3>2
    <2>4. <<unique[i]>> \in Seq(URLs)
      BY <1>0
    <2>5. results' \in [Workers -> Result]
      BY <1>0, <2>2, <2>4, ZenonT(40) DEF Verdicts
    <2>6. wpc' \in [Workers -> WorkerPcs]
      BY <1>0, <2>1 DEF WorkerPcs
    <2>7. TypeOK'
      BY <1>0, <1>1, <2>1, <2>5, <2>6 DEF FetchInv, TypeOK, inputs, urls, caller, ctx
    <2>8. QED
      BY <1>0, <1>1, <2>1, <2>3, <2>7 DEF SlotsHold
  <1>5. CASE Release(i)
    <2>1. /\ wpc' = [wpc EXCEPT ![i] = "close"] /\ sem' = sem \ {i} /\ wpc[i] = "release"
          /\ UNCHANGED <<results, done, upstream, unique, verdict, ended>> /\ i \notin done /\ Settled(i)
      BY <1>0, <1>1, <1>5 DEF Release, WGoto, WorkerInv, inputs, urls, caller, ctx
    <2>2. SlotsHold'
      <3>1. Cardinality(sem') = Cardinality(sem) \/ Cardinality(sem') = Cardinality(sem) - 1
        BY <1>0, <2>1, FS_RemoveElement
      <3>2. QED
        BY <1>0, <1>1, <3>1 DEF SlotsHold
    <2>3. WorkerInv(i)'
      BY <1>0, <2>1 DEF WorkerInv, Settled, Undecided
    <2>4. TypeOK'
      BY <1>0, <1>1, <2>1 DEF FetchInv, TypeOK, WorkerPcs, inputs, urls, caller, ctx
    <2>5. QED
      BY <2>2, <2>3, <2>4
  <1>6. CASE CloseDone(i) \/ WgDone(i)
    <2>1. /\ UNCHANGED <<sem, results, upstream, unique, verdict, ended>> /\ Settled(i) /\ i \notin sem
          /\ \/ wpc' = [wpc EXCEPT ![i] = "wg_done"] /\ done' = done \cup {i}
             \/ wpc' = [wpc EXCEPT ![i] = "gone"] /\ done' = done
      BY <1>0, <1>1, <1>6 DEF CloseDone, WgDone, WGoto, WorkerInv, inputs, urls, caller, ctx
    <2>2. WorkerInv(i)'
      BY <1>0, <2>1 DEF WorkerInv, Settled, Undecided
    <2>3. TypeOK'
      BY <1>0, <1>1, <2>1 DEF FetchInv, TypeOK, WorkerPcs, inputs, urls, caller, ctx
    <2>4. QED
      BY <1>0, <1>1, <2>1, <2>2, <2>3 DEF SlotsHold
  <1>7. QED
    BY <1>2, <1>3, <1>4, <1>5, <1>6 DEF WorkerStep

\* So a step of a goroutine preserves the invariant.
LEMMA WorkerStepKeeps ==
  ASSUME FetchInv, NEW i \in Workers, WorkerStep(i)
  PROVE  FetchInv'
  <1>1. /\ TypeOK' /\ SlotsHold' /\ WorkerInv(i)'
    BY WorkerKeeps
  <1>2. \A j \in Workers \ {i} : WorkerInv(j)'
    BY OthersKept DEF FetchInv
  <1>3. /\ UNCHANGED <<inputs, urls, caller, ctx>> /\ Workers' = Workers
    BY OthersStay DEF FetchInv, Workers
  <1>4. UniqueInv'
    <2>1. UNCHANGED <<subs, unique, scan, cpc>> /\ N' = N
      BY <1>3 DEF N, inputs, urls, caller
    <2>2. QED
      BY <2>1 DEF FetchInv, UniqueInv
  <1>5. cpc \notin {"dedup", "returned"}
    BY DEF FetchInv, TypeOK, CallerInv, NothingRunsAfterReturn, WorkerStep, Acquire, Fetch, Parse,
           Release, CloseDone, WgDone
  <1>6. ASSUME cpc = "spawn" PROVE CallerInv'
    <2>1. \A j \in Workers : wpc[j] = "unborn" => wpc'[j] = "unborn"
      <3>1. wpc[i] # "unborn"
        BY DEF WorkerStep, Acquire, Fetch, Parse, Release, CloseDone, WgDone
      <3>2. QED
        BY <3>1, OthersStay DEF FetchInv
    <2>2. QED
      BY <1>3, <1>6, <2>1 DEF FetchInv, CallerInv, NothingRunsAfterReturn, Undecided, caller, ctx
  <1>7. ASSUME cpc # "spawn" PROVE CallerInv'
    BY <1>3, <1>5, <1>7 DEF FetchInv, CallerInv, NothingRunsAfterReturn, Undecided, caller, ctx
  <1>8. CallerInv'
    BY <1>6, <1>7
  <1>9. QED
    BY <1>1, <1>2, <1>3, <1>4, <1>8 DEF FetchInv

-----------------------------------------------------------------------------
(* The caller. *)

\* What the caller finds in a published result.
LEMMA PublishedIsSettled ==
  ASSUME FetchInv, Collect
  PROVE  /\ next \in 1..N /\ next \in Workers /\ unique[next] \in URLs
         /\ verdict = Undecided /\ ~cancelled /\ Settled(next)
         /\ results[next].err \in Verdicts /\ results[next].proxies \in Seq(URLs)
         /\ results[next].snapshot \in BOOLEAN
  <1>1. TypeOK /\ next \in 1..N /\ cpc = "collect" /\ next \in done
    BY Basics DEF FetchInv, TypeOK, Collect, Published
  <1>2. next \in Workers /\ unique[next] \in URLs
    BY <1>1, Basics DEF TypeOK, N
  <1>3. Settled(next)
    BY <1>1, <1>2 DEF FetchInv, WorkerInv
  <1>4. verdict = Undecided /\ ~cancelled
    BY <1>1 DEF FetchInv, CallerInv, TypeOK
  <1>5. QED
    BY <1>1, <1>2, <1>3, <1>4 DEF TypeOK

\* The goroutines do not see what the caller does, but for a verdict.
LEMMA CallerLeavesWorkers ==
  ASSUME FetchInv, UNCHANGED <<inputs, urls, workers>>,
         ended => ended', verdict # Undecided => verdict' # Undecided,
         cpc # "dedup", cpc' # "dedup"
  PROVE  UniqueInv' /\ (\A i \in Workers' : WorkerInv(i)') /\ SlotsHold' /\ Workers' = Workers /\ N' = N
  <1>1. /\ UNCHANGED <<subs, upstream, unique, scan, wpc, sem, results, done>>
        /\ N' = N /\ Workers' = Workers /\ Slots' = Slots
    BY DEF N, Slots, Workers, inputs, urls, workers
  <1>2. UniqueInv'
    BY <1>1 DEF FetchInv, UniqueInv
  <1>3. (Undecided)' = Undecided
    BY DEF Undecided
  <1>4. ASSUME NEW i \in Workers PROVE WorkerInv(i)'
    BY <1>1, <1>3 DEF FetchInv, WorkerInv, Settled
  <1>5. QED
    BY <1>1, <1>2, <1>4 DEF FetchInv, SlotsHold

LEMMA DedupKeeps ==
  ASSUME FetchInv, Dedup
  PROVE  FetchInv'
  <1>1. UniqueInv' /\ unique' \in Seq(URLs) /\ scan' \in 1..(Len(subs) + 1) /\ N' \in Nat
    BY DedupKeepsUnique DEF FetchInv, N
  <1>2. /\ UNCHANGED <<inputs, workers, caller, ctx>> /\ cpc = "dedup" /\ NothingYet
        /\ Workers' = {} /\ Workers = {} /\ DOMAIN wpc = {}
    BY DEF FetchInv, CallerInv, TypeOK, Dedup, Workers, workers
  <1>3. TypeOK'
    <2>1. UNCHANGED <<subs, upstream, wpc, sem, results, done, cpc, spawned, next, out, collected,
                      counted, verdict, cancelled, ended>>
      BY <1>2 DEF inputs, workers, caller, ctx
    <2>2. spawned' \in 0..N' /\ next' \in 1..(N' + 1)
      <3>1. spawned' = 0 /\ next' = 1
        BY <1>2, <2>1 DEF NothingYet
      <3>2. N' \in Nat
        BY <1>1
      <3>3. QED
        BY <3>1, <3>2, FirstIndices
    <2>3. QED
      BY <1>1, <1>2, <2>1, <2>2 DEF FetchInv, TypeOK
  <1>4. SlotsHold'
    <2>1. sem' = {} /\ Slots' \in Nat
      BY <1>1, <1>2, LimitIsPositive DEF NothingYet, Slots, workers
    <2>2. QED
      BY <2>1, FS_EmptySet DEF SlotsHold
  <1>5. CallerInv'
    BY <1>2 DEF FetchInv, CallerInv, NothingYet, NothingRunsAfterReturn, Undecided, workers, caller, ctx
  <1>6. QED
    BY <1>1, <1>2, <1>3, <1>4, <1>5 DEF FetchInv

LEMMA PrepareKeeps ==
  ASSUME FetchInv, Prepare
  PROVE  FetchInv'
  <1>1. /\ UNCHANGED <<subs, upstream, unique, scan, sem, done, spawned, next, out, collected, counted,
                       verdict, cancelled, ended>>
        /\ wpc' = [i \in 1..N |-> "unborn"] /\ results' = [i \in 1..N |-> NoResult] /\ cpc' = "spawn"
        /\ NothingYet /\ N \in Nat /\ N' = N /\ Slots' = Slots /\ Workers' = 1..N
        /\ verdict = Undecided /\ ~cancelled /\ scan = Len(subs) + 1
    BY Basics DEF Prepare, FetchInv, CallerInv, TypeOK, inputs, urls, ctx, N, Slots, Workers
  <1>2. TypeOK'
    <2>1. wpc' \in [Workers' -> WorkerPcs]
      BY <1>1 DEF WorkerPcs
    <2>2. NoResult \in [snapshot : BOOLEAN, err : Verdicts, proxies : Seq(URLs)]
      BY DEF NoResult, Verdicts
    <2>3. results' \in [Workers' -> [snapshot : BOOLEAN, err : Verdicts, proxies : Seq(URLs)]]
      BY <1>1, <2>2
    <2>4. QED
      BY <1>1, <2>1, <2>3 DEF FetchInv, TypeOK, NothingYet, CallerPcs
  <1>3. UniqueInv'
    BY <1>1 DEF FetchInv, UniqueInv
  <1>4. \A i \in Workers' : WorkerInv(i)'
    BY <1>1 DEF WorkerInv, NothingYet, NoResult
  <1>5. CallerInv' /\ SlotsHold'
    BY <1>1 DEF FetchInv, CallerInv, SlotsHold, NothingRunsAfterReturn, Undecided
  <1>6. QED
    BY <1>2, <1>3, <1>4, <1>5 DEF FetchInv

LEMMA SpawnKeeps ==
  ASSUME FetchInv, Spawn
  PROVE  FetchInv'
  <1>1. CASE spawned < N
    <2>0. spawned + 1 \in Workers /\ N \in Nat /\ spawned \in Nat
      BY <1>1, Basics, SMTT(30) DEF FetchInv, TypeOK, Spawn
    <2>1. /\ UNCHANGED <<inputs, urls, sem, results, done, cpc, next, out, collected, counted, verdict, ctx>>
          /\ wpc' = [wpc EXCEPT ![spawned + 1] = "acquire"] /\ spawned' = spawned + 1 /\ cpc = "spawn"
          /\ N' = N /\ Slots' = Slots /\ Workers' = Workers
      BY <1>1 DEF Spawn, N, Slots, Workers, urls
    <2>2. TypeOK'
      BY <1>1, <2>0, <2>1 DEF FetchInv, TypeOK, WorkerPcs, inputs, urls, ctx
    <2>3. UniqueInv'
      BY <2>1 DEF FetchInv, UniqueInv, inputs, urls
    <2>4. wpc[spawned + 1] = "unborn"
      BY <2>0, <2>1 DEF FetchInv, CallerInv
    <2>5. ASSUME NEW i \in Workers PROVE WorkerInv(i)'
      <3>1. UNCHANGED <<upstream, unique, results, sem, done, verdict, ended>> /\ (Undecided)' = Undecided
        BY <2>1 DEF inputs, urls, ctx, Undecided
      <3>2. wpc'[i] = wpc[i] \/ (wpc[i] = "unborn" /\ wpc'[i] = "acquire")
        BY <2>0, <2>1, <2>4 DEF Workers
      <3>3. QED
        BY <3>1, <3>2 DEF FetchInv, WorkerInv, Settled
    <2>6. CallerInv'
      <3>1. \A i \in Workers : i > spawned + 1 => wpc'[i] = "unborn"
        BY <2>0, <2>1 DEF FetchInv, CallerInv, TypeOK
      <3>2. QED
        BY <2>1, <3>1 DEF FetchInv, CallerInv, NothingRunsAfterReturn, Undecided, ctx
    <2>7. QED
      BY <2>1, <2>2, <2>3, <2>5, <2>6 DEF FetchInv, SlotsHold
  <1>2. CASE ~(spawned < N)
    <2>1. /\ UNCHANGED <<inputs, urls, workers, spawned, next, out, collected, counted, verdict, ctx>>
          /\ cpc = "spawn" /\ cpc' = "collect"
      BY <1>2 DEF Spawn, workers
    <2>2. TypeOK'
      BY <2>1 DEF FetchInv, TypeOK, CallerPcs, inputs, urls, workers, ctx, N, Workers
    <2>3. CallerInv'
      BY <2>1 DEF FetchInv, CallerInv, NothingRunsAfterReturn, Undecided, workers, ctx
    <2>4. ended => ended'
      BY <2>1 DEF ctx
    <2>5. QED
      BY <2>1, <2>2, <2>3, <2>4, CallerLeavesWorkers DEF FetchInv, Undecided
  <1>3. QED
    BY <1>1, <1>2

LEMMA CollectKeeps ==
  ASSUME FetchInv, Collect
  PROVE  FetchInv'
  <1>0. /\ UNCHANGED <<inputs, urls, workers, spawned, counted, ended>> /\ cpc = "collect"
        /\ cpc' \in {"collect", "drain"} /\ N' = N /\ Workers' = Workers /\ (Undecided)' = Undecided
        /\ N \in Nat
    BY Basics DEF FetchInv, Collect, N, Workers, Undecided, urls, workers
  <1>1. /\ next \in 1..N /\ unique[next] \in URLs /\ verdict = Undecided /\ ~cancelled
        /\ results[next].err \in Verdicts /\ results[next].proxies \in Seq(URLs)
    BY PublishedIsSettled
  <1>2. collected' \in Seq(URLs)
    BY <1>1 DEF FetchInv, TypeOK, Collect
  <1>3. CASE results[next].err # "none"
    <2>1. /\ verdict' = Failure(results[next].err, <<unique[next]>>) /\ cancelled' = TRUE
          /\ cpc' = "drain" /\ UNCHANGED <<next, out>>
      BY <1>3 DEF Collect
    <2>2. verdict' # Undecided
      BY <1>1, <1>3, <2>1, VerdictsDecide
    <2>3. verdict' \in [kind : Verdicts, at : Seq(URLs), nodes : Seq(URLs)]
      BY <1>1, <2>1 DEF Failure
    <2>4. TypeOK'
      BY <1>0, <1>2, <2>1, <2>3 DEF FetchInv, TypeOK, CallerPcs, inputs, urls, workers
    <2>5. CallerInv'
      BY <1>0, <2>1, <2>2 DEF CallerInv, NothingRunsAfterReturn
    <2>6. QED
      BY <1>0, <2>2, <2>4, <2>5, CallerLeavesWorkers DEF FetchInv
  <1>4. CASE results[next].err = "none"
    <2>1. /\ out' = out \o results[next].proxies /\ next' = next + 1
          /\ UNCHANGED <<verdict, cancelled, cpc>>
      BY <1>4 DEF Collect
    <2>2. TypeOK'
      BY <1>0, <1>1, <1>2, <2>1, SMTT(30) DEF FetchInv, TypeOK, inputs, urls, workers
    <2>3. CallerInv'
      BY <1>0, <1>1, <2>1 DEF CallerInv, NothingRunsAfterReturn
    <2>4. QED
      BY <1>0, <2>1, <2>2, <2>3, CallerLeavesWorkers DEF FetchInv
  <1>5. QED
    BY <1>3, <1>4

LEMMA EndKeeps ==
  ASSUME FetchInv, Finish \/ Abort \/ RequestEnds
  PROVE  FetchInv'
  <1>0. /\ UNCHANGED <<inputs, urls, workers, spawned, next, collected, out>> /\ N' = N /\ Workers' = Workers
        /\ (Undecided)' = Undecided /\ (ended => ended') /\ N \in Nat
    BY Basics DEF FetchInv, Finish, Abort, RequestEnds, N, Workers, Undecided, urls, workers, caller, ctx
  <1>1. CASE Finish
    <2>1. /\ verdict' = Success(out) /\ counted' = Len(out) /\ cpc = "collect" /\ cpc' = "returned"
          /\ cancelled' = TRUE /\ ended' = ended /\ AllGone
      BY <1>1 DEF Finish
    <2>2. verdict' # Undecided
      BY <2>1, VerdictsDecide DEF Verdicts
    <2>3. verdict' \in [kind : Verdicts, at : Seq(URLs), nodes : Seq(URLs)]
      BY <2>1 DEF Success, Failure, Verdicts, FetchInv, TypeOK
    <2>4. TypeOK'
      BY <1>0, <2>1, <2>3, SMTT(30) DEF FetchInv, TypeOK, CallerPcs, inputs, urls, workers
    <2>5. CallerInv'
      BY <1>0, <2>1, <2>2 DEF CallerInv, NothingRunsAfterReturn, AllGone, workers
    <2>6. QED
      BY <1>0, <2>1, <2>2, <2>4, <2>5, CallerLeavesWorkers DEF FetchInv
  <1>2. CASE Abort
    <2>1. /\ UNCHANGED <<verdict, counted, ctx>> /\ cpc = "drain" /\ cpc' = "returned" /\ AllGone
      BY <1>2 DEF Abort
    <2>2. TypeOK'
      BY <1>0, <2>1 DEF FetchInv, TypeOK, CallerPcs, inputs, urls, workers, ctx
    <2>3. CallerInv'
      BY <1>0, <2>1 DEF FetchInv, CallerInv, NothingRunsAfterReturn, AllGone, workers, ctx
    <2>4. QED
      BY <1>0, <2>1, <2>2, <2>3, CallerLeavesWorkers DEF FetchInv
  <1>3. CASE RequestEnds
    <2>1. UNCHANGED <<caller, cancelled>> /\ ended' = TRUE /\ Slots' = Slots
      BY <1>0, <1>3 DEF RequestEnds, Slots
    <2>2. TypeOK'
      BY <1>0, <2>1 DEF FetchInv, TypeOK, inputs, urls, workers, caller
    <2>3. CallerInv'
      BY <1>0, <2>1 DEF FetchInv, CallerInv, NothingYet, NothingRunsAfterReturn, workers, caller
    <2>4. UniqueInv'
      BY <1>0, <2>1 DEF FetchInv, UniqueInv, inputs, urls, caller
    <2>5. \A i \in Workers : WorkerInv(i)'
      BY <1>0, <2>1 DEF FetchInv, WorkerInv, Settled, inputs, urls, workers, caller
    <2>6. SlotsHold'
      BY <1>0, <2>1 DEF FetchInv, SlotsHold, workers
    <2>7. QED
      BY <1>0, <2>2, <2>3, <2>4, <2>5, <2>6 DEF FetchInv
  <1>4. QED
    BY <1>1, <1>2, <1>3

-----------------------------------------------------------------------------
(* The invariant. *)

LEMMA InitFetch == Init => FetchInv
  <1> SUFFICES ASSUME Init PROVE FetchInv
    OBVIOUS
  <1>1. /\ N = 0 /\ Workers = {} /\ DOMAIN wpc = {} /\ sem = {} /\ Slots = 0 /\ Len(subs) \in Nat
        /\ cpc = "dedup" /\ verdict = Undecided /\ ~cancelled /\ NothingYet /\ scan = 1
    BY SubsAreLists, LimitIsPositive DEF Init, N, Workers, Slots, NothingYet
  <1>2. TypeOK
    <2>1. Undecided \in [kind : Verdicts, at : Seq(URLs), nodes : Seq(URLs)]
      BY DEF Undecided, Verdicts
    <2>2. /\ subs \in SubLists /\ upstream \in [URLs -> Answers] /\ verdict = Undecided
          /\ unique = <<>> /\ out = <<>> /\ collected = <<>> /\ counted = 0 /\ cancelled = FALSE
          /\ ended = FALSE /\ DOMAIN results = {} /\ wpc = <<>> /\ results = <<>> /\ done = {}
          /\ spawned = 0 /\ next = 1 /\ scan = 1 /\ scan \in 1..(Len(subs) + 1)
      BY <1>1 DEF Init
    <2>3. <<>> \in Seq(URLs) /\ cpc \in CallerPcs
      BY <1>1 DEF CallerPcs
    <2>4. wpc \in [{} -> WorkerPcs]
      BY <1>1, <2>2
    <2>5. results \in [{} -> [snapshot : BOOLEAN, err : Verdicts, proxies : Seq(URLs)]]
      BY <2>2
    <2>6. /\ wpc \in [Workers -> WorkerPcs]
          /\ results \in [Workers -> [snapshot : BOOLEAN, err : Verdicts, proxies : Seq(URLs)]]
      BY <1>1, <2>4, <2>5
    <2>7. /\ spawned \in 0..N /\ next \in 1..(N + 1) /\ done \subseteq Workers /\ sem \subseteq Workers
          /\ counted \in Nat /\ cancelled \in BOOLEAN /\ ended \in BOOLEAN
      <3>1. N \in Nat /\ spawned = 0 /\ next = 1
        BY <1>1, <2>2
      <3>2. spawned \in 0..N /\ next \in 1..(N + 1)
        BY <3>1, FirstIndices
      <3>3. QED
        BY <1>1, <2>2, <3>2
    <2>8. QED
      BY <1>1, <2>1, <2>2, <2>3, <2>6, <2>7 DEF TypeOK
  <1>3. SlotsHold
    BY <1>1, FS_EmptySet DEF SlotsHold
  <1>4. UniqueInv /\ CallerInv
    BY <1>1 DEF UniqueInv, CallerInv, NothingRunsAfterReturn
  <1>5. QED
    BY <1>1, <1>2, <1>3, <1>4 DEF FetchInv

LEMMA NextFetch == FetchInv /\ [Next]_vars => FetchInv'
  <1> SUFFICES ASSUME FetchInv, [Next]_vars PROVE FetchInv'
    OBVIOUS
  <1>1. CASE UNCHANGED vars
    <2>1. UNCHANGED <<inputs, urls, workers, caller, ctx>>
      BY <1>1 DEF vars
    <2>2. /\ UNCHANGED <<subs, upstream, unique, scan, wpc, sem, results, done, cpc, spawned, next, out,
                         collected, counted, verdict, cancelled, ended>>
          /\ N' = N /\ Workers' = Workers /\ Slots' = Slots /\ (Undecided)' = Undecided
      BY <2>1 DEF inputs, urls, workers, caller, ctx, N, Workers, Slots, Undecided
    <2>3. TypeOK' /\ UniqueInv' /\ SlotsHold'
      BY <2>2 DEF FetchInv, TypeOK, UniqueInv, SlotsHold
    <2>4. \A i \in Workers : WorkerInv(i)'
      BY <2>2 DEF FetchInv, WorkerInv, Settled
    <2>5. CallerInv'
      BY <2>2 DEF FetchInv, CallerInv, NothingYet, NothingRunsAfterReturn
    <2>6. QED
      BY <2>2, <2>3, <2>4, <2>5 DEF FetchInv
  <1>2. QED
    BY <1>1, DedupKeeps, PrepareKeeps, SpawnKeeps, CollectKeeps, EndKeeps, WorkerStepKeeps
       DEF Next, CallerStep, Over

-----------------------------------------------------------------------------
(* The theorems. *)

\* Every variable ranges over the values the code gives it.
THEOREM CallIsTyped == Spec => []TypeOK
  <1>1. FetchInv => TypeOK
    BY DEF FetchInv
  <1>2. QED
    BY <1>1, InitFetch, NextFetch, PTL DEF Spec

\* No more goroutines are between the two ends of the semaphore than Limit.
THEOREM UpstreamsAreSpared == Spec => []AtMostLimitInFlight
  <1>1. FetchInv => AtMostLimitInFlight
    <2> SUFFICES ASSUME FetchInv PROVE AtMostLimitInFlight
      OBVIOUS
    <2>1. Slots \in Nat /\ Slots <= Limit /\ Limit \in Nat /\ IsFiniteSet(sem)
      BY Basics, LimitIsPositive DEF FetchInv
    <2>2. Cardinality(sem) \in Nat
      BY <2>1, FS_CardinalityType
    <2>3. Cardinality(sem) <= Limit
      BY <2>1, <2>2 DEF FetchInv, SlotsHold
    <2>4. QED
      BY <2>3 DEF FetchInv, WorkerInv, AtMostLimitInFlight
  <1>2. QED
    BY <1>1, InitFetch, NextFetch, PTL DEF Spec

\* The call returns after the last of its goroutines.
THEOREM CallOutlivesGoroutines == Spec => []NothingRunsAfterReturn
  <1>1. FetchInv => NothingRunsAfterReturn
    BY DEF FetchInv, CallerInv
  <1>2. QED
    BY <1>1, InitFetch, NextFetch, PTL DEF Spec

\* A published result is not written again.
LEMMA PublishedStays == FetchInv /\ [Next]_vars => [\A i \in done : results'[i] = results[i]]_vars
  <1> SUFFICES ASSUME FetchInv, Next, NEW i \in done PROVE results'[i] = results[i]
    BY DEF vars
  <1>1. i \in Workers /\ wpc[i] \in {"wg_done", "gone"} /\ cpc # "dedup" /\ TypeOK
    BY DEF FetchInv, TypeOK, WorkerInv
  <1>2. ASSUME NEW j \in Workers, WorkerStep(j) PROVE results'[i] = results[i]
    <2>1. CASE j = i
      BY <1>1, <1>2, <2>1 DEF WorkerStep, Acquire, Fetch, Parse, Release, CloseDone, WgDone
    <2>2. CASE j # i
      BY <1>1, <1>2, <2>2, OthersStay
    <2>3. QED
      BY <2>1, <2>2
  <1>3. CASE CallerStep \/ RequestEnds \/ Over
    BY <1>1, <1>3 DEF CallerStep, Dedup, Prepare, Spawn, Collect, Finish, Abort, RequestEnds, Over, vars, workers
  <1>4. QED
    BY <1>2, <1>3 DEF Next

\* A goroutine and the caller never race for a result.
THEOREM ResultsAreHandedOver == Spec => ResultsPublishedOnce
  BY InitFetch, NextFetch, PublishedStays, PTL DEF Spec, ResultsPublishedOnce

-----------------------------------------------------------------------------
(* The call is a sequential loop. *)

Handled == {unique[i] : i \in 1..(next - 1)}

LEMMA InitIsLoopInit == Init => Loop!LoopInit
  <1> SUFFICES ASSUME Init PROVE Loop!LoopInit
    OBVIOUS
  <1>1. Handled = {}
    BY DEF Init, Handled
  <1>2. QED
    BY <1>1 DEF Init, Loop!LoopInit, Loop!Nothing, Undecided, Handled

\* Steps that the loop does not see.
LEMMA HiddenSteps ==
  ASSUME UNCHANGED <<inputs, unique, next, out, collected, verdict, ended>>
  PROVE  UNCHANGED Loop!loopVars
  BY DEF Loop!loopVars, inputs

LEMMA DedupIsHidden ==
  ASSUME FetchInv, Dedup
  PROVE  UNCHANGED Loop!loopVars
  <1>1. Handled = {} /\ Handled' = {}
    BY DEF Handled, FetchInv, CallerInv, NothingYet, Dedup, caller
  <1>2. QED
    BY <1>1 DEF Dedup, Loop!loopVars, Handled, inputs, caller, ctx

\* The result the caller is at is that of the loop's next URL.
LEMMA CallerIsAt ==
  ASSUME FetchInv, cpc = "collect", next \in 1..N
  PROVE  Loop!At(unique[next]) /\ unique[next] \in Loop!ToSet(subs)
  <1>1. /\ scan = Len(subs) + 1 /\ N \in Nat /\ Len(subs) \in Nat /\ unique \in Seq(URLs)
        /\ subs \in Seq(URLs) /\ verdict = Undecided
    BY Basics DEF FetchInv, UniqueInv, CallerInv
  <1>2. PICK i \in 1..(scan - 1) :
               /\ subs[i] = unique[next]
               /\ \A j \in 1..(i - 1) : Within(unique, next - 1, subs[j])
    BY DEF FetchInv, UniqueInv
  <1>3. i \in DOMAIN subs
    BY <1>1, <1>2
  <1>4. \A j \in 1..(i - 1) : subs[j] \in Handled
    BY <1>2 DEF Within, Handled
  <1>5. unique[next] \notin Handled
    BY <1>1 DEF Handled, FetchInv, UniqueInv
  <1>6. QED
    BY <1>1, <1>2, <1>3, <1>4, <1>5 DEF Loop!At, Loop!Nothing, Undecided, Handled, Loop!ToSet

LEMMA CollectIsLoopStep ==
  ASSUME FetchInv, Collect
  PROVE  Loop!LoopNext
  <1> DEFINE r == results[next]
  <1>0. PICK u : u = unique[next]
    OBVIOUS
  <1>1. /\ next \in 1..N /\ verdict = Undecided /\ ~cancelled /\ Settled(next) /\ cpc = "collect"
        /\ UNCHANGED <<subs, upstream, unique, ended>> /\ out \in Seq(URLs) /\ collected \in Seq(URLs)
        /\ u \in URLs /\ N \in Nat
    BY <1>0, PublishedIsSettled, Basics DEF Collect, FetchInv, TypeOK, inputs, urls
  <1>2. Loop!At(u) /\ u \in Loop!ToSet(subs)
    BY <1>0, <1>1, CallerIsAt
  <1>3. CASE r.err = "none"
    <2>1. /\ upstream[u] = "nodes" /\ r.snapshot /\ r.proxies = <<u>>
      BY <1>0, <1>1, <1>3 DEF Settled
    <2>2. /\ out' = Append(out, u) /\ collected' = Append(collected, u) /\ next' = next + 1
          /\ UNCHANGED verdict
      BY <1>0, <1>1, <1>3, <2>1 DEF Collect
    <2>3. Handled' = Handled \cup {u}
      BY <1>0, <1>1, <2>2 DEF Handled
    <2>4. Loop!TakeNodes(u)
      BY <1>1, <1>2, <2>1, <2>2, <2>3 DEF Loop!TakeNodes, Handled
    <2>5. QED
      BY <1>2, <2>4 DEF Loop!LoopNext
  <1>4. CASE r.err # "none"
    <2>1. /\ verdict' = Failure(r.err, <<u>>) /\ UNCHANGED <<next, out>>
      BY <1>0, <1>4 DEF Collect
    <2>2. Handled' = Handled
      BY <1>1, <2>1 DEF Handled
    <2>3. \/ r.err = "parse" /\ upstream[u] = "bad_text" /\ collected' = Append(collected, u)
          \/ r.err = "fetch" /\ upstream[u] = "unreachable" /\ collected' = collected
          \/ r.err = "ctx" /\ ended /\ collected' = collected
      BY <1>0, <1>1, <1>4 DEF Settled, Collect
    <2>4. \/ Loop!StopAtBadText(u) \/ Loop!StopAtBadFetch(u) \/ Loop!StopInterrupted(u)
      BY <1>1, <1>2, <2>1, <2>2, <2>3
         DEF Loop!StopAtBadText, Loop!StopAtBadFetch, Loop!StopInterrupted, Loop!Fails, Failure, Handled
    <2>5. QED
      BY <1>2, <2>4 DEF Loop!LoopNext
  <1>5. QED
    BY <1>3, <1>4

LEMMA FinishIsLoopStep ==
  ASSUME FetchInv, Finish
  PROVE  Loop!LoopNext
  <1>0. N \in Nat /\ Len(subs) \in Nat /\ subs \in Seq(URLs) /\ next \in 1..(N + 1)
    BY Basics DEF FetchInv, TypeOK
  <1>1. verdict = Undecided /\ next = N + 1 /\ scan = Len(subs) + 1
    BY <1>0 DEF Finish, FetchInv, CallerInv, UniqueInv
  <1>2. UNCHANGED <<subs, upstream, unique, next, out, collected, ended>> /\ verdict' = Success(out)
    BY DEF Finish, inputs, urls
  <1>3. Loop!ToSet(subs) \subseteq Handled
    <2> SUFFICES ASSUME NEW i \in DOMAIN subs PROVE subs[i] \in Handled
      BY DEF Loop!ToSet
    <2>1. Within(unique, N, subs[i])
      BY <1>0, <1>1 DEF FetchInv, UniqueInv
    <2>2. QED
      BY <1>0, <1>1, <2>1 DEF Within, Handled
  <1>4. Handled' = Handled
    BY <1>2 DEF Handled
  <1>5. Success(out) = Loop!Done(out) /\ Undecided = Loop!Nothing
    BY DEF Success, Failure, Loop!Done, Loop!Fails, Undecided, Loop!Nothing
  <1>6. Loop!FinishLoop
    BY <1>1, <1>2, <1>3, <1>4, <1>5 DEF Loop!FinishLoop, Handled
  <1>7. QED
    BY <1>6 DEF Loop!LoopNext

\* Every step of the call is a step of the loop or none.
LEMMA NextIsLoopStep == FetchInv /\ [Next]_vars => [Loop!LoopNext]_Loop!loopVars
  <1> SUFFICES ASSUME FetchInv, [Next]_vars PROVE Loop!LoopNext \/ UNCHANGED Loop!loopVars
    OBVIOUS
  <1>1. CASE \E i \in Workers : WorkerStep(i)
    BY <1>1, OthersStay, HiddenSteps DEF FetchInv, urls, caller, ctx
  <1>2. CASE Prepare \/ Spawn \/ Abort
    BY <1>2, HiddenSteps DEF Prepare, Spawn, Abort, urls, ctx
  <1>3. CASE RequestEnds
    <2>1. UNCHANGED <<subs, upstream, unique, next, out, collected, verdict>> /\ ended' = TRUE
      BY <1>3 DEF RequestEnds, inputs, urls, caller
    <2>2. QED
      BY <2>1 DEF Loop!LoopNext, Loop!EndRequest
  <1>4. CASE UNCHANGED vars
    BY <1>4, HiddenSteps DEF vars, urls, caller, ctx
  <1>5. QED
    BY <1>1, <1>2, <1>3, <1>4, DedupIsHidden, CollectIsLoopStep, FinishIsLoopStep
       DEF Next, CallerStep, Over

\* Concurrency shows neither in the nodes, nor in the error, nor in the
\* recorded snapshots.
THEOREM CallIsSequentialLoop == Spec => ImplementsSequentialLoop
  BY InitFetch, NextFetch, InitIsLoopInit, NextIsLoopStep, PTL
     DEF Spec, ImplementsSequentialLoop, Loop!LoopSpec
=============================================================================
