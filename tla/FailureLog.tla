---------------------------- MODULE FailureLog ----------------------------
(***************************************************************************)
(* What the error-log store looks like from outside: a log of one record   *)
(* per line, acknowledgements that are never taken back, and one reported  *)
(* degradation.  internal/errlog/store.go (module ErrorLog) implements it  *)
(* with daily files, a mutex and a probe.                                  *)
(*                                                                         *)
(* A write that fails half-way leaves a torn record at the end of the log, *)
(* and nobody ends its line: the next record is glued to it.  It is there  *)
(* in full and is acknowledged, but who reads the log line by line cannot  *)
(* parse it.                                                               *)
(***************************************************************************)
CONSTANTS
  Record,      \* the failures that can be recorded
  None,        \* no degradation
  WriteFailed, \* the degradation by a failed write or probe
  Reasons      \* every degradation, WriteFailed among them

VARIABLES
  stored,      \* records that are a line of their own
  torn,        \* records of which only the first part got into the log
  glued,       \* <<t, r>>: r is there in full, on the line that t left open
  acked,       \* records reported as stored
  degraded     \* None or the operation that failed last

logVars == <<stored, torn, glued, acked, degraded>>

\* The records whose text is in the log in full.
Written == stored \cup {g[2] : g \in glued}

LogInit ==
  /\ stored = {}
  /\ torn = {}
  /\ glued = {}
  /\ acked = {}
  /\ degraded = None

\* A record gets into the log, before anybody is told so ...
Append(r) ==
  /\ r \notin Written \cup torn
  /\ stored' = stored \cup {r}
  /\ UNCHANGED <<torn, glued, acked, degraded>>

\* ... behind a torn record, of which each spoils one line at most ...
AppendBehind(t, r) ==
  /\ r \notin Written \cup torn
  /\ t \in torn /\ \A g \in glued : g[1] # t
  /\ glued' = glued \cup {<<t, r>>}
  /\ UNCHANGED <<stored, torn, acked, degraded>>

\* ... or in part.
Tear(r) ==
  /\ r \notin Written
  /\ torn' = torn \cup {r}
  /\ UNCHANGED <<stored, glued, acked, degraded>>

\* WriteFailure returns nil.
Acknowledge(r) ==
  /\ r \in Written
  /\ acked' = acked \cup {r}
  /\ degraded' \in {degraded, None}
  /\ degraded' # degraded => degraded = WriteFailed
  /\ UNCHANGED <<stored, torn, glued>>

\* Some operation fails and says so.
Degrade(op) ==
  /\ degraded' = op
  /\ UNCHANGED <<stored, torn, glued, acked>>

\* Some operation succeeds, or a probe does.
Recover ==
  /\ degraded' = None
  /\ UNCHANGED <<stored, torn, glued, acked>>

\* The process ends: only what was not acknowledged may be gone, and of it or
\* of what was being written a part may be left.
Lose(inFlight) ==
  /\ \E lost \in SUBSET (Written \ acked) :
       \E half \in SUBSET (torn \cup lost \cup inFlight) :
         /\ half \cap (Written \ lost) = {}
         /\ \A g \in glued : g[2] \in lost \/ g[1] \in half
         /\ stored' = stored \ lost
         /\ glued' = {g \in glued : g[2] \notin lost}
         /\ torn' = half
  /\ degraded' = None
  /\ UNCHANGED acked

LogNext ==
  \/ Recover
  \/ \E op \in Reasons : Degrade(op)
  \/ \E r \in Record : Append(r) \/ Tear(r) \/ Acknowledge(r)
  \/ \E t, r \in Record : AppendBehind(t, r)
  \/ \E inFlight \in SUBSET Record : Lose(inFlight)

LogSpec == LogInit /\ [][LogNext]_logVars
=============================================================================
