--------------------------- MODULE ErrorLogProps ---------------------------
(***************************************************************************)
(* What the error-log store promises: its callers (the error path of every *)
(* conversion, the log download, the health check) and docs/spec/          *)
(* SPEC_HTTP_API.md section 7.                                             *)
(***************************************************************************)
EXTENDS ErrorLog

\* The archives an export can have built: some of the daily files.
IsZip(z) == DOMAIN z \subseteq Days /\ z \in [DOMAIN z -> Seq(Chunks)]
ZipsOK == zip = [x \in Exporters |-> zip[x]] /\ \A x \in Exporters : IsZip(zip[x])

\* Every variable ranges over the values the code gives it.
TypeOK ==
  /\ pc \in [Procs -> Pcs]
  /\ ok \in [Procs -> BOOLEAN]
  /\ ioMu \in Procs \cup {Free}
  /\ degradedOp \in DegradedOps
  /\ rec \in [Writers -> RecordInfo]
  /\ nextRec \in 1..(MaxRecords + 1)
  /\ today \in Days
  /\ created \subseteq Days
  /\ files \in [Days -> Seq(Chunks)]
  /\ durable \in [Days -> Nat]
  /\ todo \in [Exporters -> SUBSET Days]
  /\ ZipsOK
  /\ probeFile \in BOOLEAN
  /\ stray \in BOOLEAN
  /\ reply \in [Checkers -> Replies]
  /\ disk \in {"ok", "faulty"}
  /\ acked \subseteq Records
  /\ writeDown \in BOOLEAN

\* ioMu protects what it is meant to: a goroutine is between Lock and Unlock
\* exactly when it is the holder, so no two of WriteFailure, ExportZIP and
\* runProbe ever touch the log directory's files at the same time.
IoMuExclusion == \A p \in Procs : pc[p] \in CriticalPcs <=> ioMu = p

\* The two halves of record r are next to each other: its JSON text is there.
TextAt(r, d, i) ==
  /\ i < Len(files[d])
  /\ files[d][i] = FirstHalf(r)
  /\ files[d][i + 1] = SecondHalf(r)

\* Chunk i of a file begins a line: every second half ends one, nothing else does.
StartsLine(d, i) == i = 1 \/ files[d][i - 1][2] = "tail"

\* A record whose WriteFailure returned nil is in full in the log of some day
\* and has reached the disk: no concurrent write splits it, no export or probe
\* disturbs it, and no crash takes it away.  Its line is its own, except behind
\* a record that was cut short and that nobody was told is stored: a torn write
\* can spoil the line of the next record, and never runs two acknowledged ones
\* together.
AckedAreDurable ==
  \A r \in acked : \E d \in Days : \E i \in 1..Len(files[d]) :
    /\ TextAt(r, d, i)
    /\ i < durable[d]
    /\ \/ StartsLine(d, i)
       \/ \E q \in Records \ acked : files[d][i - 1] = FirstHalf(q)

\* An archive that is complete is one consistent picture of the log
\* directory: every file there is, each with its content, all at the moment
\* the export ends, although the files are copied one after another.
ExportIsSnapshot ==
  \A x \in Exporters :
    pc[x] = "x_settle" /\ ok[x] =>
      /\ DOMAIN zip[x] = created
      /\ \A d \in created : zip[x][d] = files[d]

\* A probe leaves no probe file behind when it is over, unless the removal
\* itself failed or the process died: runProbe removes it even when writing,
\* syncing or closing it failed.
ProbeFileIsTransient ==
  probeFile => \E p \in Procs : ioMu = p /\ pc[p] \in {"p_write", "p_remove"}

\* A degradation ends only with proof of recovery: by a record written
\* successfully when writing had failed, by an archive built successfully
\* when exporting had failed, by a successful probe in every case, or with
\* the process.
Recovery(p) ==
  \/ pc[p] = "w_settle" /\ ok[p] /\ degradedOp = WriteOp
  \/ pc[p] = "x_settle" /\ ok[p] /\ degradedOp = ExportOp
  \/ pc[p] \in {"h_clear", "s_clear"}

DegradationEndsByRecovery ==
  [][degradedOp # NoOp /\ degradedOp' = NoOp =>
       \/ pc'[Main] = "down"
       \/ \E p \in Procs : Recovery(p) /\ pc'[p] # pc[p]]_vars

\* Records are only ever added to a log: while the process lives no file
\* shrinks, and what is synced survives even the end of the process.
LogsOnlyGrow ==
  [][\A d \in Days :
       /\ pc'[Main] # "down" => Len(files[d]) <= Len(files'[d])
       /\ durable[d] <= Len(files'[d])
       /\ \A i \in 1..durable[d] : files'[d][i] = files[d][i]]_vars

\* README "当日志目录恢复可读写后，/healthz 会自动恢复为 200": once the disk works
\* again and the process stays up, a polled health check ends the degradation.
HealthRecovers ==
  <>[](disk = "ok" /\ Serving) => <>[](degradedOp = NoOp)

\* Every call of the store returns (or the process ends): no step of a call
\* waits for something that never comes.
EveryCallReturns == \A t \in Threads : pc[t] # "idle" ~> pc[t] = "idle"

-----------------------------------------------------------------------------
(* The inductive invariant behind the safety properties.                   *)

\* How far an export has come: what it copied is current, because nobody can
\* write while it holds ioMu, and what is left to copy is the rest.
ExportProgress ==
  \A x \in Exporters :
    /\ pc[x] = "x_copy" =>
         /\ todo[x] # {} /\ todo[x] \subseteq created
         /\ DOMAIN zip[x] = created \ todo[x]
         /\ \A d \in DOMAIN zip[x] : zip[x][d] = files[d]
    /\ pc[x] \notin {"x_copy", "x_settle"} => zip[x] = EmptyZip

\* How far a write has come: with no error so far, the end of the daily file
\* is the line of its own record, and after Sync all of the file is durable.
LastIs(d, chunks) ==
  /\ Len(chunks) <= Len(files[d])
  /\ \A i \in 1..Len(chunks) : files[d][Len(files[d]) - Len(chunks) + i] = chunks[i]

WriteProgress ==
  \A w \in Writers :
    LET r == rec[w].id
        d == rec[w].day IN
    /\ pc[w] = "w_tail" => LastIs(d, <<FirstHalf(r)>>)
    /\ pc[w] \in {"w_sync", "w_close", "w_settle"} /\ ok[w] =>
         LastIs(d, <<FirstHalf(r), SecondHalf(r)>>)
    /\ pc[w] \in {"w_close", "w_settle"} /\ ok[w] => durable[d] = Len(files[d])

DurableIsPrefix == \A d \in Days : durable[d] <= Len(files[d])

\* Where a writer has a record of which nothing is written yet, and where it is
\* not written in full.
BeforeHead == {"w_lock", "w_open", "w_head"}
Pending == BeforeHead \cup {"w_tail"}

HasChunk(chunk) == \E d \in Days : \E i \in 1..Len(files[d]) : files[d][i] = chunk

\* Records are written once: no chunk is in the files twice, a second half
\* follows its first half, what is there belongs to failures that have happened,
\* what a writer still has to write is not there, and no two writers have the
\* same record.
ChunksDiffer ==
  \A d, e \in Days : \A i \in 1..Len(files[d]), j \in 1..Len(files[e]) :
    files[d][i] = files[e][j] => d = e /\ i = j

TailsFollowHeads ==
  \A d \in Days : \A i \in 1..Len(files[d]) :
    files[d][i][2] = "tail" => 1 < i /\ files[d][i - 1] = FirstHalf(files[d][i][1])

ChunksAreOld == \A d \in Days : \A i \in 1..Len(files[d]) : files[d][i][1] < nextRec

PendingIsNew ==
  \A w \in Writers :
    /\ pc[w] \in Pending => rec[w].id < nextRec /\ ~HasChunk(SecondHalf(rec[w].id))
    /\ pc[w] \in BeforeHead => ~HasChunk(FirstHalf(rec[w].id))

PendingDiffer ==
  \A v, w \in Writers :
    pc[v] \in Pending /\ pc[w] \in Pending /\ v # w => rec[v].id # rec[w].id

WrittenOnce ==
  ChunksDiffer /\ TailsFollowHeads /\ ChunksAreOld /\ PendingIsNew /\ PendingDiffer

\* The conjunction that every step preserves.
StoreInv ==
  /\ TypeOK
  /\ IoMuExclusion
  /\ ProbeFileIsTransient
  /\ ExportProgress
  /\ ExportIsSnapshot
  /\ WriteProgress
  /\ DurableIsPrefix
  /\ WrittenOnce
  /\ AckedAreDurable

-----------------------------------------------------------------------------
(* Two statements of the repository that the code does not keep.           *)

\* SPEC_HTTP_API section 7: after a failed snapshot write the subsystem is
\* degraded, so that the next GET /healthz answers 503 (until a write or a
\* probe that succeeds later shows that writing works again).
FailedWriteIsReported == Serving /\ writeDown => degradedOp # NoOp

\* store_test.go: a line of the log is the JSON text of a record, so a record
\* whose WriteFailure returned nil is a line of its own.
AckedAreLines ==
  \A r \in acked : \E d \in Days : \E i \in 1..Len(files[d]) :
    TextAt(r, d, i) /\ StartsLine(d, i)
=============================================================================
