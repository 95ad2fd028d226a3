------------------------------ MODULE ErrorLog ------------------------------
(***************************************************************************)
(* The error-log store of internal/errlog/store.go: one Store shared by    *)
(* all request goroutines.                                                 *)
(*                                                                         *)
(*  - Writers run WriteFailure, one call per failed conversion;            *)
(*  - Exporters run ExportZIP, one call per GET /logs/errors.zip;          *)
(*  - Checkers run Health, one call per GET /healthz;                      *)
(*  - Main runs ValidateStartup before the server listens.                 *)
(*                                                                         *)
(* ioMu is a variable and every step between its Lock and Unlock is an     *)
(* action.  stateMu is held for single assignments or reads only (the op,  *)
(* reason and since fields are always set together and cleared together),  *)
(* so each of its critical sections is one atomic access of degradedOp.    *)
(* A stored record is one JSON line, written as two chunks: os.File.Write  *)
(* loops over write(2), so a line can end up half written.  Nothing ends   *)
(* such a line: the next record of the day is appended right behind it.    *)
(*                                                                         *)
(* The disk is the environment: while it is "faulty" any file operation    *)
(* may fail or succeed, while it is "ok" all of them succeed.              *)
(***************************************************************************)
EXTENDS Naturals, Sequences, FiniteSets

CONSTANTS
  Writers,     \* goroutines of failed conversions
  Exporters,   \* goroutines of GET /logs/errors.zip
  Checkers,    \* goroutines of GET /healthz
  Main,        \* the goroutine of main()
  Free,        \* ioMu is not held
  MaxRecords,  \* bound: how many failures are ever recorded
  MaxDay       \* bound: days (hence daily files) the model runs through

Threads == Writers \cup Exporters \cup Checkers
Procs == Threads \cup {Main}
Days == 1..MaxDay
Records == 1..MaxRecords

ASSUME RolesAreDisjoint ==
  /\ Writers \cap Exporters = {}
  /\ Writers \cap Checkers = {}
  /\ Exporters \cap Checkers = {}
  /\ Main \notin Threads
  /\ Free \notin Procs

ASSUME BoundsArePositive == MaxRecords \in Nat \ {0} /\ MaxDay \in Nat \ {0}

VARIABLES
  pc,          \* where each goroutine is in its call
  ok,          \* the call has collected no error so far
  ioMu,        \* holder of Store.ioMu, or Free
  degradedOp,  \* Store.degradedOp ("" iff degradedSince is the zero time)
  rec,         \* the record a WriteFailure call is storing
  nextRec,     \* number of the next failure
  today,       \* the day the clock shows
  created,     \* the days whose errors-YYYY-MM-DD.jsonl exists
  files,       \* the chunks of each daily file
  durable,     \* how many chunks of each file have reached the disk
  todo,        \* the files an ExportZIP call still has to copy
  zip,         \* the files an ExportZIP call has copied
  probeFile,   \* the hidden probe file of a running probe exists
  stray,       \* a probe file was left behind
  reply,       \* the last answer of each GET /healthz
  disk,        \* environment: "ok" or "faulty"
  acked,       \* history: the records whose WriteFailure returned nil
  writeDown    \* history: a WriteFailure failed, no write or probe succeeded since

calls == <<pc, ok, rec, todo, zip, reply>>
store == <<ioMu, degradedOp>>
onDisk == <<created, files, durable, probeFile, stray>>
env == <<nextRec, today, disk>>
history == <<acked, writeDown>>
vars == <<calls, store, onDisk, env, history>>

NoOp == ""
DirCheck == "dir_check"
WriteOp == "write_failure"
ExportOp == "export_failure"
DegradedOps == {NoOp, DirCheck, WriteOp, ExportOp}

\* The two halves of the line that stores record r.
FirstHalf(r) == <<r, "head">>
SecondHalf(r) == <<r, "tail">>
Chunks == Records \X {"head", "tail"}

RecordInfo == [id : Records, day : Days]
NoRecord == [id |-> 1, day |-> 1]

WritePcs == {"w_open", "w_head", "w_tail", "w_sync", "w_close", "w_settle"}
ExportPcs == {"x_list", "x_copy", "x_settle"}
ProbePcs == {"p_open", "p_write", "p_remove", "p_unlock"}
CriticalPcs == WritePcs \cup ExportPcs \cup ProbePcs
LockPcs == {"w_lock", "x_lock", "p_lock"}
HealthPcs == {"h_dir", "h_markdir", "h_has", "h_markwrite", "h_clear", "h_reply"}
MainPcs == {"down", "s_dir", "s_clear", "serving"}
Pcs == {"idle"} \cup CriticalPcs \cup LockPcs \cup HealthPcs \cup MainPcs

\* What a Health call answers: 200, or 503 with the reason of an operation;
\* "no_reason" is a 503 whose Reason is the empty string.
Replies == {"none", "healthy", "no_reason", DirCheck, WriteOp, ExportOp}

EmptyZip == [d \in {} |-> <<>>]

-----------------------------------------------------------------------------
Init ==
  /\ pc = [p \in Procs |-> IF p = Main THEN "down" ELSE "idle"]
  /\ ok = [p \in Procs |-> TRUE]
  /\ ioMu = Free
  /\ degradedOp = NoOp
  /\ rec = [t \in Writers |-> NoRecord]
  /\ nextRec = 1
  /\ today = 1
  /\ created = {}
  /\ files = [d \in Days |-> <<>>]
  /\ durable = [d \in Days |-> 0]
  /\ todo = [x \in Exporters |-> {}]
  /\ zip = [x \in Exporters |-> EmptyZip]
  /\ probeFile = FALSE
  /\ stray = FALSE
  /\ reply = [c \in Checkers |-> "none"]
  /\ disk = "ok"
  /\ acked = {}
  /\ writeDown = FALSE

Goto(p, label) == pc' = [pc EXCEPT ![p] = label]
MayFail == disk = "faulty"
Serving == pc[Main] = "serving"

\* The file operation at pc[p] succeeds (Keep) or fails and is remembered.
Keep(p) == UNCHANGED ok
Fail_Dropped(p) == MayFail /\ UNCHANGED ok
Fail(p) == MayFail /\ ok' = [ok EXCEPT ![p] = FALSE]

\* markDegraded, clearDegradedIf and clearDegraded.
markDegraded_ByReason(op) == degradedOp' = "no_reason"
markDegraded(op) == degradedOp' = op
clearDegradedIf_Any(op) == degradedOp' = NoOp
clearDegradedIf(op) == degradedOp' = IF degradedOp = op THEN NoOp ELSE degradedOp
clearDegraded_WritesOnly == degradedOp' = IF degradedOp = WriteOp THEN NoOp ELSE degradedOp
clearDegraded == degradedOp' = NoOp

\* The deferred ioMu.Unlock together with the return of the call.
UnlockTo_Forgotten(p, label) ==
  /\ UNCHANGED ioMu
  /\ pc' = [pc EXCEPT ![p] = label]
  /\ ok' = [ok EXCEPT ![p] = TRUE]
UnlockTo(p, label) ==
  /\ ioMu' = Free
  /\ pc' = [pc EXCEPT ![p] = label]
  /\ ok' = [ok EXCEPT ![p] = TRUE]

LockIO(p) ==
  /\ ioMu = Free
  /\ \/ pc[p] = "w_lock" /\ Goto(p, "w_open")
     \/ pc[p] = "x_lock" /\ Goto(p, "x_list")
     \/ pc[p] = "p_lock" /\ Goto(p, "p_open")
  /\ ioMu' = p
  /\ UNCHANGED <<ok, degradedOp, rec, todo, zip, reply, onDisk, env, history>>

-----------------------------------------------------------------------------
(* WriteFailure.  The record carries the time of the failure, taken before *)
(* ioMu is requested; Write, Sync and Close all run whatever fails before. *)

BeginWriteFailure_Unlocked(w) ==
  /\ Serving /\ pc[w] = "idle" /\ nextRec <= MaxRecords
  /\ rec' = [rec EXCEPT ![w] = [id |-> nextRec, day |-> today]]
  /\ nextRec' = nextRec + 1
  /\ Goto(w, "w_open")
  /\ UNCHANGED <<ok, todo, zip, reply, store, onDisk, today, disk, history>>
BeginWriteFailure(w) ==
  /\ Serving /\ pc[w] = "idle" /\ nextRec <= MaxRecords
  /\ rec' = [rec EXCEPT ![w] = [id |-> nextRec, day |-> today]]
  /\ nextRec' = nextRec + 1
  /\ Goto(w, "w_lock")
  /\ UNCHANGED <<ok, todo, zip, reply, store, onDisk, today, disk, history>>

WriteOpen(w) ==
  /\ pc[w] = "w_open"
  /\ \/ /\ Keep(w)
        /\ created' = created \cup {rec[w].day}
        /\ Goto(w, "w_head")
     \/ /\ Fail(w)
        /\ UNCHANGED created
        /\ Goto(w, "w_settle")
  /\ UNCHANGED <<rec, todo, zip, reply, store, files, durable, probeFile, stray,
                 env, history>>

AppendChunk_Truncates(w, chunk) ==
  files' = [files EXCEPT ![rec[w].day] = <<chunk>>]
AppendChunk(w, chunk) ==
  files' = [files EXCEPT ![rec[w].day] = Append(@, chunk)]

WriteHead(w) ==
  /\ pc[w] = "w_head"
  /\ \/ Keep(w) /\ AppendChunk(w, FirstHalf(rec[w].id)) /\ Goto(w, "w_tail")
     \/ Fail(w) /\ UNCHANGED files /\ Goto(w, "w_sync")
  /\ UNCHANGED <<rec, todo, zip, reply, store, created, durable, probeFile,
                 stray, env, history>>

WriteTail(w) ==
  /\ pc[w] = "w_tail"
  /\ \/ Keep(w) /\ AppendChunk(w, SecondHalf(rec[w].id))
     \/ Fail(w) /\ UNCHANGED files
  /\ Goto(w, "w_sync")
  /\ UNCHANGED <<rec, todo, zip, reply, store, created, durable, probeFile,
                 stray, env, history>>

WriteSync(w) ==
  /\ pc[w] = "w_sync"
  /\ \/ /\ Keep(w)
        /\ durable' = [durable EXCEPT ![rec[w].day] = Len(files[rec[w].day])]
     \/ Fail(w) /\ UNCHANGED durable
  /\ Goto(w, "w_close")
  /\ UNCHANGED <<rec, todo, zip, reply, store, created, files, probeFile, stray,
                 env, history>>

WriteClose(w) ==
  /\ pc[w] = "w_close"
  /\ Keep(w) \/ Fail(w)
  /\ Goto(w, "w_settle")
  /\ UNCHANGED <<rec, todo, zip, reply, store, onDisk, env, history>>

WriteSettle_AlwaysAcks(w) ==
  /\ pc[w] = "w_settle"
  /\ IF ok[w] THEN clearDegradedIf(WriteOp) ELSE markDegraded(WriteOp)
  /\ acked' = acked \cup {rec[w].id}
  /\ writeDown' = ~ok[w]
  /\ UnlockTo(w, "idle")
  /\ UNCHANGED <<rec, todo, zip, reply, onDisk, env>>

WriteSettle(w) ==
  /\ pc[w] = "w_settle"
  /\ IF ok[w]
     THEN /\ clearDegradedIf(WriteOp)
          /\ acked' = acked \cup {rec[w].id}
     ELSE /\ markDegraded(WriteOp)
          /\ UNCHANGED acked
  /\ writeDown' = ~ok[w]
  /\ UnlockTo(w, "idle")
  /\ UNCHANGED <<rec, todo, zip, reply, onDisk, env>>

-----------------------------------------------------------------------------
(* ExportZIP.  The archive is built in memory under ioMu: the names are    *)
(* listed once, then the files are copied in name order.                   *)

BeginExportZIP_Unlocked(x) ==
  /\ Serving /\ pc[x] = "idle"
  /\ Goto(x, "x_list")
  /\ UNCHANGED <<ok, rec, todo, zip, reply, store, onDisk, env, history>>
BeginExportZIP(x) ==
  /\ Serving /\ pc[x] = "idle"
  /\ Goto(x, "x_lock")
  /\ UNCHANGED <<ok, rec, todo, zip, reply, store, onDisk, env, history>>

ExportList(x) ==
  /\ pc[x] = "x_list"
  /\ \/ \* ErrNoLogFiles
        /\ created = {}
        /\ UnlockTo(x, "idle")
        /\ UNCHANGED todo
     \/ /\ created # {}
        /\ todo' = [todo EXCEPT ![x] = created]
        /\ Keep(x) /\ Goto(x, "x_copy")
        /\ UNCHANGED ioMu
     \/ /\ Fail(x) /\ Goto(x, "x_settle")
        /\ UNCHANGED <<todo, ioMu>>
  /\ UNCHANGED <<degradedOp, rec, zip, reply, onDisk, env, history>>

\* The first name of the sorted list that is left, that is the earliest day.
IsEarliest(d, S) == \A e \in S : d <= e

\* Opening and reading a daily file may fail.  The errors of the zip writer
\* itself, which return without markDegraded, cannot occur: the only caller
\* hands ExportZIP a bytes.Buffer.
ExportCopy(x) ==
  /\ pc[x] = "x_copy"
  /\ \/ \E d \in todo[x] :
        /\ IsEarliest(d, todo[x])
        /\ Keep(x)
        /\ zip' = [zip EXCEPT ![x] =
                     [e \in DOMAIN @ \cup {d} |-> IF e = d THEN files[d] ELSE @[e]]]
        /\ todo' = [todo EXCEPT ![x] = @ \ {d}]
        /\ Goto(x, IF todo[x] = {d} THEN "x_settle" ELSE "x_copy")
     \/ /\ Fail(x) /\ Goto(x, "x_settle")
        /\ UNCHANGED <<todo, zip>>
  /\ UNCHANGED <<rec, reply, store, onDisk, env, history>>

ExportSettle(x) ==
  /\ pc[x] = "x_settle"
  /\ IF ok[x] THEN clearDegradedIf(ExportOp) ELSE markDegraded(ExportOp)
  /\ UnlockTo(x, "idle")
  /\ todo' = [todo EXCEPT ![x] = {}]
  /\ zip' = [zip EXCEPT ![x] = EmptyZip]
  /\ UNCHANGED <<rec, reply, onDisk, env, history>>

-----------------------------------------------------------------------------
(* runProbe, called by Health and by ValidateStartup: a hidden file is     *)
(* created exclusively, written, synced, closed and always removed.        *)

ProbeOpen(p) ==
  /\ pc[p] = "p_open"
  /\ \/ Keep(p) /\ probeFile' = TRUE /\ Goto(p, "p_write")
     \/ Fail(p) /\ UNCHANGED probeFile /\ Goto(p, "p_unlock")
  /\ UNCHANGED <<rec, todo, zip, reply, store, created, files, durable, stray,
                 env, history>>

ProbeWrite_NoCleanup(p) ==
  /\ pc[p] = "p_write"
  /\ \/ Keep(p) /\ Goto(p, "p_remove")
     \/ Fail(p) /\ Goto(p, "p_unlock")
  /\ UNCHANGED <<rec, todo, zip, reply, store, onDisk, env, history>>

ProbeWrite(p) ==
  /\ pc[p] = "p_write"
  /\ Keep(p) \/ Fail(p)
  /\ Goto(p, "p_remove")
  /\ UNCHANGED <<rec, todo, zip, reply, store, onDisk, env, history>>

ProbeRemove(p) ==
  /\ pc[p] = "p_remove"
  /\ \/ Keep(p) /\ UNCHANGED stray
     \/ Fail(p) /\ stray' = TRUE
  /\ probeFile' = FALSE
  /\ Goto(p, "p_unlock")
  /\ UNCHANGED <<rec, todo, zip, reply, store, created, files, durable, env,
                 history>>

\* Where the caller of runProbe goes on: Health marks or clears, and
\* initErrorLogStore lets the process exit when ValidateStartup fails.
AfterProbe(p) ==
  CASE ok[p] /\ p = Main -> "s_clear"
    [] ok[p] /\ p # Main -> "h_clear"
    [] ~ok[p] /\ p = Main -> "down"
    [] ~ok[p] /\ p # Main -> "h_markwrite"

ProbeUnlock(p) ==
  /\ pc[p] = "p_unlock"
  /\ UnlockTo(p, AfterProbe(p))
  /\ writeDown' = (writeDown /\ ~ok[p])
  /\ UNCHANGED <<rec, todo, zip, reply, degradedOp, onDisk, env, acked>>

-----------------------------------------------------------------------------
(* Health.  Only runProbe takes ioMu; every other step may run while a     *)
(* writer or an exporter holds it.                                         *)

BeginHealth(c) ==
  /\ Serving /\ pc[c] = "idle"
  /\ reply' = [reply EXCEPT ![c] = "none"]
  /\ Goto(c, "h_dir")
  /\ UNCHANGED <<ok, rec, todo, zip, store, onDisk, env, history>>

\* validateDirStructure: Stat, IsDir and ReadDir.
HealthDirCheck(c) ==
  /\ pc[c] = "h_dir"
  /\ \/ Goto(c, "h_has")
     \/ MayFail /\ Goto(c, "h_markdir")
  /\ UNCHANGED <<ok, rec, todo, zip, reply, store, onDisk, env, history>>

HealthMarkDir(c) ==
  /\ pc[c] = "h_markdir"
  /\ markDegraded(DirCheck)
  /\ Goto(c, "h_reply")
  /\ UNCHANGED <<ok, ioMu, rec, todo, zip, reply, onDisk, env, history>>

HealthHasDegraded(c) ==
  /\ pc[c] = "h_has"
  /\ IF degradedOp = NoOp
     THEN Goto(c, "idle") /\ reply' = [reply EXCEPT ![c] = "healthy"]
     ELSE Goto(c, "p_lock") /\ UNCHANGED reply
  /\ UNCHANGED <<ok, rec, todo, zip, store, onDisk, env, history>>

HealthMarkWrite(c) ==
  /\ pc[c] = "h_markwrite"
  /\ markDegraded(WriteOp)
  /\ Goto(c, "h_reply")
  /\ UNCHANGED <<ok, ioMu, rec, todo, zip, reply, onDisk, env, history>>

\* unhealthyStatus reads the reason in a critical section of its own.
HealthReplyUnhealthy(c) ==
  /\ pc[c] = "h_reply"
  /\ reply' = [reply EXCEPT ![c] =
                 IF degradedOp = NoOp THEN "no_reason" ELSE degradedOp]
  /\ Goto(c, "idle")
  /\ UNCHANGED <<ok, rec, todo, zip, store, onDisk, env, history>>

HealthClear(c) ==
  /\ pc[c] = "h_clear"
  /\ clearDegraded
  /\ reply' = [reply EXCEPT ![c] = "healthy"]
  /\ Goto(c, "idle")
  /\ UNCHANGED <<ok, ioMu, rec, todo, zip, onDisk, env, history>>

-----------------------------------------------------------------------------
(* The life of the process: NewStore and ValidateStartup before serving,   *)
(* and an end that may come between any two steps (a kill, a power loss,   *)
(* or main returning after a forced Close).                                *)

StartProcess ==
  /\ pc[Main] = "down"
  /\ Goto(Main, "s_dir")
  /\ UNCHANGED <<ok, rec, todo, zip, reply, store, onDisk, env, history>>

\* NewStore's MkdirAll and Stat, then validateDirStructure.
StartupDirCheck ==
  /\ pc[Main] = "s_dir"
  /\ \/ Goto(Main, "p_lock")
     \/ MayFail /\ Goto(Main, "down")
  /\ UNCHANGED <<ok, rec, todo, zip, reply, store, onDisk, env, history>>

StartupClear ==
  /\ pc[Main] = "s_clear"
  /\ clearDegraded
  /\ Goto(Main, "serving")
  /\ UNCHANGED <<ok, ioMu, rec, todo, zip, reply, onDisk, env, history>>

\* The lengths between what is synced and what is written, of any file.
Lengths == {m \in 0..2 * MaxRecords : \E d \in Days : durable[d] <= m /\ m <= Len(files[d])}

\* Memory is lost; of every file, what was not synced may be lost too, and
\* so may a file that never had anything synced.
Crash ==
  /\ pc[Main] # "down"
  /\ pc' = [p \in Procs |-> IF p = Main THEN "down" ELSE "idle"]
  /\ ok' = [p \in Procs |-> TRUE]
  /\ ioMu' = Free
  /\ degradedOp' = NoOp
  /\ todo' = [x \in Exporters |-> {}]
  /\ zip' = [x \in Exporters |-> EmptyZip]
  /\ reply' = [c \in Checkers |-> "none"]
  /\ \E keep \in [Days -> Lengths] :
       /\ \A d \in Days : durable[d] <= keep[d] /\ keep[d] <= Len(files[d])
       /\ files' = [d \in Days |-> SubSeq(files[d], 1, keep[d])]
       /\ durable' = keep
       /\ \E lost \in SUBSET {d \in created : keep[d] = 0} : created' = created \ lost
  /\ probeFile' = FALSE
  /\ stray' = (stray \/ probeFile)
  /\ writeDown' = FALSE
  /\ UNCHANGED <<rec, env, acked>>

DayPasses ==
  /\ today < MaxDay
  /\ today' = today + 1
  /\ UNCHANGED <<calls, store, onDisk, nextRec, disk, history>>

DiskFails ==
  /\ disk = "ok" /\ disk' = "faulty"
  /\ UNCHANGED <<calls, store, onDisk, nextRec, today, history>>

DiskHeals ==
  /\ disk = "faulty" /\ disk' = "ok"
  /\ UNCHANGED <<calls, store, onDisk, nextRec, today, history>>

-----------------------------------------------------------------------------
WriteStep(w) ==
  \/ WriteOpen(w) \/ WriteHead(w) \/ WriteTail(w)
  \/ WriteSync(w) \/ WriteClose(w) \/ WriteSettle(w)

ExportStep(x) == ExportList(x) \/ ExportCopy(x) \/ ExportSettle(x)

ProbeStep(p) == ProbeOpen(p) \/ ProbeWrite(p) \/ ProbeRemove(p) \/ ProbeUnlock(p)

HealthStep(c) ==
  \/ HealthDirCheck(c) \/ HealthMarkDir(c) \/ HealthHasDegraded(c)
  \/ HealthMarkWrite(c) \/ HealthReplyUnhealthy(c) \/ HealthClear(c)

StartupStep == StartProcess \/ StartupDirCheck \/ StartupClear

Next ==
  \/ \E p \in Procs : LockIO(p)
  \/ \E w \in Writers : BeginWriteFailure(w) \/ WriteStep(w)
  \/ \E x \in Exporters : BeginExportZIP(x) \/ ExportStep(x)
  \/ \E p \in Checkers \cup {Main} : ProbeStep(p)
  \/ \E c \in Checkers : BeginHealth(c) \/ HealthStep(c)
  \/ StartupStep
  \/ Crash
  \/ DayPasses
  \/ DiskFails
  \/ DiskHeals

Spec == Init /\ [][Next]_vars

(* A goroutine that can run does run; sync.Mutex hands the lock to a       *)
(* waiter that has starved (strong fairness of LockIO); health checks keep *)
(* being asked (the container's HEALTHCHECK); main starts what is down.    *)
Fairness ==
  /\ \A p \in Procs : SF_vars(LockIO(p))
  /\ \A w \in Writers : WF_vars(WriteStep(w))
  /\ \A x \in Exporters : WF_vars(ExportStep(x))
  /\ \A p \in Checkers \cup {Main} : WF_vars(ProbeStep(p))
  /\ \A c \in Checkers : WF_vars(BeginHealth(c)) /\ WF_vars(HealthStep(c))
  /\ WF_vars(StartupStep)

FairSpec == Spec /\ Fairness
=============================================================================
