-------------------------- MODULE ErrorLogProofs --------------------------
(***************************************************************************)
(* Theorems about the error-log store, for any number of goroutines,       *)
(* records and days.                                                       *)
(***************************************************************************)
EXTENDS ErrorLogProps, TLAPS

-----------------------------------------------------------------------------
(* Type correctness. *)

\* The labels of each operation are labels of the program counter.
LEMMA LabelsArePcs ==
  /\ \A label \in {"w_open", "w_head", "w_tail", "w_sync", "w_close", "w_settle"} : label \in Pcs
  /\ \A label \in {"x_list", "x_copy", "x_settle"} : label \in Pcs
  /\ \A label \in {"p_open", "p_write", "p_remove", "p_unlock"} : label \in Pcs
  /\ \A label \in {"w_lock", "x_lock", "p_lock", "idle"} : label \in Pcs
  /\ \A label \in {"h_dir", "h_markdir", "h_has"} : label \in Pcs
  /\ \A label \in {"h_markwrite", "h_clear", "h_reply"} : label \in Pcs
  /\ \A label \in {"down", "s_dir", "s_clear", "serving"} : label \in Pcs
  BY DEF Pcs, MainPcs, CriticalPcs, HealthPcs, LockPcs, WritePcs, ExportPcs, ProbePcs

\* The archive an export starts from is an archive.
LEMMA EmptyZipIsZip == IsZip(EmptyZip)
  BY DEF EmptyZip, IsZip

\* The program starts in a state of the right types, with no file and no call.
LEMMA InitTypeOK == Init => TypeOK
  <1> SUFFICES ASSUME Init PROVE TypeOK
    OBVIOUS
  <1>1. pc \in [Procs -> Pcs] /\ ok \in [Procs -> BOOLEAN]
    BY LabelsArePcs DEF Init
  <1>2. ZipsOK
    BY EmptyZipIsZip DEF Init, ZipsOK
  <1>3. files \in [Days -> Seq(Chunks)] /\ durable \in [Days -> Nat]
    BY DEF Init
  <1>4. rec \in [Writers -> RecordInfo] /\ nextRec \in 1..(MaxRecords + 1) /\ today \in Days
    BY BoundsArePositive DEF Init, NoRecord, RecordInfo, Records, Days
  <1>5. QED
    BY <1>1, <1>2, <1>3, <1>4 DEF Init, TypeOK, DegradedOps, Replies

\* Every role is played by goroutines of the process.
LEMMA RolesAreProcs ==
  /\ Writers \subseteq Procs /\ Exporters \subseteq Procs
  /\ Checkers \subseteq Procs /\ Main \in Procs
  BY DEF Procs, Threads

\* The effects the actions share: a move, a file operation, the end of a call.
LEMMA GotoTypes ==
  ASSUME TypeOK, NEW p \in Procs, NEW label \in Pcs, Goto(p, label)
  PROVE  pc' \in [Procs -> Pcs]
  BY DEF TypeOK, Goto

\* A file operation succeeds or fails: its outcome is a Boolean.
LEMMA OutcomeTypes ==
  ASSUME TypeOK, NEW p \in Procs, Keep(p) \/ Fail(p)
  PROVE  ok' \in [Procs -> BOOLEAN]
  BY DEF TypeOK, Keep, Fail

\* Leaving a critical section of ioMu keeps the types.
LEMMA UnlockTypes ==
  ASSUME TypeOK, NEW p \in Procs, NEW label \in Pcs, UnlockTo(p, label)
  PROVE  /\ pc' \in [Procs -> Pcs] /\ ok' \in [Procs -> BOOLEAN]
         /\ ioMu' \in Procs \cup {Free}
  BY DEF TypeOK, UnlockTo

\* A copied file is one more file in the archive.
LEMMA ExportCopyTypes ==
  ASSUME TypeOK, NEW x \in Exporters, ExportCopy(x)
  PROVE  ZipsOK' /\ todo' \in [Exporters -> SUBSET Days]
  <1>1. CASE UNCHANGED <<todo, zip>>
    BY <1>1 DEF TypeOK, ZipsOK
  <1>2. CASE ~UNCHANGED <<todo, zip>>
    <2>1. PICK d \in todo[x] :
            /\ zip' = [zip EXCEPT ![x] =
                         [e \in DOMAIN @ \cup {d} |-> IF e = d THEN files[d] ELSE @[e]]]
            /\ todo' = [todo EXCEPT ![x] = @ \ {d}]
      BY <1>2 DEF ExportCopy
    <2>2. d \in Days /\ IsZip(zip[x])
      BY DEF TypeOK, ZipsOK
    <2>3. IsZip([e \in DOMAIN zip[x] \cup {d} |-> IF e = d THEN files[d] ELSE zip[x][e]])
      BY <2>2 DEF TypeOK, IsZip
    <2>4. ZipsOK'
      BY <2>1, <2>3 DEF TypeOK, ZipsOK
    <2>5. todo' \in [Exporters -> SUBSET Days]
      BY <2>1 DEF TypeOK
    <2>6. QED
      BY <2>4, <2>5
  <1>3. QED
    BY <1>1, <1>2

\* Lengths are numbers.
LEMMA LengthsAreNat == Lengths \subseteq Nat
  BY BoundsArePositive DEF Lengths

\* The end of the process keeps the types.
LEMMA CrashTypes ==
  ASSUME TypeOK, Crash
  PROVE  /\ pc' \in [Procs -> Pcs] /\ ok' \in [Procs -> BOOLEAN]
         /\ files' \in [Days -> Seq(Chunks)] /\ durable' \in [Days -> Nat]
         /\ created' \subseteq Days
         /\ ZipsOK'
  <1>1. pc' \in [Procs -> Pcs] /\ ok' \in [Procs -> BOOLEAN]
    BY LabelsArePcs DEF Crash
  <1>2. ZipsOK'
    BY EmptyZipIsZip DEF Crash, ZipsOK
  <1>3. PICK keep \in [Days -> Nat] :
          /\ \A d \in Days : durable[d] <= keep[d] /\ keep[d] <= Len(files[d])
          /\ files' = [d \in Days |-> SubSeq(files[d], 1, keep[d])]
          /\ durable' = keep
          /\ \E lost \in SUBSET {d \in created : keep[d] = 0} : created' = created \ lost
    BY LengthsAreNat DEF Crash
  <1>4. ASSUME NEW d \in Days
        PROVE  SubSeq(files[d], 1, keep[d]) \in Seq(Chunks)
    <2>1. files[d] \in Seq(Chunks) /\ keep[d] \in Nat /\ keep[d] <= Len(files[d])
      BY <1>3, BoundsArePositive DEF TypeOK
    <2>2. QED
      BY <2>1
  <1>5. QED
    BY <1>1, <1>2, <1>3, <1>4, BoundsArePositive DEF TypeOK

\* No step of WriteFailure, ExportZIP, Health, ValidateStartup or of the disk breaks the types.
LEMMA NextTypeOK == TypeOK /\ [Next]_vars => TypeOK'
  <1> SUFFICES ASSUME TypeOK, [Next]_vars
               PROVE  TypeOK'
    OBVIOUS
  <1> USE RolesAreProcs, LabelsArePcs, GotoTypes, OutcomeTypes, UnlockTypes
  <1>0. UNCHANGED zip => ZipsOK'
    BY DEF TypeOK, ZipsOK
  <1> USE <1>0 DEF TypeOK, store, onDisk, env, history
  <1>1. ASSUME NEW p \in Procs, LockIO(p) PROVE TypeOK'
    BY <1>1 DEF LockIO
  <1>2. ASSUME NEW w \in Writers, BeginWriteFailure(w) PROVE TypeOK'
    <2>1. nextRec' \in 1..(MaxRecords + 1) /\ nextRec \in Records
      BY <1>2, BoundsArePositive DEF BeginWriteFailure, Records
    <2>2. rec' \in [Writers -> RecordInfo]
      BY <1>2, <2>1 DEF BeginWriteFailure, RecordInfo
    <2>3. QED
      BY <1>2, <2>1, <2>2 DEF BeginWriteFailure
  <1>3. ASSUME NEW w \in Writers, WriteOpen(w) PROVE TypeOK'
    BY <1>3 DEF WriteOpen, RecordInfo
  <1>4. ASSUME NEW w \in Writers, NEW chunk \in Chunks, AppendChunk(w, chunk)
        PROVE  files' \in [Days -> Seq(Chunks)]
    BY <1>4 DEF AppendChunk, RecordInfo
  <1>5. ASSUME NEW w \in Writers
        PROVE  FirstHalf(rec[w].id) \in Chunks /\ SecondHalf(rec[w].id) \in Chunks
    BY DEF FirstHalf, SecondHalf, Chunks, RecordInfo
  <1>6. ASSUME NEW w \in Writers, WriteHead(w) PROVE TypeOK'
    BY <1>4, <1>5, <1>6 DEF WriteHead
  <1>7. ASSUME NEW w \in Writers, WriteTail(w) PROVE TypeOK'
    BY <1>4, <1>5, <1>7 DEF WriteTail
  <1>8. ASSUME NEW w \in Writers, WriteSync(w) PROVE TypeOK'
    <2>1. durable' \in [Days -> Nat]
      BY <1>8 DEF WriteSync, RecordInfo
    <2>2. QED
      BY <1>8, <2>1 DEF WriteSync
  <1>9. ASSUME NEW w \in Writers, WriteClose(w) PROVE TypeOK'
    BY <1>9 DEF WriteClose
  <1>10. ASSUME NEW w \in Writers, WriteSettle(w) PROVE TypeOK'
    BY <1>10 DEF WriteSettle, clearDegradedIf, markDegraded, DegradedOps, RecordInfo
  <1>11. ASSUME NEW x \in Exporters, BeginExportZIP(x) PROVE TypeOK'
    BY <1>11 DEF BeginExportZIP
  <1>12. ASSUME NEW x \in Exporters, ExportList(x) PROVE TypeOK'
    BY <1>12 DEF ExportList
  <1>13. ASSUME NEW x \in Exporters, ExportCopy(x) PROVE TypeOK'
    BY <1>13, ExportCopyTypes DEF ExportCopy
  <1>14. ASSUME NEW x \in Exporters, ExportSettle(x) PROVE TypeOK'
    BY <1>14, EmptyZipIsZip DEF ExportSettle, ZipsOK, clearDegradedIf, markDegraded, DegradedOps
  <1>15. ASSUME NEW p \in Checkers \cup {Main}, ProbeOpen(p) PROVE TypeOK'
    BY <1>15 DEF ProbeOpen
  <1>16. ASSUME NEW p \in Checkers \cup {Main}, ProbeWrite(p) PROVE TypeOK'
    BY <1>16 DEF ProbeWrite
  <1>17. ASSUME NEW p \in Checkers \cup {Main}, ProbeRemove(p) PROVE TypeOK'
    BY <1>17 DEF ProbeRemove
  <1>18. ASSUME NEW p \in Checkers \cup {Main}, ProbeUnlock(p) PROVE TypeOK'
    BY <1>18 DEF ProbeUnlock, AfterProbe
  <1>19. ASSUME NEW c \in Checkers, BeginHealth(c) \/ HealthDirCheck(c) PROVE TypeOK'
    BY <1>19 DEF BeginHealth, HealthDirCheck, Replies
  <1>20. ASSUME NEW c \in Checkers, HealthMarkDir(c) \/ HealthMarkWrite(c) PROVE TypeOK'
    BY <1>20 DEF HealthMarkDir, HealthMarkWrite, DegradedOps, markDegraded
  <1>21. ASSUME NEW c \in Checkers, HealthHasDegraded(c) PROVE TypeOK'
    BY <1>21 DEF HealthHasDegraded, Replies
  <1>22. ASSUME NEW c \in Checkers, HealthReplyUnhealthy(c) PROVE TypeOK'
    BY <1>22 DEF HealthReplyUnhealthy, Replies, DegradedOps
  <1>23. ASSUME NEW c \in Checkers, HealthClear(c) PROVE TypeOK'
    BY <1>23 DEF HealthClear, Replies, DegradedOps, clearDegraded
  <1>24. CASE StartupStep
    BY <1>24 DEF StartupStep, StartProcess, StartupDirCheck, StartupClear,
      clearDegraded, DegradedOps
  <1>25. CASE Crash
    BY <1>25, CrashTypes DEF Crash, DegradedOps, Replies
  <1>26. CASE DayPasses
    <2>1. today' \in Days
      BY <1>26, BoundsArePositive DEF DayPasses, Days
    <2>2. QED
      BY <1>26, <2>1 DEF DayPasses, calls
  <1>27. CASE DiskFails \/ DiskHeals
    BY <1>27 DEF DiskFails, DiskHeals, calls
  <1>28. CASE UNCHANGED vars
    BY <1>28 DEF vars, calls
  <1>29. QED
    BY <1>1, <1>2, <1>3, <1>6, <1>7, <1>8, <1>9, <1>10, <1>11, <1>12, <1>13, <1>14,
       <1>15, <1>16, <1>17, <1>18, <1>19, <1>20, <1>21, <1>22, <1>23, <1>24, <1>25,
       <1>26, <1>27, <1>28
    DEF Next, WriteStep, ExportStep, ProbeStep, HealthStep

\* The state of the store, its files and its calls keep their types for ever,
\* for every number of goroutines and every bound.
THEOREM TypeCorrect == Spec => []TypeOK
  <1>1. QED
    BY InitTypeOK, NextTypeOK, PTL DEF Spec

-----------------------------------------------------------------------------
(* Mutual exclusion. *)

\* Inside and outside the critical sections: which label is where.
LEMMA CriticalLabels ==
  /\ \A label \in {"w_open", "w_head", "w_tail", "w_sync", "w_close", "w_settle"} :
       label \in CriticalPcs
  /\ \A label \in {"x_list", "x_copy", "x_settle"} : label \in CriticalPcs
  /\ \A label \in {"p_open", "p_write", "p_remove", "p_unlock"} : label \in CriticalPcs
  /\ \A label \in {"w_lock", "x_lock", "p_lock", "idle"} : label \notin CriticalPcs
  /\ \A label \in {"h_dir", "h_markdir", "h_has"} : label \notin CriticalPcs
  /\ \A label \in {"h_markwrite", "h_clear", "h_reply"} : label \notin CriticalPcs
  /\ \A label \in {"down", "s_dir", "s_clear", "serving"} : label \notin CriticalPcs
  BY DEF CriticalPcs, WritePcs, ExportPcs, ProbePcs

\* A goroutine that moves without touching ioMu keeps the exclusion if it stays
\* on its side of the lock.
LEMMA MoveKeepsExclusion ==
  ASSUME TypeOK, IoMuExclusion, NEW p \in Procs, NEW label, Goto(p, label),
         UNCHANGED ioMu, pc[p] \in CriticalPcs <=> label \in CriticalPcs
  PROVE  IoMuExclusion'
  BY DEF TypeOK, IoMuExclusion, Goto

\* The holder that gives ioMu back leaves the critical sections empty.
LEMMA UnlockKeepsExclusion ==
  ASSUME TypeOK, IoMuExclusion, NEW p \in Procs, NEW label, UnlockTo(p, label),
         pc[p] \in CriticalPcs, label \notin CriticalPcs
  PROVE  IoMuExclusion'
  BY RolesAreDisjoint DEF TypeOK, IoMuExclusion, UnlockTo

\* No step lets a second goroutine into the sections ioMu protects.
LEMMA NextExclusion == TypeOK /\ IoMuExclusion /\ [Next]_vars => IoMuExclusion'
  <1> SUFFICES ASSUME TypeOK, IoMuExclusion, [Next]_vars
               PROVE  IoMuExclusion'
    OBVIOUS
  <1> USE RolesAreProcs, CriticalLabels, MoveKeepsExclusion, UnlockKeepsExclusion
  <1> USE DEF store
  <1>1. ASSUME NEW p \in Procs, LockIO(p) PROVE IoMuExclusion'
    BY <1>1, RolesAreDisjoint DEF LockIO, IoMuExclusion, TypeOK, Goto
  <1>2. ASSUME NEW w \in Writers, BeginWriteFailure(w) PROVE IoMuExclusion'
    BY <1>2 DEF BeginWriteFailure
  <1>3. ASSUME NEW w \in Writers, WriteStep(w) PROVE IoMuExclusion'
    BY <1>3 DEF WriteStep, WriteOpen, WriteHead, WriteTail, WriteSync, WriteClose, WriteSettle
  <1>4. ASSUME NEW x \in Exporters, BeginExportZIP(x) \/ ExportStep(x) PROVE IoMuExclusion'
    BY <1>4 DEF BeginExportZIP, ExportStep, ExportList, ExportCopy, ExportSettle
  <1>5. ASSUME NEW p \in Checkers \cup {Main}, ProbeStep(p) PROVE IoMuExclusion'
    BY <1>5 DEF ProbeStep, ProbeOpen, ProbeWrite, ProbeRemove, ProbeUnlock, AfterProbe
  <1>6. ASSUME NEW c \in Checkers, BeginHealth(c) \/ HealthStep(c) PROVE IoMuExclusion'
    BY <1>6 DEF BeginHealth, HealthStep, HealthDirCheck, HealthMarkDir, HealthHasDegraded,
      HealthMarkWrite, HealthReplyUnhealthy, HealthClear
  <1>7. CASE StartupStep
    BY <1>7 DEF StartupStep, StartProcess, StartupDirCheck, StartupClear
  <1>8. CASE Crash
    BY <1>8, RolesAreDisjoint DEF Crash, IoMuExclusion
  <1>9. CASE DayPasses \/ DiskFails \/ DiskHeals \/ UNCHANGED vars
    BY <1>9 DEF DayPasses, DiskFails, DiskHeals, vars, calls, IoMuExclusion
  <1>10. QED
    BY <1>1, <1>2, <1>3, <1>4, <1>5, <1>6, <1>7, <1>8, <1>9 DEF Next

\* Nobody is in a critical section at the start.
LEMMA InitExclusion == Init => IoMuExclusion
  BY RolesAreDisjoint, CriticalLabels DEF Init, IoMuExclusion

\* No two goroutines are ever inside the sections that ioMu protects.
THEOREM MutualExclusion == Spec => []IoMuExclusion
  BY InitExclusion, InitTypeOK, NextTypeOK, NextExclusion, PTL DEF Spec
-----------------------------------------------------------------------------
(* The probe file. *)

\* No step leaves a probe file behind whose removal is not ahead, unless the
\* file was given up as stray.
LEMMA NextProbeFile ==
  TypeOK /\ IoMuExclusion /\ ProbeFileIsTransient /\ [Next]_vars => ProbeFileIsTransient'
  <1> SUFFICES ASSUME TypeOK, IoMuExclusion, ProbeFileIsTransient, [Next]_vars
               PROVE  ProbeFileIsTransient'
    OBVIOUS
  <1> USE RolesAreProcs DEF ProbeFileIsTransient, store, onDisk, env, history
  <1>1. ASSUME NEW p \in Procs, NEW label, Goto(p, label), UNCHANGED <<ioMu, probeFile>>,
               pc[p] \notin {"p_write", "p_remove"}
        PROVE  ProbeFileIsTransient'
    BY <1>1 DEF Goto, TypeOK
  <1>2. ASSUME NEW p \in Procs, NEW label, UnlockTo(p, label), UNCHANGED probeFile,
               pc[p] \notin {"p_write", "p_remove"}, pc[p] \in CriticalPcs
        PROVE  ProbeFileIsTransient'
    BY <1>2 DEF UnlockTo, TypeOK, IoMuExclusion
  <1> USE <1>1, <1>2
  <1>3. ASSUME NEW p \in Procs, LockIO(p) PROVE ProbeFileIsTransient'
    BY <1>3, RolesAreDisjoint DEF LockIO
  <1>4. ASSUME NEW w \in Writers, BeginWriteFailure(w) PROVE ProbeFileIsTransient'
    BY <1>4 DEF BeginWriteFailure
  <1>5. ASSUME NEW w \in Writers, WriteStep(w) PROVE ProbeFileIsTransient'
    BY <1>5, CriticalLabels
    DEF WriteStep, WriteOpen, WriteHead, WriteTail, WriteSync, WriteClose, WriteSettle
  <1>6. ASSUME NEW x \in Exporters, BeginExportZIP(x) \/ ExportStep(x)
        PROVE  ProbeFileIsTransient'
    BY <1>6, CriticalLabels
    DEF BeginExportZIP, ExportStep, ExportList, ExportCopy, ExportSettle
  <1>7. ASSUME NEW p \in Checkers \cup {Main}, ProbeStep(p) PROVE ProbeFileIsTransient'
    <2>1. CASE ProbeOpen(p)
      <3>1. CASE UNCHANGED probeFile
        BY <2>1, <3>1 DEF ProbeOpen
      <3>2. CASE Goto(p, "p_write")
        <4>1. ioMu' = p
          BY <2>1, CriticalLabels DEF ProbeOpen, IoMuExclusion
        <4>2. pc'[p] = "p_write"
          BY <3>2 DEF Goto, TypeOK
        <4>3. QED
          BY <4>1, <4>2
      <3>3. QED
        BY <2>1, <3>1, <3>2 DEF ProbeOpen
    <2>2. CASE ProbeWrite(p)
      BY <2>2, CriticalLabels DEF ProbeWrite, IoMuExclusion, Goto, TypeOK
    <2>3. CASE ProbeRemove(p)
      BY <2>3 DEF ProbeRemove
    <2>4. CASE ProbeUnlock(p)
      BY <2>4, CriticalLabels DEF ProbeUnlock
    <2>5. QED
      BY <1>7, <2>1, <2>2, <2>3, <2>4 DEF ProbeStep
  <1>8. ASSUME NEW c \in Checkers, BeginHealth(c) \/ HealthStep(c)
        PROVE  ProbeFileIsTransient'
    BY <1>8 DEF BeginHealth, HealthStep, HealthDirCheck, HealthMarkDir, HealthHasDegraded,
      HealthMarkWrite, HealthReplyUnhealthy, HealthClear
  <1>9. CASE StartupStep
    BY <1>9 DEF StartupStep, StartProcess, StartupDirCheck, StartupClear
  <1>10. CASE Crash
    BY <1>10 DEF Crash
  <1>11. CASE DayPasses \/ DiskFails \/ DiskHeals \/ UNCHANGED vars
    BY <1>11 DEF DayPasses, DiskFails, DiskHeals, vars, calls
  <1>12. QED
    BY <1>3, <1>4, <1>5, <1>6, <1>7, <1>8, <1>9, <1>10, <1>11 DEF Next

\* A probe file exists only while the goroutine that made it still holds ioMu
\* and has its removal ahead of it, or it was given up as stray.
THEOREM ProbesCleanUp == Spec => []ProbeFileIsTransient
  <1>1. Init => ProbeFileIsTransient
    BY DEF Init, ProbeFileIsTransient
  <1>2. Init => TypeOK /\ IoMuExclusion
    BY InitTypeOK, InitExclusion
  <1>3. QED
    BY <1>1, <1>2, NextTypeOK, NextExclusion, NextProbeFile, PTL DEF Spec

-----------------------------------------------------------------------------
(* Exports. *)

\* The two export invariants, for one exporter.
ExporterOK(x) ==
  /\ pc[x] = "x_copy" =>
       /\ todo[x] # {} /\ todo[x] \subseteq created
       /\ DOMAIN zip[x] = created \ todo[x]
       /\ \A d \in DOMAIN zip[x] : zip[x][d] = files[d]
  /\ pc[x] \notin {"x_copy", "x_settle"} => zip[x] = EmptyZip
  /\ pc[x] = "x_settle" /\ ok[x] =>
       /\ DOMAIN zip[x] = created
       /\ \A d \in created : zip[x][d] = files[d]

ExportInv == \A x \in Exporters : ExporterOK(x)

\* What is carried for each exporter is its progress and its snapshot.
LEMMA ExportInvIsBoth == ExportInv <=> ExportProgress /\ ExportIsSnapshot
  BY DEF ExportInv, ExporterOK, ExportProgress, ExportIsSnapshot

\* While an exporter holds ioMu, no writer can change the files under it.
LEMMA OnlyHolderWrites ==
  ASSUME TypeOK, IoMuExclusion, NEW w \in Writers, pc[w] \in CriticalPcs,
         NEW x \in Exporters
  PROVE  pc[x] \notin {"x_copy", "x_settle"}
  BY RolesAreProcs, RolesAreDisjoint, CriticalLabels DEF IoMuExclusion

\* An exporter that takes no step, and whose files do not change while it
\* copies, keeps its archive.
LEMMA ExporterFrame ==
  ASSUME NEW x \in Exporters, ExporterOK(x),
         pc'[x] = pc[x], ok'[x] = ok[x], todo'[x] = todo[x], zip'[x] = zip[x],
         UNCHANGED <<created, files>> \/ pc[x] \notin {"x_copy", "x_settle"}
  PROVE  ExporterOK(x)'
  BY DEF ExporterOK

\* No step, of the exporter or of another goroutine, breaks what is known of a running export.
LEMMA NextExport == TypeOK /\ IoMuExclusion /\ ExportInv /\ [Next]_vars => ExportInv'
  <1> SUFFICES ASSUME TypeOK, IoMuExclusion, ExportInv, [Next]_vars, NEW x \in Exporters
               PROVE  ExporterOK(x)'
    BY DEF ExportInv
  <1>0. ExporterOK(x)
    BY DEF ExportInv
  <1> USE <1>0, RolesAreProcs, RolesAreDisjoint DEF store, onDisk, env, history
  <1>1. ASSUME NEW p \in Procs, NEW label, Goto(p, label), p # x
        PROVE  pc'[x] = pc[x]
    BY <1>1 DEF TypeOK, Goto
  <1>2. ASSUME NEW p \in Procs, p # x, Keep(p) \/ Fail(p)
        PROVE  ok'[x] = ok[x]
    BY <1>2 DEF TypeOK, Keep, Fail
  <1>3. ASSUME NEW p \in Procs, NEW label, UnlockTo(p, label), p # x
        PROVE  pc'[x] = pc[x] /\ ok'[x] = ok[x]
    BY <1>3 DEF TypeOK, UnlockTo
  <1> USE <1>1, <1>2, <1>3, ExporterFrame, OnlyHolderWrites, CriticalLabels
  <1>4. ASSUME NEW p \in Procs, LockIO(p) PROVE ExporterOK(x)'
    <2>1. CASE p # x
      BY <1>4, <2>1 DEF LockIO
    <2>2. CASE p = x
      BY <1>4, <2>2 DEF LockIO, ExporterOK, Goto, TypeOK
    <2>3. QED
      BY <2>1, <2>2
  <1>5. ASSUME NEW w \in Writers, BeginWriteFailure(w) PROVE ExporterOK(x)'
    BY <1>5 DEF BeginWriteFailure
  <1>6. ASSUME NEW w \in Writers, WriteStep(w) PROVE ExporterOK(x)'
    BY <1>6
    DEF WriteStep, WriteOpen, WriteHead, WriteTail, WriteSync, WriteClose, WriteSettle
  <1>7. ASSUME NEW y \in Exporters, y # x, BeginExportZIP(y) \/ ExportStep(y)
        PROVE  ExporterOK(x)'
    BY <1>7 DEF BeginExportZIP, ExportStep, ExportList, ExportCopy, ExportSettle, TypeOK, ZipsOK
  <1>8. CASE BeginExportZIP(x)
    BY <1>8 DEF BeginExportZIP, ExporterOK, Goto, TypeOK
  <1>9. CASE ExportList(x)
    BY <1>9 DEF ExportList, ExporterOK, Goto, UnlockTo, Fail, EmptyZip, TypeOK
  <1>10. CASE ExportCopy(x)
    <2> USE <1>10 DEF ExportCopy
    <2>1. CASE Fail(x) /\ Goto(x, "x_settle")
      BY <2>1 DEF ExporterOK, Goto, Fail, TypeOK
    <2>2. CASE ~(Fail(x) /\ Goto(x, "x_settle"))
      <3>1. PICK d \in todo[x] :
              /\ zip' = [zip EXCEPT ![x] =
                           [e \in DOMAIN @ \cup {d} |-> IF e = d THEN files[d] ELSE @[e]]]
              /\ todo' = [todo EXCEPT ![x] = @ \ {d}]
              /\ Goto(x, IF todo[x] = {d} THEN "x_settle" ELSE "x_copy")
        BY <2>2
      <3>2. /\ zip'[x] = [e \in DOMAIN zip[x] \cup {d} |-> IF e = d THEN files[d] ELSE zip[x][e]]
            /\ todo'[x] = todo[x] \ {d}
            /\ pc'[x] = IF todo[x] = {d} THEN "x_settle" ELSE "x_copy"
        BY <3>1 DEF TypeOK, ZipsOK, Goto
      <3>3. UNCHANGED <<created, files>>
        OBVIOUS
      <3>4. DOMAIN zip'[x] = created \ todo'[x]
        BY <3>2 DEF ExporterOK
      <3>5. \A e \in DOMAIN zip'[x] : zip'[x][e] = files[e]
        BY <3>2 DEF ExporterOK
      <3>6. QED
        BY <3>2, <3>3, <3>4, <3>5 DEF ExporterOK
    <2>3. QED
      BY <2>1, <2>2
  <1>11. CASE ExportSettle(x)
    BY <1>11 DEF ExportSettle, ExporterOK, UnlockTo, TypeOK, ZipsOK
  <1>12. ASSUME NEW p \in Checkers \cup {Main}, ProbeStep(p) PROVE ExporterOK(x)'
    BY <1>12 DEF ProbeStep, ProbeOpen, ProbeWrite, ProbeRemove, ProbeUnlock, Threads
  <1>13. ASSUME NEW c \in Checkers, BeginHealth(c) \/ HealthStep(c) PROVE ExporterOK(x)'
    BY <1>13 DEF BeginHealth, HealthStep, HealthDirCheck, HealthMarkDir, HealthHasDegraded,
      HealthMarkWrite, HealthReplyUnhealthy, HealthClear
  <1>14. CASE StartupStep
    BY <1>14 DEF StartupStep, StartProcess, StartupDirCheck, StartupClear, Threads
  <1>15. CASE Crash
    BY <1>15 DEF Crash, ExporterOK, Threads
  <1>16. CASE DayPasses \/ DiskFails \/ DiskHeals \/ UNCHANGED vars
    BY <1>16 DEF DayPasses, DiskFails, DiskHeals, vars, calls
  <1>17. QED
    BY <1>4, <1>5, <1>6, <1>7, <1>8, <1>9, <1>10, <1>11, <1>12, <1>13, <1>14, <1>15, <1>16
    DEF Next, ExportStep

\* What is known of a running export holds for ever.
LEMMA ExportInvariant == Spec => []ExportInv
  <1>1. Init => ExportInv
    BY RolesAreDisjoint DEF Init, ExportInv, ExporterOK, Procs, Threads
  <1>2. QED
    BY <1>1, InitTypeOK, NextTypeOK, InitExclusion, NextExclusion, NextExport, PTL
    DEF Spec

\* Whatever runs beside it, an archive that is complete shows every daily file
\* with the content it has at that moment.
THEOREM ExportsAreSnapshots == Spec => []ExportIsSnapshot
  BY ExportInvariant, ExportInvIsBoth, PTL
-----------------------------------------------------------------------------
(* The log itself. *)

\* WriteProgress, for one writer.
WriterOK(w) ==
  LET r == rec[w].id
      d == rec[w].day IN
  /\ pc[w] = "w_tail" => LastIs(d, <<FirstHalf(r)>>)
  /\ pc[w] \in {"w_sync", "w_close", "w_settle"} /\ ok[w] =>
       LastIs(d, <<FirstHalf(r), SecondHalf(r)>>)
  /\ pc[w] \in {"w_close", "w_settle"} /\ ok[w] => durable[d] = Len(files[d])

\* AckedAreDurable, for one record.
LineAt(r, d, i) ==
  /\ i < durable[d]
  /\ files[d][i] = FirstHalf(r)
  /\ files[d][i + 1] = SecondHalf(r)

DurableLine(r) == \E d \in Days : \E i \in 1..Len(files[d]) : LineAt(r, d, i)

LogInv ==
  /\ \A w \in Writers : WriterOK(w)
  /\ DurableIsPrefix
  /\ \A r \in acked : DurableLine(r)

\* What is carried for the log says how far every writer has come.
LEMMA LogInvIsProgress == LogInv => WriteProgress /\ DurableIsPrefix
  BY DEF LogInv, WriterOK, WriteProgress

\* Files that keep their durable part keep every durable line.
LEMMA DurableLinesStay ==
  ASSUME TypeOK, TypeOK', DurableIsPrefix, DurableIsPrefix', NEW r, DurableLine(r),
         \A d \in Days : /\ durable[d] <= durable'[d]
                        /\ \A i \in 1..durable[d] : files'[d][i] = files[d][i]
  PROVE  DurableLine(r)'
  <1>1. PICK d \in Days : \E i \in 1..Len(files[d]) : LineAt(r, d, i)
    BY DEF DurableLine
  <1> PICK i \in 1..Len(files[d]) : LineAt(r, d, i)
    BY <1>1
  <1>2. /\ i \in Nat /\ durable[d] \in Nat /\ durable'[d] \in Nat
        /\ Len(files[d]) \in Nat /\ Len(files'[d]) \in Nat
    BY SMTT(30) DEF TypeOK
  <1>3. i < durable[d] /\ durable[d] <= durable'[d] /\ durable'[d] <= Len(files'[d])
    BY DEF LineAt, DurableIsPrefix
  <1>4. i \in 1..durable[d] /\ i + 1 \in 1..durable[d] /\ i \in 1..Len(files'[d])
    BY <1>2, <1>3
  <1>5. LineAt(r, d, i)'
    BY <1>2, <1>3, <1>4, SMTT(30) DEF LineAt
  <1>6. QED
    BY <1>4, <1>5 DEF DurableLine

\* A step that leaves the files alone, or that only another writer takes.
LEMMA WriterFrame ==
  ASSUME NEW w \in Writers, WriterOK(w), pc'[w] = pc[w], ok'[w] = ok[w], rec'[w] = rec[w],
         UNCHANGED <<files, durable>> \/ pc[w] \notin CriticalPcs
  PROVE  WriterOK(w)'
  BY CriticalLabels DEF WriterOK, LastIs

\* A chunk is appended to one file; nothing else about the files changes.
LEMMA AppendEffect ==
  ASSUME TypeOK, NEW w \in Writers, NEW chunk \in Chunks, AppendChunk(w, chunk)
  PROVE  LET d == rec[w].day IN
         /\ d \in Days
         /\ Len(files'[d]) = Len(files[d]) + 1
         /\ files'[d][Len(files[d]) + 1] = chunk
         /\ \A e \in Days : \A i \in 1..Len(files[e]) : files'[e][i] = files[e][i]
         /\ \A e \in Days : Len(files[e]) <= Len(files'[e])
  <1> DEFINE d == rec[w].day
  <1>1. d \in Days /\ files[d] \in Seq(Chunks)
    BY DEF TypeOK, RecordInfo
  <1>2. files' = [files EXCEPT ![d] = Append(files[d], chunk)]
    BY DEF AppendChunk
  <1>3. \A e \in Days : files'[e] = IF e = d THEN Append(files[d], chunk) ELSE files[e]
    BY <1>2 DEF TypeOK
  <1>4. files[d] \in Seq(Chunks) /\ \A e \in Days : Len(files[e]) \in Nat
    BY <1>1 DEF TypeOK
  <1>5. /\ Len(Append(files[d], chunk)) = Len(files[d]) + 1
        /\ Append(files[d], chunk)[Len(files[d]) + 1] = chunk
        /\ \A i \in 1..Len(files[d]) : Append(files[d], chunk)[i] = files[d][i]
    BY <1>4
  <1>6. Len(files'[d]) = Len(files[d]) + 1 /\ files'[d][Len(files[d]) + 1] = chunk
    BY <1>1, <1>3, <1>5
  <1>7. ASSUME NEW e \in Days
        PROVE  /\ \A i \in 1..Len(files[e]) : files'[e][i] = files[e][i]
               /\ Len(files[e]) <= Len(files'[e])
    <2>1. CASE e = d
      <3>1. files'[e] = Append(files[d], chunk) /\ files[e] = files[d]
        BY <2>1, <1>3
      <3>2. Len(files[d]) \in Nat
        BY <1>4
      <3>3. Len(files[e]) <= Len(files'[e])
        BY <1>5, <3>1, <3>2
      <3>4. QED
        BY <1>5, <3>1, <3>3
    <2>2. CASE e # d
      BY <2>2, <1>3, <1>4
    <2>3. QED
      BY <2>1, <2>2
  <1>8. QED
    BY <1>1, <1>6, <1>7

\* After a first half the second makes the line; the prefix stays durable.
LEMMA WriteChunkKeepsLog ==
  ASSUME TypeOK, TypeOK', IoMuExclusion, LogInv, NEW w \in Writers,
         WriteHead(w) \/ WriteTail(w)
  PROVE  LogInv'
  <1> USE DEF store, onDisk, env, history
  <1>1. FirstHalf(rec[w].id) \in Chunks /\ SecondHalf(rec[w].id) \in Chunks
    BY DEF FirstHalf, SecondHalf, Chunks, TypeOK, RecordInfo
  <1>2. /\ \A e \in Days : \A i \in 1..Len(files[e]) : files'[e][i] = files[e][i]
        /\ \A e \in Days : Len(files[e]) <= Len(files'[e])
        /\ \A e \in Days : Len(files[e]) \in Nat /\ Len(files'[e]) \in Nat
    BY <1>1, AppendEffect DEF WriteHead, WriteTail, TypeOK
  <1>3. UNCHANGED <<durable, acked, rec>>
    BY DEF WriteHead, WriteTail
  <1>4. DurableIsPrefix'
    BY <1>2, <1>3 DEF LogInv, DurableIsPrefix, TypeOK
  <1>5. \A r \in acked' : DurableLine(r)'
    <2>1. \A d \in Days : \A i \in 1..durable[d] : files'[d][i] = files[d][i]
      BY <1>2, SMTT(30) DEF LogInv, DurableIsPrefix, TypeOK
    <2>2. \A d \in Days : durable[d] <= durable'[d]
      BY <1>3 DEF TypeOK
    <2>3. QED
      BY <1>3, <1>4, <2>1, <2>2, DurableLinesStay DEF LogInv
  <1>6. ASSUME NEW v \in Writers, v # w PROVE WriterOK(v)'
    <2>1. pc[v] \notin CriticalPcs
      BY <1>6, RolesAreProcs, CriticalLabels DEF IoMuExclusion, WriteHead, WriteTail
    <2>2. pc'[v] = pc[v] /\ ok'[v] = ok[v]
      BY <1>6, RolesAreProcs DEF WriteHead, WriteTail, Goto, Keep, Fail, TypeOK
    <2>3. QED
      BY <1>3, <2>1, <2>2, WriterFrame DEF LogInv
  <1>7. CASE WriteHead(w)
    <2>1. ASSUME Fail(w), Goto(w, "w_sync") PROVE WriterOK(w)'
      <3>1. ~ok'[w] /\ pc'[w] = "w_sync"
        BY <2>1, RolesAreProcs DEF Fail, Goto, TypeOK
      <3>2. QED
        BY <3>1 DEF WriterOK
    <2>2. ASSUME AppendChunk(w, FirstHalf(rec[w].id)), Goto(w, "w_tail") PROVE WriterOK(w)'
      <3>1. pc'[w] = "w_tail"
        BY <2>2, RolesAreProcs DEF Goto, TypeOK
      <3>2. LastIs(rec[w].day, <<FirstHalf(rec[w].id)>>)'
        BY <1>1, <1>2, <1>3, <2>2, AppendEffect DEF LastIs
      <3>3. QED
        BY <1>3, <3>1, <3>2 DEF WriterOK
    <2>3. WriterOK(w)'
      BY <1>7, <2>1, <2>2 DEF WriteHead
    <2>4. QED
      BY <1>4, <1>5, <1>6, <2>3 DEF LogInv
  <1>8. CASE WriteTail(w)
    <2>1. pc'[w] = "w_sync"
      BY <1>8, RolesAreProcs DEF WriteTail, Goto, TypeOK
    <2>2. ASSUME Fail(w) PROVE WriterOK(w)'
      <3>1. ~ok'[w]
        BY <2>2, RolesAreProcs DEF Fail, TypeOK
      <3>2. QED
        BY <2>1, <3>1 DEF WriterOK
    <2>3. ASSUME AppendChunk(w, SecondHalf(rec[w].id)) PROVE WriterOK(w)'
      <3> DEFINE d == rec[w].day
                 r == rec[w].id
      <3>1. LastIs(d, <<FirstHalf(r)>>)
        BY <1>8 DEF LogInv, WriterOK, WriteTail
      <3>2. /\ d \in Days /\ Len(files[d]) \in Nat
            /\ Len(files'[d]) = Len(files[d]) + 1
            /\ files'[d][Len(files[d]) + 1] = SecondHalf(r)
            /\ \A i \in 1..Len(files[d]) : files'[d][i] = files[d][i]
        BY <1>1, <1>2, <2>3, AppendEffect
      <3>3. 1 <= Len(files[d]) /\ files[d][Len(files[d])] = FirstHalf(r)
        BY <3>1, <3>2 DEF LastIs
      <3>4. /\ files'[d][Len(files'[d]) - 1] = FirstHalf(r)
            /\ files'[d][Len(files'[d])] = SecondHalf(r)
            /\ 2 <= Len(files'[d])
        BY <3>2, <3>3, SMTT(30)
      <3>5. LastIs(d, <<FirstHalf(r), SecondHalf(r)>>)'
        BY <1>3, <3>2, <3>4 DEF LastIs
      <3>6. QED
        BY <1>3, <2>1, <3>5 DEF WriterOK
    <2>4. WriterOK(w)'
      BY <1>8, <2>2, <2>3 DEF WriteTail
    <2>5. QED
      BY <1>4, <1>5, <1>6, <2>4 DEF LogInv
  <1>9. QED
    BY <1>7, <1>8

\* Sync makes the whole file durable, the line of its own record included.
LEMMA WriteSyncKeepsLog ==
  ASSUME TypeOK, TypeOK', IoMuExclusion, LogInv, NEW w \in Writers, WriteSync(w)
  PROVE  LogInv'
  <1> USE DEF store, onDisk, env, history
  <1>1. UNCHANGED <<files, acked, rec>> /\ pc'[w] = "w_close"
    BY RolesAreProcs DEF WriteSync, Goto, TypeOK
  <1>2. \A d \in Days : durable'[d] = durable[d] \/ durable'[d] = Len(files[d])
    BY DEF WriteSync, TypeOK
  <1>3. DurableIsPrefix'
    BY <1>1, <1>2 DEF LogInv, DurableIsPrefix, TypeOK
  <1>4. \A r \in acked' : DurableLine(r)'
    <2>1. \A d \in Days : durable[d] <= durable'[d]
      BY <1>2 DEF LogInv, DurableIsPrefix, TypeOK
    <2>2. QED
      BY <1>1, <1>3, <2>1, DurableLinesStay DEF LogInv
  <1>5. ASSUME NEW v \in Writers, v # w PROVE WriterOK(v)'
    <2>1. pc[v] \notin CriticalPcs
      BY <1>5, RolesAreProcs, CriticalLabels DEF IoMuExclusion, WriteSync
    <2>2. pc'[v] = pc[v] /\ ok'[v] = ok[v]
      BY <1>5, RolesAreProcs DEF WriteSync, Goto, Keep, Fail, TypeOK
    <2>3. QED
      BY <1>1, <2>1, <2>2, WriterFrame DEF LogInv
  <1>6. WriterOK(w)'
    <2>1. ASSUME Fail(w) PROVE WriterOK(w)'
      <3>1. ~ok'[w]
        BY <2>1, RolesAreProcs DEF Fail, TypeOK
      <3>2. QED
        BY <1>1, <3>1 DEF WriterOK
    <2>2. ASSUME Keep(w), durable' = [durable EXCEPT ![rec[w].day] = Len(files[rec[w].day])]
          PROVE  WriterOK(w)'
      <3>1. durable'[rec[w].day] = Len(files[rec[w].day])
        BY <2>2 DEF TypeOK, RecordInfo
      <3>2. pc[w] = "w_sync" /\ ok'[w] = ok[w]
        BY <2>2 DEF WriteSync, Keep
      <3>3. ok[w] => LastIs(rec[w].day, <<FirstHalf(rec[w].id), SecondHalf(rec[w].id)>>)
        BY <3>2 DEF LogInv, WriterOK
      <3>4. QED
        BY <1>1, <3>1, <3>2, <3>3 DEF WriterOK, LastIs
    <2>3. QED
      BY <2>1, <2>2 DEF WriteSync
  <1>7. QED
    BY <1>3, <1>4, <1>5, <1>6 DEF LogInv

\* WriteFailure returns nil only when its line is durable.
LEMMA WriteSettleKeepsLog ==
  ASSUME TypeOK, TypeOK', IoMuExclusion, LogInv, NEW w \in Writers, WriteSettle(w)
  PROVE  LogInv'
  <1> USE DEF store, onDisk, env, history
  <1>1. UNCHANGED <<files, durable, rec>> /\ pc'[w] = "idle" /\ pc[w] = "w_settle"
    BY RolesAreProcs DEF WriteSettle, UnlockTo, TypeOK
  <1>2. DurableIsPrefix'
    BY <1>1 DEF LogInv, DurableIsPrefix
  <1>3. ASSUME NEW v \in Writers PROVE WriterOK(v)'
    <2>1. CASE v = w
      BY <1>1, <2>1 DEF WriterOK
    <2>2. CASE v # w
      BY <1>1, <2>2, RolesAreProcs, WriterFrame DEF WriteSettle, UnlockTo, TypeOK, LogInv
    <2>3. QED
      BY <2>1, <2>2
  <1>4. ASSUME NEW r \in acked' PROVE DurableLine(r)'
    <2>1. CASE r \in acked
      BY <1>1, <2>1 DEF LogInv, DurableLine, LineAt
    <2>2. CASE r \notin acked
      <3> DEFINE d == rec[w].day
      <3>1. r = rec[w].id /\ ok[w]
        BY <1>4, <2>2 DEF WriteSettle
      <3>2. LastIs(d, <<FirstHalf(r), SecondHalf(r)>>) /\ durable[d] = Len(files[d])
        BY <1>1, <3>1 DEF LogInv, WriterOK
      <3>3. d \in Days /\ Len(files[d]) \in Nat
        <4>1. d \in Days
          BY DEF TypeOK, RecordInfo
        <4>2. QED
          BY <4>1 DEF TypeOK
      <3>4. /\ Len(files[d]) - 1 \in 1..Len(files[d])
            /\ files[d][Len(files[d]) - 1] = FirstHalf(r)
            /\ files[d][Len(files[d])] = SecondHalf(r)
        <4>1. /\ 2 <= Len(files[d])
              /\ \A i \in 1..2 : files[d][Len(files[d]) - 2 + i] = <<FirstHalf(r), SecondHalf(r)>>[i]
          BY <3>2 DEF LastIs
        <4>2. files[d][Len(files[d]) - 2 + 1] = FirstHalf(r)
          BY <4>1
        <4>3. files[d][Len(files[d]) - 2 + 2] = SecondHalf(r)
          BY <4>1
        <4>4. QED
          BY <3>3, <4>1, <4>2, <4>3
      <3>5. LineAt(r, d, Len(files[d]) - 1)'
        BY <1>1, <3>2, <3>3, <3>4 DEF LineAt
      <3>6. QED
        BY <1>1, <3>3, <3>4, <3>5 DEF DurableLine
    <2>3. QED
      BY <2>1, <2>2
  <1>5. QED
    BY <1>2, <1>3, <1>4 DEF LogInv

\* The end of the process loses no durable line.
LEMMA CrashKeepsLog ==
  ASSUME TypeOK, TypeOK', LogInv, Crash
  PROVE  LogInv'
  <1>1. PICK keep \in [Days -> Nat] :
          /\ \A d \in Days : durable[d] <= keep[d] /\ keep[d] <= Len(files[d])
          /\ files' = [d \in Days |-> SubSeq(files[d], 1, keep[d])]
          /\ durable' = keep
    BY LengthsAreNat DEF Crash
  <1>2. ASSUME NEW d \in Days
        PROVE  /\ Len(files'[d]) = keep[d] /\ keep[d] \in Nat
               /\ durable[d] \in Nat
               /\ \A i \in 1..keep[d] : files'[d][i] = files[d][i]
    <2>1. files[d] \in Seq(Chunks) /\ keep[d] \in Nat /\ keep[d] <= Len(files[d])
      BY <1>1, BoundsArePositive DEF TypeOK
    <2>2. /\ Len(SubSeq(files[d], 1, keep[d])) = keep[d]
          /\ \A i \in 1..keep[d] : SubSeq(files[d], 1, keep[d])[i] = files[d][i]
      BY <2>1
    <2>3. QED
      BY <1>1, <2>1, <2>2 DEF TypeOK
  <1>3. DurableIsPrefix'
    BY <1>1, <1>2 DEF DurableIsPrefix
  <1>4. ASSUME NEW w \in Writers PROVE WriterOK(w)'
    <2>1. pc'[w] = "idle"
      BY RolesAreProcs, RolesAreDisjoint DEF Crash, Threads
    <2>2. QED
      BY <2>1 DEF WriterOK
  <1>5. \A r \in acked' : DurableLine(r)'
    <2>1. UNCHANGED acked
      BY DEF Crash
    <2>2. \A d \in Days : durable[d] <= durable'[d]
      BY <1>1
    <2>3. \A d \in Days : \A i \in 1..durable[d] : files'[d][i] = files[d][i]
      BY <1>1, <1>2
    <2>4. QED
      BY <1>3, <2>1, <2>2, <2>3, DurableLinesStay DEF LogInv
  <1>6. QED
    BY <1>3, <1>4, <1>5 DEF LogInv

\* No step, a crash included, breaks what is known of the log.
LEMMA NextLog ==
  TypeOK /\ TypeOK' /\ IoMuExclusion /\ LogInv /\ [Next]_vars => LogInv'
  <1> SUFFICES ASSUME TypeOK, TypeOK', IoMuExclusion, LogInv, [Next]_vars
               PROVE  LogInv'
    OBVIOUS
  <1> USE RolesAreProcs DEF store, onDisk, env, history
  \* Steps that leave the log alone: only the writer that moves is to be checked.
  <1>1. ASSUME UNCHANGED <<files, durable, acked>>, \A w \in Writers : WriterOK(w)'
        PROVE  LogInv'
    BY <1>1 DEF LogInv, DurableIsPrefix, DurableLine, LineAt
  <1>2. ASSUME NEW w \in Writers, pc'[w] = pc[w], ok'[w] = ok[w], rec'[w] = rec[w],
               UNCHANGED <<files, durable>>
        PROVE  WriterOK(w)'
    BY <1>2, WriterFrame DEF LogInv
  <1>3. ASSUME NEW p \in Procs, NEW label, Goto(p, label), NEW w \in Writers, p # w
        PROVE  pc'[w] = pc[w]
    BY <1>3 DEF TypeOK, Goto
  <1>4. ASSUME NEW p \in Procs, Keep(p) \/ Fail(p), NEW w \in Writers, p # w
        PROVE  ok'[w] = ok[w]
    BY <1>4 DEF TypeOK, Keep, Fail
  <1>5. ASSUME NEW p \in Procs, NEW label, UnlockTo(p, label), NEW w \in Writers, p # w
        PROVE  pc'[w] = pc[w] /\ ok'[w] = ok[w]
    BY <1>5 DEF TypeOK, UnlockTo
  \* A writer that goes to a place about which WriterOK says nothing.
  <1>6. ASSUME NEW w \in Writers,
               \/ pc'[w] \notin {"w_tail", "w_sync", "w_close", "w_settle"}
               \/ pc'[w] # "w_tail" /\ ~ok'[w]
        PROVE  WriterOK(w)'
    BY <1>6 DEF WriterOK
  <1>7. ASSUME NEW p \in Procs, LockIO(p) PROVE LogInv'
    <2>1. ASSUME NEW w \in Writers PROVE WriterOK(w)'
      <3>1. CASE p # w
        BY <1>2, <1>3, <1>7, <3>1 DEF LockIO
      <3>2. CASE p = w
        BY <1>6, <1>7, <3>2 DEF LockIO, Goto, TypeOK
      <3>3. QED
        BY <3>1, <3>2
    <2>2. QED
      BY <1>1, <1>7, <2>1 DEF LockIO
  <1>8. ASSUME NEW v \in Writers, BeginWriteFailure(v) PROVE LogInv'
    <2>1. ASSUME NEW w \in Writers PROVE WriterOK(w)'
      <3>1. CASE v # w
        BY <1>2, <1>3, <1>8, <3>1 DEF BeginWriteFailure, TypeOK
      <3>2. CASE v = w
        BY <1>6, <1>8, <3>2 DEF BeginWriteFailure, Goto, TypeOK
      <3>3. QED
        BY <3>1, <3>2
    <2>2. QED
      BY <1>1, <1>8, <2>1 DEF BeginWriteFailure
  <1>9. ASSUME NEW v \in Writers, WriteOpen(v) PROVE LogInv'
    <2>1. ASSUME NEW w \in Writers PROVE WriterOK(w)'
      <3>1. CASE v # w
        BY <1>2, <1>3, <1>4, <1>9, <3>1 DEF WriteOpen
      <3>2. CASE v = w
        BY <1>6, <1>9, <3>2 DEF WriteOpen, Goto, Fail, TypeOK
      <3>3. QED
        BY <3>1, <3>2
    <2>2. QED
      BY <1>1, <1>9, <2>1 DEF WriteOpen
  <1>10. ASSUME NEW v \in Writers, WriteClose(v) PROVE LogInv'
    <2>1. ASSUME NEW w \in Writers PROVE WriterOK(w)'
      <3>1. CASE v # w
        BY <1>2, <1>3, <1>4, <1>10, <3>1 DEF WriteClose
      <3>2. CASE v = w
        <4>1. /\ pc[w] = "w_close" /\ pc'[w] = "w_settle" /\ (ok'[w] => ok[w])
              /\ UNCHANGED <<rec, files, durable>>
          BY <1>10, <3>2 DEF WriteClose, Goto, Keep, Fail, TypeOK
        <4>2. WriterOK(w)
          BY DEF LogInv
        <4>3. QED
          BY <4>1, <4>2 DEF WriterOK, LastIs
      <3>3. QED
        BY <3>1, <3>2
    <2>2. QED
      BY <1>1, <1>10, <2>1 DEF WriteClose
  <1>11. ASSUME NEW x \in Exporters, BeginExportZIP(x) \/ ExportStep(x) PROVE LogInv'
    <2>1. UNCHANGED <<rec, files, durable, acked>>
      BY <1>11 DEF BeginExportZIP, ExportStep, ExportList, ExportCopy, ExportSettle
    <2>2. ASSUME NEW w \in Writers PROVE pc'[w] = pc[w] /\ ok'[w] = ok[w]
      <3>1. x # w /\ x \in Procs
        BY RolesAreDisjoint
      <3>2. CASE BeginExportZIP(x) \/ ExportList(x)
        BY <1>3, <1>4, <1>5, <3>1, <3>2 DEF BeginExportZIP, ExportList
      <3>3. CASE ExportCopy(x) \/ ExportSettle(x)
        BY <1>3, <1>4, <1>5, <3>1, <3>3 DEF ExportCopy, ExportSettle
      <3>4. QED
        BY <1>11, <3>2, <3>3 DEF ExportStep
    <2>3. QED
      BY <1>1, <1>2, <2>1, <2>2
  <1>12. ASSUME NEW p \in Checkers \cup {Main}, ProbeStep(p) PROVE LogInv'
    BY <1>1, <1>2, <1>3, <1>4, <1>5, <1>12, RolesAreDisjoint
    DEF ProbeStep, ProbeOpen, ProbeWrite, ProbeRemove, ProbeUnlock, Threads
  <1>13. ASSUME NEW c \in Checkers, BeginHealth(c) \/ HealthStep(c) PROVE LogInv'
    BY <1>1, <1>2, <1>3, <1>13, RolesAreDisjoint
    DEF BeginHealth, HealthStep, HealthDirCheck, HealthMarkDir, HealthHasDegraded,
      HealthMarkWrite, HealthReplyUnhealthy, HealthClear
  <1>14. CASE StartupStep
    BY <1>1, <1>2, <1>3, <1>14, RolesAreDisjoint
    DEF StartupStep, StartProcess, StartupDirCheck, StartupClear, Threads
  <1>15. CASE DayPasses \/ DiskFails \/ DiskHeals \/ UNCHANGED vars
    BY <1>1, <1>2, <1>15 DEF DayPasses, DiskFails, DiskHeals, vars, calls
  <1>16. QED
    BY <1>7, <1>8, <1>9, <1>10, <1>11, <1>12, <1>13, <1>14, <1>15,
       WriteChunkKeepsLog, WriteSyncKeepsLog, WriteSettleKeepsLog, CrashKeepsLog
    DEF Next, WriteStep

\* What is known of the log holds for ever.
LEMMA LogInvariant == Spec => []LogInv
  <1>1. Init => LogInv
    <2>1. ASSUME Init, NEW w \in Writers PROVE WriterOK(w)
      BY <2>1, RolesAreProcs, RolesAreDisjoint DEF Init, WriterOK, Threads
    <2>2. ASSUME Init PROVE DurableIsPrefix /\ \A r \in acked : DurableLine(r)
      BY <2>2 DEF Init, DurableIsPrefix
    <2>3. QED
      BY <2>1, <2>2 DEF LogInv
  <1>2. QED
    BY <1>1, InitTypeOK, NextTypeOK, InitExclusion, NextExclusion, NextLog, PTL
    DEF Spec

-----------------------------------------------------------------------------
(* Records are written once. *)

\* Where a chunk of a file comes from after an append.
LEMMA ChunkIsOldOrNew ==
  ASSUME TypeOK, NEW w \in Writers, NEW chunk \in Chunks, AppendChunk(w, chunk),
         NEW d \in Days, NEW i \in 1..Len(files'[d])
  PROVE  \/ i \in 1..Len(files[d]) /\ files'[d][i] = files[d][i]
         \/ d = rec[w].day /\ i = Len(files[d]) + 1 /\ files'[d][i] = chunk
  <1>1. rec[w].day \in Days /\ files[d] \in Seq(Chunks) /\ Len(files[d]) \in Nat
    BY DEF TypeOK, RecordInfo
  <1>2. files'[d] = IF d = rec[w].day THEN Append(files[d], chunk) ELSE files[d]
    BY <1>1 DEF AppendChunk, TypeOK
  <1>3. CASE d = rec[w].day
    <2>1. /\ Len(Append(files[d], chunk)) = Len(files[d]) + 1
          /\ Append(files[d], chunk)[Len(files[d]) + 1] = chunk
          /\ \A j \in 1..Len(files[d]) : Append(files[d], chunk)[j] = files[d][j]
      BY <1>1
    <2>2. QED
      BY <1>1, <1>2, <1>3, <2>1
  <1>4. CASE d # rec[w].day
    BY <1>2, <1>4
  <1>5. QED
    BY <1>3, <1>4

\* A step that stores nothing and starts nothing.
LEMMA OnceFrame ==
  ASSUME WrittenOnce, UNCHANGED <<files, rec, nextRec>>,
         \A w \in Writers : /\ pc'[w] \in Pending => pc[w] \in Pending
                            /\ pc'[w] \in BeforeHead => pc[w] \in BeforeHead
  PROVE  WrittenOnce'
  BY DEF WrittenOnce, ChunksDiffer, TailsFollowHeads, ChunksAreOld, PendingIsNew, PendingDiffer,
    HasChunk, FirstHalf, SecondHalf

\* A new failure has a new number.
LEMMA BeginIsNew ==
  ASSUME TypeOK, WrittenOnce, NEW w \in Writers, BeginWriteFailure(w)
  PROVE  WrittenOnce'
  <1>1. /\ files' = files /\ nextRec \in Nat /\ nextRec' = nextRec + 1
        /\ rec'[w] = [id |-> nextRec, day |-> today]
        /\ \A v \in Writers \ {w} : rec'[v] = rec[v] /\ pc'[v] = pc[v]
    BY RolesAreProcs DEF BeginWriteFailure, Goto, TypeOK, onDisk
  <1>2. \A d \in Days : \A i \in 1..Len(files[d]) :
          files[d][i][1] \in Nat /\ files[d][i][1] < nextRec
    <2>1. ASSUME NEW d \in Days, NEW i \in 1..Len(files[d]) PROVE files[d][i] \in Chunks
      BY DEF TypeOK
    <2>2. QED
      BY <2>1 DEF WrittenOnce, ChunksAreOld, Chunks, Records
  <1>3. ChunksDiffer' /\ TailsFollowHeads'
    BY <1>1 DEF WrittenOnce, ChunksDiffer, TailsFollowHeads, FirstHalf
  <1>4. ChunksAreOld'
    BY <1>1, <1>2 DEF ChunksAreOld
  <1>5. ~HasChunk(FirstHalf(nextRec)) /\ ~HasChunk(SecondHalf(nextRec))
    BY <1>1, <1>2 DEF HasChunk, FirstHalf, SecondHalf
  <1>6. \A v \in Writers : rec[v].id \in Nat
    BY BoundsArePositive DEF TypeOK, RecordInfo, Records
  <1>7. ASSUME NEW v \in Writers
        PROVE  /\ pc'[v] \in Pending =>
                    rec'[v].id < nextRec' /\ ~HasChunk(SecondHalf(rec[v].id))'
               /\ pc'[v] \in BeforeHead => ~HasChunk(FirstHalf(rec[v].id))'
    <2>1. CASE v = w
      BY <1>1, <1>5, <2>1 DEF HasChunk, FirstHalf, SecondHalf
    <2>2. CASE v # w
      <3>1. /\ pc'[v] = pc[v] /\ rec'[v] = rec[v] /\ rec[v].id \in Nat
            /\ pc[v] \in Pending => rec[v].id < nextRec /\ ~HasChunk(SecondHalf(rec[v].id))
            /\ pc[v] \in BeforeHead => ~HasChunk(FirstHalf(rec[v].id))
        BY <1>1, <1>6, <2>2 DEF WrittenOnce, PendingIsNew
      <3>2. QED
        BY <1>1, <3>1 DEF HasChunk, FirstHalf, SecondHalf
    <2>3. QED
      BY <2>1, <2>2
  <1>8. PendingDiffer'
    <2>1. ASSUME NEW u \in Writers, NEW v \in Writers, pc'[u] \in Pending, pc'[v] \in Pending, u # v
          PROVE  rec'[u].id # rec'[v].id
      <3>1. \A t \in Writers \ {w} : pc'[t] \in Pending => rec'[t].id < nextRec /\ rec'[t].id \in Nat
        BY <1>1, <1>6 DEF WrittenOnce, PendingIsNew
      <3>2. CASE u = w \/ v = w
        BY <1>1, <2>1, <3>1, <3>2
      <3>3. CASE u # w /\ v # w
        BY <1>1, <2>1, <3>3 DEF WrittenOnce, PendingDiffer
      <3>4. QED
        BY <3>2, <3>3
    <2>2. QED
      BY <2>1 DEF PendingDiffer
  <1>9. QED
    BY <1>3, <1>4, <1>7, <1>8 DEF WrittenOnce, PendingIsNew

\* Half a line is of the writer's own record, which no other writer has, and
\* the second half comes right behind the first.
LEMMA WriteIsNew ==
  ASSUME TypeOK, TypeOK', LogInv, WrittenOnce, NEW w \in Writers, WriteHead(w) \/ WriteTail(w)
  PROVE  WrittenOnce'
  <1>1. /\ UNCHANGED <<rec, nextRec>> /\ pc[w] \in Pending /\ pc'[w] \notin BeforeHead
        /\ \A v \in Writers : /\ pc'[v] \in Pending => pc[v] \in Pending
                              /\ pc'[v] \in BeforeHead => pc[v] \in BeforeHead
        /\ WriteTail(w) => pc'[w] \notin Pending
    BY RolesAreProcs DEF WriteHead, WriteTail, Goto, TypeOK, env, Pending, BeforeHead
  <1>2. CASE UNCHANGED files
    BY <1>1, <1>2, OnceFrame
  <1>3. /\ FirstHalf(rec[w].id) \in Chunks /\ SecondHalf(rec[w].id) \in Chunks
        /\ \A d \in Days : Len(files[d]) \in Nat /\ Len(files'[d]) \in Nat
    <2>1. files \in [Days -> Seq(Chunks)] /\ files' \in [Days -> Seq(Chunks)]
      BY DEF TypeOK
    <2>2. rec[w].id \in Records
      BY DEF TypeOK, RecordInfo
    <2>3. QED
      BY <2>1, <2>2 DEF FirstHalf, SecondHalf, Chunks
  <1>4. ASSUME NEW chunk \in Chunks, AppendChunk(w, chunk), ~HasChunk(chunk), chunk[1] = rec[w].id,
               \/ chunk = FirstHalf(rec[w].id)
               \/ chunk = SecondHalf(rec[w].id) /\ WriteTail(w)
        PROVE  WrittenOnce'
    <2>1. ChunksDiffer'
      <3>1. ASSUME NEW d \in Days, NEW e \in Days, NEW i \in 1..Len(files'[d]),
                   NEW j \in 1..Len(files'[e]), files'[d][i] = files'[e][j]
            PROVE  d = e /\ i = j
        <4>1. \/ i \in 1..Len(files[d]) /\ files'[d][i] = files[d][i]
              \/ d = rec[w].day /\ i = Len(files[d]) + 1 /\ files'[d][i] = chunk
          BY <1>4, ChunkIsOldOrNew
        <4>2. \/ j \in 1..Len(files[e]) /\ files'[e][j] = files[e][j]
              \/ e = rec[w].day /\ j = Len(files[e]) + 1 /\ files'[e][j] = chunk
          BY <1>4, ChunkIsOldOrNew
        <4>3. QED
          BY <1>4, <3>1, <4>1, <4>2 DEF WrittenOnce, ChunksDiffer, HasChunk
      <3>2. QED
        BY <3>1 DEF ChunksDiffer
    <2>2. TailsFollowHeads'
      <3>1. ASSUME NEW d \in Days, NEW i \in 1..Len(files'[d]), files'[d][i][2] = "tail"
            PROVE  1 < i /\ files'[d][i - 1] = FirstHalf(files'[d][i][1])
        <4>1. CASE i \in 1..Len(files[d]) /\ files'[d][i] = files[d][i]
          <5>1. 1 < i /\ files[d][i - 1] = FirstHalf(files[d][i][1])
            BY <3>1, <4>1 DEF WrittenOnce, TailsFollowHeads
          <5>2. i - 1 \in 1..Len(files[d])
            BY <1>3, <4>1, <5>1
          <5>3. files'[d][i - 1] = files[d][i - 1]
            BY <1>4, <5>2, AppendEffect
          <5>4. QED
            BY <4>1, <5>1, <5>3
        <4>2. CASE d = rec[w].day /\ i = Len(files[d]) + 1 /\ files'[d][i] = chunk
          <5>1. chunk = SecondHalf(rec[w].id) /\ WriteTail(w)
            BY <1>4, <3>1, <4>2 DEF FirstHalf
          <5>2. LastIs(rec[w].day, <<FirstHalf(rec[w].id)>>)
            BY <5>1 DEF LogInv, WriterOK, WriteTail
          <5>3. 1 <= Len(files[d]) /\ files[d][Len(files[d])] = FirstHalf(rec[w].id)
            BY <1>3, <4>2, <5>2 DEF LastIs
          <5>4. Len(files[d]) \in 1..Len(files[d]) /\ i - 1 = Len(files[d]) /\ 1 < i
            BY <1>3, <4>2, <5>3
          <5>5. files'[d][Len(files[d])] = files[d][Len(files[d])]
            BY <1>4, <5>4, AppendEffect
          <5>6. QED
            BY <1>4, <4>2, <5>3, <5>4, <5>5
        <4>3. QED
          BY <1>4, <4>1, <4>2, ChunkIsOldOrNew
      <3>2. QED
        BY <3>1 DEF TailsFollowHeads, FirstHalf
    <2>3. ChunksAreOld'
      BY <1>1, <1>4, ChunkIsOldOrNew DEF WrittenOnce, ChunksAreOld, PendingIsNew
    <2>4. ASSUME NEW v \in Writers, NEW other, ~HasChunk(other), chunk # other
          PROVE  \A d \in Days : \A i \in 1..Len(files'[d]) : files'[d][i] # other
      BY <1>4, <2>4, ChunkIsOldOrNew DEF HasChunk
    <2>5. ASSUME NEW v \in Writers
          PROVE  /\ pc'[v] \in Pending =>
                      rec'[v].id < nextRec' /\ ~HasChunk(SecondHalf(rec[v].id))'
                 /\ pc'[v] \in BeforeHead => ~HasChunk(FirstHalf(rec[v].id))'
      <3>1. v # w /\ pc'[v] \in Pending => rec[v].id # rec[w].id
        BY <1>1 DEF WrittenOnce, PendingDiffer
      <3>2. pc'[v] \in Pending => chunk # SecondHalf(rec[v].id)
        BY <1>1, <1>4, <3>1 DEF FirstHalf, SecondHalf
      <3>3. pc'[v] \in BeforeHead => chunk # FirstHalf(rec[v].id) /\ pc'[v] \in Pending
        BY <1>1, <1>4, <3>1 DEF FirstHalf, SecondHalf, Pending
      <3>4. /\ pc'[v] \in Pending => rec[v].id < nextRec /\ ~HasChunk(SecondHalf(rec[v].id))
            /\ pc'[v] \in BeforeHead => ~HasChunk(FirstHalf(rec[v].id))
        BY <1>1 DEF WrittenOnce, PendingIsNew
      <3>5. QED
        BY <1>1, <2>4, <3>2, <3>3, <3>4 DEF HasChunk, FirstHalf, SecondHalf
    <2>6. PendingDiffer'
      BY <1>1 DEF WrittenOnce, PendingDiffer
    <2>7. QED
      BY <2>1, <2>2, <2>3, <2>5, <2>6 DEF WrittenOnce, PendingIsNew
  <1>5. /\ WriteHead(w) => ~HasChunk(FirstHalf(rec[w].id))
        /\ WriteTail(w) => ~HasChunk(SecondHalf(rec[w].id))
    BY DEF WriteHead, WriteTail, WrittenOnce, PendingIsNew, Pending, BeforeHead
  <1>6. FirstHalf(rec[w].id)[1] = rec[w].id /\ SecondHalf(rec[w].id)[1] = rec[w].id
    BY DEF FirstHalf, SecondHalf
  <1>7. \/ UNCHANGED files
        \/ AppendChunk(w, FirstHalf(rec[w].id)) /\ WriteHead(w)
        \/ AppendChunk(w, SecondHalf(rec[w].id)) /\ WriteTail(w)
    BY DEF WriteHead, WriteTail
  <1>8. QED
    BY <1>2, <1>3, <1>4, <1>5, <1>6, <1>7

\* What is left after the end of the process was there before.
LEMMA CrashCuts ==
  ASSUME TypeOK, Crash, NEW d \in Days
  PROVE  /\ Len(files'[d]) \in Nat /\ Len(files'[d]) <= Len(files[d])
         /\ \A i \in 1..Len(files'[d]) : files'[d][i] = files[d][i]
  <1>1. PICK keep \in [Days -> Nat] :
          /\ \A e \in Days : durable[e] <= keep[e] /\ keep[e] <= Len(files[e])
          /\ files' = [e \in Days |-> SubSeq(files[e], 1, keep[e])]
    BY LengthsAreNat DEF Crash
  <1>2. files[d] \in Seq(Chunks) /\ keep[d] \in Nat /\ keep[d] <= Len(files[d])
    BY <1>1 DEF TypeOK
  <1>3. /\ Len(SubSeq(files[d], 1, keep[d])) = keep[d]
        /\ \A i \in 1..keep[d] : SubSeq(files[d], 1, keep[d])[i] = files[d][i]
    BY <1>2
  <1>4. QED
    BY <1>1, <1>2, <1>3

\* No step writes a record twice.
LEMMA NextWrittenOnce ==
  TypeOK /\ TypeOK' /\ LogInv /\ WrittenOnce /\ [Next]_vars => WrittenOnce'
  <1> SUFFICES ASSUME TypeOK, TypeOK', LogInv, WrittenOnce, [Next]_vars PROVE WrittenOnce'
    OBVIOUS
  <1> USE RolesAreProcs DEF onDisk, env
  <1>1. ASSUME NEW p \in Procs, LockIO(p) PROVE WrittenOnce'
    BY <1>1, OnceFrame DEF LockIO, Goto, TypeOK, Pending, BeforeHead
  <1>2. ASSUME NEW w \in Writers, WriteOpen(w) \/ WriteSync(w) \/ WriteClose(w) \/ WriteSettle(w)
        PROVE  WrittenOnce'
    <2>1. UNCHANGED <<files, rec, nextRec>>
      BY <1>2 DEF WriteOpen, WriteSync, WriteClose, WriteSettle
    <2>2. \A v \in Writers : /\ pc'[v] \in Pending => pc[v] \in Pending
                             /\ pc'[v] \in BeforeHead => pc[v] \in BeforeHead
      BY <1>2 DEF WriteOpen, WriteSync, WriteClose, WriteSettle, UnlockTo, Goto, TypeOK, Pending, BeforeHead
    <2>3. QED
      BY <2>1, <2>2, OnceFrame
  <1>3. ASSUME NEW x \in Exporters, BeginExportZIP(x) \/ ExportStep(x) PROVE WrittenOnce'
    <2>1. UNCHANGED <<files, rec, nextRec>>
      BY <1>3 DEF BeginExportZIP, ExportStep, ExportList, ExportCopy, ExportSettle
    <2>2. \A v \in Writers : /\ pc'[v] \in Pending => pc[v] \in Pending
                             /\ pc'[v] \in BeforeHead => pc[v] \in BeforeHead
      BY <1>3 DEF BeginExportZIP, ExportStep, ExportList, ExportCopy, ExportSettle, UnlockTo, Goto,
         TypeOK, Pending, BeforeHead
    <2>3. QED
      BY <2>1, <2>2, OnceFrame
  <1>4. ASSUME NEW p \in Checkers \cup {Main}, ProbeStep(p) PROVE WrittenOnce'
    <2>1. UNCHANGED <<files, rec, nextRec>>
      BY <1>4 DEF ProbeStep, ProbeOpen, ProbeWrite, ProbeRemove, ProbeUnlock
    <2>2. \A v \in Writers : /\ pc'[v] \in Pending => pc[v] \in Pending
                             /\ pc'[v] \in BeforeHead => pc[v] \in BeforeHead
      BY <1>4 DEF ProbeStep, ProbeOpen, ProbeWrite, ProbeRemove, ProbeUnlock, AfterProbe, UnlockTo,
         Goto, TypeOK, Pending, BeforeHead
    <2>3. QED
      BY <2>1, <2>2, OnceFrame
  <1>5. ASSUME NEW c \in Checkers, BeginHealth(c) \/ HealthStep(c) PROVE WrittenOnce'
    <2>1. UNCHANGED <<files, rec, nextRec>>
      BY <1>5 DEF BeginHealth, HealthStep, HealthDirCheck, HealthMarkDir, HealthHasDegraded,
         HealthMarkWrite, HealthReplyUnhealthy, HealthClear
    <2>2. \A v \in Writers : /\ pc'[v] \in Pending => pc[v] \in Pending
                             /\ pc'[v] \in BeforeHead => pc[v] \in BeforeHead
      BY <1>5 DEF BeginHealth, HealthStep, HealthDirCheck, HealthMarkDir, HealthHasDegraded,
         HealthMarkWrite, HealthReplyUnhealthy, HealthClear, Goto, TypeOK, Pending, BeforeHead
    <2>3. QED
      BY <2>1, <2>2, OnceFrame
  <1>6. CASE StartupStep
    BY <1>6, OnceFrame DEF StartupStep, StartProcess, StartupDirCheck, StartupClear, Goto, TypeOK, Pending, BeforeHead
  <1>7. CASE Crash
    <2>1. \A w \in Writers : pc'[w] \notin Pending
      BY <1>7 DEF Crash, Pending, BeforeHead
    <2>2. \A d \in Days : \A i \in 1..Len(files'[d]) :
            i \in 1..Len(files[d]) /\ files'[d][i] = files[d][i]
      BY <1>7, CrashCuts DEF TypeOK
    <2>3. nextRec' = nextRec
      BY <1>7 DEF Crash
    <2>4. ChunksDiffer' /\ ChunksAreOld'
      BY <2>2, <2>3 DEF WrittenOnce, ChunksDiffer, ChunksAreOld
    <2>5. TailsFollowHeads'
      <3>1. ASSUME NEW d \in Days, NEW i \in 1..Len(files'[d]), files'[d][i][2] = "tail"
            PROVE  1 < i /\ files'[d][i - 1] = FirstHalf(files'[d][i][1])
        <4>1. 1 < i /\ files[d][i - 1] = FirstHalf(files[d][i][1])
          BY <2>2, <3>1 DEF WrittenOnce, TailsFollowHeads
        <4>2. i - 1 \in 1..Len(files'[d])
          BY <1>7, <4>1, CrashCuts
        <4>3. QED
          BY <2>2, <4>1, <4>2
      <3>2. QED
        BY <3>1 DEF TailsFollowHeads, FirstHalf
    <2>6. QED
      BY <2>1, <2>4, <2>5 DEF WrittenOnce, PendingIsNew, PendingDiffer, BeforeHead, Pending
  <1>8. CASE DayPasses \/ DiskFails \/ DiskHeals \/ UNCHANGED vars
    BY <1>8, OnceFrame DEF DayPasses, DiskFails, DiskHeals, vars, calls
  <1>9. QED
    BY <1>1, <1>2, <1>3, <1>4, <1>5, <1>6, <1>7, <1>8, BeginIsNew, WriteIsNew DEF Next, WriteStep

\* In the beginning nothing is written.
LEMMA InitWrittenOnce == Init => WrittenOnce
  BY RolesAreProcs, RolesAreDisjoint
  DEF Init, WrittenOnce, ChunksDiffer, TailsFollowHeads, ChunksAreOld, PendingIsNew, PendingDiffer,
    HasChunk, BeforeHead, Pending, Threads

\* No record is ever written twice.
LEMMA RecordsAreWrittenOnce == Spec => []WrittenOnce
  BY InitTypeOK, NextTypeOK, LogInvariant, InitWrittenOnce, NextWrittenOnce, PTL DEF Spec

\* What stands before an acknowledged record in its file is the end of a line,
\* or half of a record whose write was not acknowledged.
LEMMA AckedFollowsFromParts ==
  TypeOK /\ LogInv /\ WrittenOnce => AckedAreDurable
  <1> SUFFICES ASSUME TypeOK, LogInv, WrittenOnce, NEW r \in acked
               PROVE  \E d \in Days : \E i \in 1..Len(files[d]) :
                        /\ TextAt(r, d, i)
                        /\ i < durable[d]
                        /\ \/ StartsLine(d, i)
                           \/ \E q \in Records \ acked : files[d][i - 1] = FirstHalf(q)
    BY DEF AckedAreDurable
  <1>1. PICK d \in Days : \E i \in 1..Len(files[d]) : LineAt(r, d, i)
    BY DEF LogInv, DurableLine
  <1>2. PICK i \in 1..Len(files[d]) : LineAt(r, d, i)
    BY <1>1
  <1>3. files[d] \in Seq(Chunks) /\ Len(files[d]) \in Nat /\ durable[d] \in Nat /\ durable[d] <= Len(files[d])
    BY DEF TypeOK, LogInv, DurableIsPrefix
  <1>4. TextAt(r, d, i)
    BY <1>2, <1>3 DEF TextAt, LineAt
  <1>5. CASE i # 1 /\ files[d][i - 1][2] # "tail"
    <2>1. i - 1 \in 1..Len(files[d]) /\ (i - 1) + 1 = i
      BY <1>3, <1>5
    <2>2. files[d][i - 1] \in Chunks
      BY <1>3, <2>1
    <2>3. PICK q \in Records : files[d][i - 1] = FirstHalf(q)
      BY <1>5, <2>2 DEF Chunks, FirstHalf
    <2>4. ASSUME q \in acked PROVE FALSE
      <3>1. PICK e \in Days : \E j \in 1..Len(files[e]) : LineAt(q, e, j)
        BY <2>4 DEF LogInv, DurableLine
      <3>2. PICK j \in 1..Len(files[e]) : LineAt(q, e, j)
        BY <3>1
      <3>3. e = d /\ j = i - 1
        BY <2>1, <2>3, <3>2 DEF LineAt, WrittenOnce, ChunksDiffer
      <3>4. files[d][i] = SecondHalf(q) /\ files[d][i] = FirstHalf(r)
        BY <1>2, <2>1, <3>2, <3>3 DEF LineAt
      <3>5. QED
        BY <3>4 DEF FirstHalf, SecondHalf
    <2>5. QED
      BY <1>2, <1>4, <2>3, <2>4 DEF LineAt
  <1>6. QED
    BY <1>2, <1>4, <1>5 DEF LineAt, StartsLine

\* A failure record that WriteFailure reported as stored stays in the log in full
\* and on the disk, whatever is written, exported, probed or killed; and the only
\* thing that can stand on its line is the half of a record whose write failed.
THEOREM AcknowledgedRecordsAreDurable == Spec => []AckedAreDurable
  BY TypeCorrect, LogInvariant, RecordsAreWrittenOnce, AckedFollowsFromParts, PTL

-----------------------------------------------------------------------------
(* The whole invariant, and what it says about steps. *)

\* The inductive invariant that the runs check holds in every instance.
THEOREM StoreInvariant == Spec => []StoreInv
  BY TypeCorrect, MutualExclusion, ProbesCleanUp, LogInvariant, ExportInvariant,
     RecordsAreWrittenOnce, AcknowledgedRecordsAreDurable, LogInvIsProgress, ExportInvIsBoth,
     PTL DEF StoreInv

\* A crash is the only step that shortens a file, and no step touches what has
\* reached the disk.
THEOREM LogsGrow == Spec => LogsOnlyGrow
  <1> DEFINE Grows(d) ==
               /\ pc'[Main] # "down" => Len(files[d]) <= Len(files'[d])
               /\ durable[d] <= Len(files'[d])
               /\ \A i \in 1..durable[d] : files'[d][i] = files[d][i]
  <1>1. ASSUME StoreInv, [Next]_vars PROVE \A d \in Days : Grows(d)
    <2> USE <1>1 DEF store, onDisk, env, history
    <2>1. TypeOK /\ DurableIsPrefix
      BY DEF StoreInv
    <2>2. \A d \in Days : Len(files[d]) \in Nat /\ durable[d] \in Nat
      BY <2>1 DEF TypeOK
    <2>3. ASSUME UNCHANGED files PROVE \A d \in Days : Grows(d)
      BY <2>1, <2>2, <2>3 DEF DurableIsPrefix
    <2>4. ASSUME NEW w \in Writers, WriteHead(w) \/ WriteTail(w)
          PROVE  \A d \in Days : Grows(d)
      <3>1. FirstHalf(rec[w].id) \in Chunks /\ SecondHalf(rec[w].id) \in Chunks
        BY <2>1 DEF FirstHalf, SecondHalf, Chunks, TypeOK, RecordInfo
      <3>2. CASE UNCHANGED files
        BY <2>3, <3>2
      <3>3. CASE ~UNCHANGED files
        <4>1. AppendChunk(w, FirstHalf(rec[w].id)) \/ AppendChunk(w, SecondHalf(rec[w].id))
          BY <2>4, <3>3 DEF WriteHead, WriteTail
        <4>2. /\ \A e \in Days : \A i \in 1..Len(files[e]) : files'[e][i] = files[e][i]
              /\ \A e \in Days : Len(files[e]) <= Len(files'[e])
          BY <2>1, <3>1, <4>1, AppendEffect
        <4>3. \A e \in Days : Len(files'[e]) \in Nat
          BY <2>1, NextTypeOK DEF TypeOK
        <4>4. QED
          BY <2>1, <2>2, <4>2, <4>3 DEF DurableIsPrefix
      <3>4. QED
        BY <3>2, <3>3
    <2>5. ASSUME Crash PROVE \A d \in Days : Grows(d)
      <3>1. PICK keep \in [Days -> Nat] :
              /\ \A d \in Days : durable[d] <= keep[d] /\ keep[d] <= Len(files[d])
              /\ files' = [d \in Days |-> SubSeq(files[d], 1, keep[d])]
        BY <2>5, LengthsAreNat DEF Crash
      <3>2. ASSUME NEW d \in Days
            PROVE  /\ Len(files'[d]) = keep[d] /\ keep[d] \in Nat
                   /\ \A i \in 1..keep[d] : files'[d][i] = files[d][i]
        <4>1. files[d] \in Seq(Chunks) /\ keep[d] \in Nat /\ keep[d] <= Len(files[d])
          BY <2>1, <3>1, BoundsArePositive DEF TypeOK
        <4>2. /\ Len(SubSeq(files[d], 1, keep[d])) = keep[d]
              /\ \A i \in 1..keep[d] : SubSeq(files[d], 1, keep[d])[i] = files[d][i]
          BY <4>1
        <4>3. QED
          BY <3>1, <4>1, <4>2
      <3>3. pc'[Main] = "down"
        BY <2>5, RolesAreProcs DEF Crash
      <3>4. QED
        BY <2>2, <3>1, <3>2, <3>3
    <2>6. ASSUME NEW w \in Writers, WriteStep(w), ~WriteHead(w), ~WriteTail(w)
          PROVE  UNCHANGED files
      BY <2>6 DEF WriteStep, WriteOpen, WriteSync, WriteClose, WriteSettle
    <2>7. ASSUME NEW p \in Procs, LockIO(p) PROVE UNCHANGED files
      BY <2>7 DEF LockIO
    <2>8. ASSUME NEW w \in Writers, BeginWriteFailure(w) PROVE UNCHANGED files
      BY <2>8 DEF BeginWriteFailure
    <2>9. ASSUME NEW x \in Exporters, BeginExportZIP(x) \/ ExportStep(x) PROVE UNCHANGED files
      BY <2>9 DEF BeginExportZIP, ExportStep, ExportList, ExportCopy, ExportSettle
    <2>10. ASSUME NEW p \in Checkers \cup {Main}, ProbeStep(p) PROVE UNCHANGED files
      BY <2>10 DEF ProbeStep, ProbeOpen, ProbeWrite, ProbeRemove, ProbeUnlock
    <2>11. ASSUME NEW c \in Checkers, BeginHealth(c) \/ HealthStep(c) PROVE UNCHANGED files
      BY <2>11 DEF BeginHealth, HealthStep, HealthDirCheck, HealthMarkDir,
        HealthHasDegraded, HealthMarkWrite, HealthReplyUnhealthy, HealthClear
    <2>12. ASSUME StartupStep \/ DayPasses \/ DiskFails \/ DiskHeals \/ UNCHANGED vars
           PROVE  UNCHANGED files
      BY <2>12 DEF StartupStep, StartProcess, StartupDirCheck, StartupClear, DayPasses,
        DiskFails, DiskHeals, vars
    <2>13. QED
      BY <2>3, <2>4, <2>5, <2>6, <2>7, <2>8, <2>9, <2>10, <2>11, <2>12 DEF Next
  <1>2. StoreInv /\ [Next]_vars => [\A d \in Days : Grows(d)]_vars
    BY <1>1
  <1>3. QED
    BY <1>2, StoreInvariant, PTL DEF Spec, LogsOnlyGrow

\* Only a success of the operation that had failed, a probe that succeeded, or
\* the end of the process ends a degradation.
THEOREM RecoveryIsEarned == Spec => DegradationEndsByRecovery
  <1> DEFINE Earned == degradedOp # NoOp /\ degradedOp' = NoOp =>
               \/ pc'[Main] = "down"
               \/ \E p \in Procs : Recovery(p) /\ pc'[p] # pc[p]
  <1>1. ASSUME TypeOK, [Next]_vars PROVE Earned
    <2> USE <1>1, RolesAreProcs DEF store, onDisk, env, history
    <2>1. ASSUME NEW w \in Writers, WriteSettle(w) PROVE Earned
      BY <2>1 DEF WriteSettle, UnlockTo, TypeOK, Recovery, clearDegradedIf, markDegraded,
        WriteOp, NoOp
    <2>2. ASSUME NEW x \in Exporters, ExportSettle(x) PROVE Earned
      BY <2>2 DEF ExportSettle, UnlockTo, TypeOK, Recovery, clearDegradedIf, markDegraded,
        ExportOp, NoOp
    <2>3. ASSUME NEW c \in Checkers, HealthMarkDir(c) \/ HealthMarkWrite(c) PROVE Earned
      BY <2>3 DEF HealthMarkDir, HealthMarkWrite, markDegraded, WriteOp, DirCheck, NoOp
    <2>4. ASSUME NEW c \in Checkers, HealthClear(c) PROVE Earned
      BY <2>4 DEF HealthClear, Goto, TypeOK, Recovery
    <2>5. CASE StartupClear
      BY <2>5 DEF StartupClear, Goto, TypeOK, Recovery
    <2>6. CASE Crash
      BY <2>6 DEF Crash
    <2>7. ASSUME UNCHANGED degradedOp PROVE Earned
      BY <2>7
    <2>8. ASSUME NEW p \in Procs, LockIO(p) PROVE UNCHANGED degradedOp
      BY <2>8 DEF LockIO
    <2>9. ASSUME NEW w \in Writers, BeginWriteFailure(w) \/ WriteStep(w), ~WriteSettle(w)
          PROVE  UNCHANGED degradedOp
      BY <2>9 DEF BeginWriteFailure, WriteStep, WriteOpen, WriteHead, WriteTail, WriteSync,
        WriteClose
    <2>10. ASSUME NEW x \in Exporters, BeginExportZIP(x) \/ ExportStep(x), ~ExportSettle(x)
           PROVE  UNCHANGED degradedOp
      BY <2>10 DEF BeginExportZIP, ExportStep, ExportList, ExportCopy
    <2>11. ASSUME NEW p \in Checkers \cup {Main}, ProbeStep(p) PROVE UNCHANGED degradedOp
      BY <2>11 DEF ProbeStep, ProbeOpen, ProbeWrite, ProbeRemove, ProbeUnlock
    <2>12. ASSUME NEW c \in Checkers,
                  \/ BeginHealth(c) \/ HealthDirCheck(c) \/ HealthHasDegraded(c)
                  \/ HealthReplyUnhealthy(c)
           PROVE  UNCHANGED degradedOp
      BY <2>12 DEF BeginHealth, HealthDirCheck, HealthHasDegraded, HealthReplyUnhealthy
    <2>13. ASSUME \/ StartProcess \/ StartupDirCheck \/ DayPasses \/ DiskFails
                  \/ DiskHeals \/ UNCHANGED vars
           PROVE  UNCHANGED degradedOp
      BY <2>13 DEF StartProcess, StartupDirCheck, DayPasses, DiskFails, DiskHeals, vars
    <2>14. QED
      BY <2>1, <2>2, <2>3, <2>4, <2>5, <2>6, <2>7, <2>8, <2>9, <2>10, <2>11, <2>12, <2>13
      DEF Next, HealthStep, StartupStep
  <1>2. TypeOK /\ [Next]_vars => [Earned]_vars
    BY <1>1
  <1>3. QED
    BY <1>2, TypeCorrect, PTL DEF Spec, DegradationEndsByRecovery
=============================================================================
