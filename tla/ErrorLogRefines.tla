-------------------------- MODULE ErrorLogRefines --------------------------
(* The store of ErrorLog implements the log of FailureLog. *)
EXTENDS ErrorLogProps

RecordAt(d, i) == files[d][i][1]

\* Where records are written in full, and the records of the chunks of a half.
Whole(d) == {i \in 1..Len(files[d]) - 1 : files[d][i + 1] = SecondHalf(RecordAt(d, i))}
RecordsOf(half) ==
  UNION {{RecordAt(d, i) : i \in {j \in 1..Len(files[d]) : files[d][j][2] = half}} : d \in Days}

\* What a reader of the daily files finds who takes them line by line, and the
\* records behind others whose line was left open.
Readable == UNION {{RecordAt(d, i) : i \in {j \in Whole(d) : StartsLine(d, j)}} : d \in Days}
Glued == UNION {{<<RecordAt(d, i - 1), RecordAt(d, i)>> :
                   i \in {j \in Whole(d) : ~StartsLine(d, j)}} : d \in Days}

\* The records cut short, whose second half nobody is about to write.
BeingWritten == {rec[w].id : w \in {v \in Writers : pc[v] = "w_tail"}}
CutShort == RecordsOf("head") \ (RecordsOf("tail") \cup BeingWritten)

Log == INSTANCE FailureLog WITH
  Record <- Records,
  None <- NoOp,
  WriteFailed <- WriteOp,
  Reasons <- DegradedOps \ {NoOp},
  stored <- Readable,
  torn <- CutShort,
  glued <- Glued,
  degraded <- degradedOp

\* Seen from outside, every behaviour of the store is one of the abstract log:
\* a record is there in full before WriteFailure returns nil and stays so through
\* every later call and crash, a reader of lines finds it unless it is glued to
\* a record that was cut short, of which each spoils one line at most, and the
\* degradation changes only as a call fails, recovers or the process ends.
ImplementsFailureLog == Log!LogSpec
=============================================================================
