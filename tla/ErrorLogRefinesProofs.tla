------------------------ MODULE ErrorLogRefinesProofs ------------------------
(***************************************************************************)
(* The error-log store implements the log its callers see, for any number  *)
(* of goroutines, records and days.                                        *)
(***************************************************************************)
EXTENDS ErrorLogRefines, ErrorLogProofs

-----------------------------------------------------------------------------
(* What the mapped variables say about the files.                          *)

\* Members of the mapped sets, place by place.
LEMMA ReadableAt ==
  \A r : r \in Readable <=>
    \E d \in Days : \E i \in Whole(d) : StartsLine(d, i) /\ r = RecordAt(d, i)
  BY DEF Readable

\* The places of the glued records.
LEMMA GluedAt ==
  \A g : g \in Glued <=>
    \E d \in Days : \E i \in Whole(d) :
      ~StartsLine(d, i) /\ g = <<RecordAt(d, i - 1), RecordAt(d, i)>>
  BY DEF Glued

\* The places of the halves of records.
LEMMA RecordsOfAt ==
  \A half, r : r \in RecordsOf(half) <=>
    \E d \in Days : \E i \in 1..Len(files[d]) : files[d][i][2] = half /\ r = RecordAt(d, i)
  BY DEF RecordsOf

\* The files hold lists of halves, each with its record.
LEMMA ChunksOfFiles ==
  ASSUME TypeOK, NEW d \in Days
  PROVE  /\ Len(files[d]) \in Nat
         /\ \A i \in 1..Len(files[d]) :
              /\ files[d][i] = <<RecordAt(d, i), files[d][i][2]>>
              /\ RecordAt(d, i) \in Records
              /\ files[d][i][2] \in {"head", "tail"}
  <1>1. files[d] \in Seq(Chunks)
    BY DEF TypeOK
  <1>2. \A i \in 1..Len(files[d]) : files[d][i] \in Chunks
    BY <1>1
  <1>3. QED
    BY <1>1, <1>2 DEF Chunks, RecordAt

\* Where a record is in full its two halves are next to each other.
LEMMA WholeHasHalves ==
  ASSUME TypeOK, TailsFollowHeads, NEW d \in Days, NEW i \in Whole(d)
  PROVE  /\ i \in 1..Len(files[d]) /\ i + 1 \in 1..Len(files[d])
         /\ RecordAt(d, i) \in Records
         /\ files[d][i] = FirstHalf(RecordAt(d, i))
         /\ files[d][i + 1] = SecondHalf(RecordAt(d, i))
  <1>1. Len(files[d]) \in Nat
    BY ChunksOfFiles
  <1>2. /\ i \in 1..Len(files[d]) - 1
        /\ files[d][i + 1] = SecondHalf(RecordAt(d, i))
    BY DEF Whole
  <1>3. i \in 1..Len(files[d]) /\ i + 1 \in 1..Len(files[d]) /\ (i + 1) - 1 = i
    BY <1>1, <1>2
  <1>4. files[d][i] = FirstHalf(RecordAt(d, i))
    BY <1>2, <1>3 DEF TailsFollowHeads, SecondHalf
  <1>5. QED
    BY <1>2, <1>3, <1>4, ChunksOfFiles

\* A record is in the log in full when its second half is.
LEMMA WrittenAreTails ==
  ASSUME TypeOK, TailsFollowHeads
  PROVE  Log!Written = RecordsOf("tail")
  <1>1. ASSUME NEW r \in Log!Written PROVE r \in RecordsOf("tail")
    <2>1. \E d \in Days : \E i \in Whole(d) : r = RecordAt(d, i)
      <3>1. CASE r \in Readable
        BY <3>1, ReadableAt
      <3>2. ASSUME NEW g \in Glued, r = g[2] PROVE \E d \in Days : \E i \in Whole(d) : r = RecordAt(d, i)
        BY <3>2, GluedAt
      <3>3. QED
        BY <3>1, <3>2 DEF Log!Written
    <2>2. PICK d \in Days : \E i \in Whole(d) : r = RecordAt(d, i)
      BY <2>1
    <2>3. PICK i \in Whole(d) : r = RecordAt(d, i)
      BY <2>2
    <2>4. /\ i + 1 \in 1..Len(files[d])
          /\ files[d][i + 1][2] = "tail" /\ RecordAt(d, i + 1) = r
      BY <2>3, WholeHasHalves DEF SecondHalf, RecordAt
    <2>5. QED
      BY <2>4, RecordsOfAt
  <1>2. ASSUME NEW r \in RecordsOf("tail") PROVE r \in Log!Written
    <2>1. PICK d \in Days : \E i \in 1..Len(files[d]) : files[d][i][2] = "tail" /\ r = RecordAt(d, i)
      BY RecordsOfAt
    <2>2. PICK i \in 1..Len(files[d]) : files[d][i][2] = "tail" /\ r = RecordAt(d, i)
      BY <2>1
    <2>3. 1 < i /\ files[d][i - 1] = FirstHalf(r) /\ files[d][i] = SecondHalf(r)
      BY <2>2, ChunksOfFiles DEF TailsFollowHeads, RecordAt, SecondHalf
    <2>4. i - 1 \in 1..Len(files[d]) - 1 /\ (i - 1) + 1 = i
      BY <2>2, <2>3, ChunksOfFiles
    <2>5. RecordAt(d, i - 1) = r
      BY <2>3 DEF RecordAt, FirstHalf
    <2>6. i - 1 \in Whole(d)
      BY <2>3, <2>4, <2>5 DEF Whole
    <2>7. CASE StartsLine(d, i - 1)
      <3>1. r \in Readable
        BY <2>5, <2>6, <2>7, ReadableAt
      <3>2. QED
        BY <3>1 DEF Log!Written
    <2>8. CASE ~StartsLine(d, i - 1)
      <3>1. <<RecordAt(d, (i - 1) - 1), r>> \in Glued
        BY <2>5, <2>6, <2>8, GluedAt
      <3>2. QED
        BY <3>1 DEF Log!Written
    <2>9. QED
      BY <2>7, <2>8
  <1>3. QED
    BY <1>1, <1>2

\* A chunk is in one place.
LEMMA OnePlace ==
  ASSUME WrittenOnce, NEW d \in Days, NEW i \in 1..Len(files[d]),
         NEW e \in Days, NEW j \in 1..Len(files[e]), files[d][i] = files[e][j]
  PROVE  d = e /\ i = j
  BY DEF WrittenOnce, ChunksDiffer

\* A record that spoils the next line is cut short: its second half is nowhere.
LEMMA GluedAreTorn ==
  ASSUME TypeOK, WrittenOnce, NEW g \in Glued
  PROVE  /\ g[1] \in Records /\ g[2] \in Records
         /\ g[1] \in RecordsOf("head") /\ g[1] \notin RecordsOf("tail")
         /\ g[2] \in RecordsOf("tail")
  <1>1. TailsFollowHeads /\ ChunksDiffer
    BY DEF WrittenOnce
  <1>2. PICK d \in Days : \E i \in Whole(d) :
          ~StartsLine(d, i) /\ g = <<RecordAt(d, i - 1), RecordAt(d, i)>>
    BY GluedAt
  <1>3. PICK i \in Whole(d) : ~StartsLine(d, i) /\ g = <<RecordAt(d, i - 1), RecordAt(d, i)>>
    BY <1>2
  <1>4. /\ i \in 1..Len(files[d]) /\ i + 1 \in 1..Len(files[d]) /\ g[2] \in Records
        /\ files[d][i] = FirstHalf(g[2]) /\ files[d][i + 1] = SecondHalf(g[2])
    BY <1>1, <1>3, WholeHasHalves
  <1>5. i # 1 /\ files[d][i - 1][2] # "tail"
    BY <1>3 DEF StartsLine
  <1>6. i - 1 \in 1..Len(files[d]) /\ (i - 1) + 1 = i
    BY <1>4, <1>5, ChunksOfFiles
  <1>7. g[1] \in Records /\ files[d][i - 1] = FirstHalf(g[1])
    BY <1>3, <1>5, <1>6, ChunksOfFiles DEF FirstHalf
  <1>8. ASSUME g[1] \in RecordsOf("tail") PROVE FALSE
    <2>1. PICK e \in Days : \E j \in 1..Len(files[e]) : files[e][j][2] = "tail" /\ g[1] = RecordAt(e, j)
      BY <1>8, RecordsOfAt
    <2>2. PICK j \in 1..Len(files[e]) : files[e][j][2] = "tail" /\ g[1] = RecordAt(e, j)
      BY <2>1
    <2>3. 1 < j /\ files[e][j - 1] = FirstHalf(g[1]) /\ files[e][j][2] = "tail"
      BY <1>1, <2>2 DEF TailsFollowHeads, RecordAt
    <2>4. j - 1 \in 1..Len(files[e]) /\ (j - 1) + 1 = j
      BY <2>3, ChunksOfFiles
    <2>5. e = d /\ j - 1 = i - 1
      BY <1>1, <1>6, <1>7, <2>3, <2>4 DEF ChunksDiffer
    <2>6. j = i
      BY <1>6, <2>4, <2>5
    <2>7. QED
      BY <1>4, <2>3, <2>5, <2>6 DEF FirstHalf
  <1>9. g[1] \in RecordsOf("head")
    <2>1. files[d][i - 1][2] = "head" /\ g[1] = RecordAt(d, i - 1)
      BY <1>3, <1>7 DEF FirstHalf
    <2>2. QED
      BY <1>6, <2>1, RecordsOfAt
  <1>10. g[2] \in RecordsOf("tail")
    <2>1. files[d][i + 1][2] = "tail" /\ g[2] = RecordAt(d, i + 1)
      BY <1>4 DEF SecondHalf, RecordAt
    <2>2. QED
      BY <1>4, <2>1, RecordsOfAt
  <1>11. QED
    BY <1>4, <1>7, <1>8, <1>9, <1>10

\* The same as an implication, for the state after a step.
SpoiltByTorn == \A g \in Glued : g[1] \in RecordsOf("head") /\ g[1] \notin RecordsOf("tail")

\* What a record is glued to is a record that was cut short.
LEMMA GluedSpoil == TypeOK /\ WrittenOnce => SpoiltByTorn
  BY GluedAreTorn DEF SpoiltByTorn

\* What WriteFailure reported as stored is there in full.
LEMMA AckedAreTails ==
  ASSUME TypeOK, AckedAreDurable
  PROVE  acked \subseteq RecordsOf("tail")
  <1>1. ASSUME NEW r \in acked PROVE r \in RecordsOf("tail")
    <2>1. PICK d \in Days : \E i \in 1..Len(files[d]) : TextAt(r, d, i)
      BY DEF AckedAreDurable
    <2>2. PICK i \in 1..Len(files[d]) : TextAt(r, d, i)
      BY <2>1
    <2>3. i + 1 \in 1..Len(files[d])
      BY <2>2, ChunksOfFiles DEF TextAt
    <2>4. files[d][i + 1][2] = "tail" /\ r = RecordAt(d, i + 1)
      BY <2>2 DEF TextAt, SecondHalf, RecordAt
    <2>5. QED
      BY <2>3, <2>4, RecordsOfAt
  <1>2. QED
    BY <1>1

-----------------------------------------------------------------------------
(* Every step of the store is a step of the log, or does not show.         *)

\* As long as the files stay and nobody starts or ends the second half of a
\* line, nothing shows.
LEMMA SameLog ==
  UNCHANGED <<files, BeingWritten>> => UNCHANGED <<Readable, CutShort, Glued>>
  <1> SUFFICES ASSUME UNCHANGED <<files, BeingWritten>>
               PROVE  UNCHANGED <<Readable, CutShort, Glued>>
    OBVIOUS
  <1>1. /\ \A d \in Days : Whole(d)' = Whole(d)
        /\ \A d, i : RecordAt(d, i)' = RecordAt(d, i) /\ StartsLine(d, i)' = StartsLine(d, i)
        /\ \A half : RecordsOf(half)' = RecordsOf(half)
    BY DEF Whole, RecordAt, StartsLine, RecordsOf
  <1>2. QED
    BY <1>1 DEF Readable, Glued, CutShort

\* The records being written depend on the counters and the records alone.
LEMMA SameWriters ==
  ASSUME UNCHANGED rec, \A w \in Writers : pc'[w] = "w_tail" <=> pc[w] = "w_tail"
  PROVE  BeingWritten' = BeingWritten
  BY DEF BeingWritten

\* What one more chunk adds: a record in full where it is the second half of the
\* last one, and nothing else.
LEMMA AppendedPlaces ==
  ASSUME TypeOK, NEW w \in Writers, NEW chunk \in Chunks, AppendChunk(w, chunk),
         NEW d \in Days
  PROVE  /\ rec[w].day \in Days /\ Len(files[d]) \in Nat
         /\ \A i \in 1..Len(files[d]) :
              RecordAt(d, i)' = RecordAt(d, i) /\ StartsLine(d, i)' = StartsLine(d, i)
         /\ Whole(d)' = Whole(d) \cup
              {i \in {Len(files[d])} :
                 d = rec[w].day /\ 1 <= i /\ chunk = SecondHalf(RecordAt(d, i))}
  <1>1. rec[w].day \in Days /\ Len(files[d]) \in Nat
    BY ChunksOfFiles DEF TypeOK, RecordInfo
  <1>2. /\ \A i \in 1..Len(files[d]) : files'[d][i] = files[d][i]
        /\ d = rec[w].day => /\ Len(files'[d]) = Len(files[d]) + 1
                             /\ files'[d][Len(files[d]) + 1] = chunk
        /\ d # rec[w].day => files'[d] = files[d]
    <2>1. d # rec[w].day => files'[d] = files[d]
      BY DEF AppendChunk, TypeOK
    <2>2. QED
      BY <1>1, <2>1, AppendEffect
  <1>3. \A i \in 1..Len(files[d]) : RecordAt(d, i)' = RecordAt(d, i)
    BY <1>2 DEF RecordAt
  <1>4. ASSUME NEW i \in 1..Len(files[d]) PROVE StartsLine(d, i)' = StartsLine(d, i)
    <2>1. i # 1 => files'[d][i - 1] = files[d][i - 1]
      BY <1>1, <1>2
    <2>2. QED
      BY <2>1 DEF StartsLine
  <1>5. CASE d # rec[w].day
    <2>1. Whole(d)' = Whole(d)
      BY <1>2, <1>5 DEF Whole, RecordAt, SecondHalf
    <2>2. QED
      BY <1>1, <1>3, <1>4, <1>5, <2>1
  <1>6. CASE d = rec[w].day
    <2>0. PICK n \in Nat : n = Len(files[d])
      BY <1>1
    <2>1. /\ Whole(d) = {i \in 1..n - 1 : files[d][i + 1] = SecondHalf(RecordAt(d, i))}
          /\ Whole(d)' = {i \in 1..n : files'[d][i + 1] = SecondHalf(RecordAt(d, i)')}
      <3>1. Len(files[d]) - 1 = n - 1 /\ Len(files'[d]) - 1 = n
        BY <1>2, <1>6, <2>0
      <3>2. QED
        BY <3>1 DEF Whole, SecondHalf
    <2>2. ASSUME NEW i \in 1..n - 1
          PROVE  i \in 1..n /\ (i \in Whole(d)' <=> i \in Whole(d))
      <3>1. i \in 1..n /\ i + 1 \in 1..n
        BY <2>0
      <3>2. files'[d][i + 1] = files[d][i + 1] /\ RecordAt(d, i)' = RecordAt(d, i)
        BY <1>2, <1>3, <2>0, <3>1
      <3>3. QED
        BY <2>1, <3>1, <3>2
    <2>3. ASSUME 1 <= n
          PROVE  n \in Whole(d)' <=> chunk = SecondHalf(RecordAt(d, n))
      <3>1. n \in 1..n
        BY <2>3
      <3>2. RecordAt(d, n)' = RecordAt(d, n) /\ files'[d][n + 1] = chunk
        BY <1>2, <1>3, <1>6, <2>0, <3>1
      <3>3. QED
        BY <2>1, <3>1, <3>2
    <2>4. Whole(d)' \subseteq 1..n /\ Whole(d) \subseteq 1..n - 1
      BY <2>1
    <2>5. \A i \in 1..n : i \in 1..n - 1 \/ (i = n /\ 1 <= n)
      OBVIOUS
    <2>7. Whole(d)' = Whole(d) \cup {i \in {n} : 1 <= i /\ chunk = SecondHalf(RecordAt(d, i))}
      <3>1. ASSUME NEW i \in Whole(d)'
            PROVE  i \in Whole(d) \/ (i = n /\ 1 <= i /\ chunk = SecondHalf(RecordAt(d, i)))
        BY <2>2, <2>3, <2>4, <2>5, <3>1
      <3>2. Whole(d) \subseteq Whole(d)'
        BY <2>2, <2>4
      <3>3. 1 <= n /\ chunk = SecondHalf(RecordAt(d, n)) => n \in Whole(d)'
        BY <2>3
      <3>4. QED
        BY <3>1, <3>2, <3>3
    <2>8. QED
      BY <1>1, <1>3, <1>4, <1>6, <2>0, <2>7
  <1>7. QED
    BY <1>1, <1>3, <1>4, <1>5, <1>6

\* The halves of one kind after one more chunk.
LEMMA AppendedRecords ==
  ASSUME TypeOK, NEW w \in Writers, NEW chunk \in Chunks, AppendChunk(w, chunk), NEW half
  PROVE  RecordsOf(half)' = RecordsOf(half) \cup {r \in {chunk[1]} : chunk[2] = half}
  <1>0. \A r : r \in RecordsOf(half)' <=>
          \E d \in Days : \E i \in 1..Len(files'[d]) : files'[d][i][2] = half /\ r = files'[d][i][1]
    BY DEF RecordsOf, RecordAt
  <1>1. ASSUME NEW r \in RecordsOf(half)'
        PROVE  r \in RecordsOf(half) \/ (r = chunk[1] /\ chunk[2] = half)
    <2>1. PICK d \in Days : \E i \in 1..Len(files'[d]) : files'[d][i][2] = half /\ r = files'[d][i][1]
      BY <1>0
    <2>2. PICK i \in 1..Len(files'[d]) : files'[d][i][2] = half /\ r = files'[d][i][1]
      BY <2>1
    <2>3. \/ i \in 1..Len(files[d]) /\ files'[d][i] = files[d][i]
          \/ files'[d][i] = chunk
      BY ChunkIsOldOrNew
    <2>4. CASE i \in 1..Len(files[d]) /\ files'[d][i] = files[d][i]
      <3>1. files[d][i][2] = half /\ r = RecordAt(d, i)
        BY <2>2, <2>4 DEF RecordAt
      <3>2. QED
        BY <2>4, <3>1, RecordsOfAt
    <2>5. CASE files'[d][i] = chunk
      BY <2>2, <2>5
    <2>6. QED
      BY <2>3, <2>4, <2>5
  <1>2. ASSUME NEW r \in RecordsOf(half) PROVE r \in RecordsOf(half)'
    <2>1. PICK d \in Days : \E i \in 1..Len(files[d]) : files[d][i][2] = half /\ r = RecordAt(d, i)
      BY RecordsOfAt
    <2>2. PICK i \in 1..Len(files[d]) : files[d][i][2] = half /\ r = RecordAt(d, i)
      BY <2>1
    <2>3. files'[d][i] = files[d][i] /\ Len(files[d]) <= Len(files'[d])
      BY AppendEffect
    <2>4. files' \in [Days -> Seq(Chunks)]
      BY DEF AppendChunk, TypeOK, RecordInfo
    <2>5. Len(files[d]) \in Nat /\ Len(files'[d]) \in Nat
      BY <2>4, ChunksOfFiles
    <2>6. i \in 1..Len(files'[d])
      BY <2>3, <2>5
    <2>7. QED
      BY <1>0, <2>2, <2>3, <2>6 DEF RecordAt
  <1>3. ASSUME chunk[2] = half PROVE chunk[1] \in RecordsOf(half)'
    <2>1. /\ rec[w].day \in Days
          /\ Len(files'[rec[w].day]) = Len(files[rec[w].day]) + 1
          /\ files'[rec[w].day][Len(files[rec[w].day]) + 1] = chunk
      BY AppendEffect DEF TypeOK, RecordInfo
    <2>2. Len(files[rec[w].day]) + 1 \in 1..Len(files'[rec[w].day])
      BY <2>1, ChunksOfFiles
    <2>3. QED
      BY <1>0, <1>3, <2>1, <2>2
  <1>4. QED
    BY <1>1, <1>2, <1>3

\* The same for the two halves of a record.
LEMMA AppendedHalves ==
  ASSUME TypeOK, NEW w \in Writers, NEW r \in Records
  PROVE  /\ AppendChunk(w, FirstHalf(r)) =>
              /\ RecordsOf("head")' = RecordsOf("head") \cup {r}
              /\ RecordsOf("tail")' = RecordsOf("tail")
         /\ AppendChunk(w, SecondHalf(r)) =>
              /\ RecordsOf("head")' = RecordsOf("head")
              /\ RecordsOf("tail")' = RecordsOf("tail") \cup {r}
  <1>1. /\ FirstHalf(r) \in Chunks /\ FirstHalf(r)[1] = r /\ FirstHalf(r)[2] = "head"
        /\ SecondHalf(r) \in Chunks /\ SecondHalf(r)[1] = r /\ SecondHalf(r)[2] = "tail"
    BY DEF FirstHalf, SecondHalf, Chunks
  <1>2. ASSUME NEW half, AppendChunk(w, FirstHalf(r))
        PROVE  RecordsOf(half)' = RecordsOf(half) \cup {q \in {FirstHalf(r)[1]} : FirstHalf(r)[2] = half}
    BY <1>1, <1>2, AppendedRecords
  <1>3. ASSUME NEW half, AppendChunk(w, SecondHalf(r))
        PROVE  RecordsOf(half)' = RecordsOf(half) \cup {q \in {SecondHalf(r)[1]} : SecondHalf(r)[2] = half}
    BY <1>1, <1>3, AppendedRecords
  <1>4. ASSUME AppendChunk(w, FirstHalf(r))
        PROVE  /\ RecordsOf("head")' = RecordsOf("head") \cup {r}
               /\ RecordsOf("tail")' = RecordsOf("tail")
    <2>1. /\ RecordsOf("head")' = RecordsOf("head") \cup {q \in {r} : "head" = "head"}
          /\ RecordsOf("tail")' = RecordsOf("tail") \cup {q \in {r} : "head" = "tail"}
      BY <1>1, <1>2, <1>4
    <2>2. QED
      BY <2>1
  <1>5. ASSUME AppendChunk(w, SecondHalf(r))
        PROVE  /\ RecordsOf("head")' = RecordsOf("head")
               /\ RecordsOf("tail")' = RecordsOf("tail") \cup {r}
    <2>1. /\ RecordsOf("head")' = RecordsOf("head") \cup {q \in {r} : "tail" = "head"}
          /\ RecordsOf("tail")' = RecordsOf("tail") \cup {q \in {r} : "tail" = "tail"}
      BY <1>1, <1>3, <1>5
    <2>2. QED
      BY <2>1
  <1>6. QED
    BY <1>4, <1>5

\* In the beginning the store is an empty log.
LEMMA InitIsLogInit == Init => Log!LogInit
  <1> SUFFICES ASSUME Init PROVE Log!LogInit
    OBVIOUS
  <1>1. \A d \in Days : Len(files[d]) = 0 /\ Whole(d) = {}
    BY DEF Init, Whole
  <1>2. Readable = {} /\ Glued = {}
    BY <1>1 DEF Readable, Glued
  <1>3. \A r : r \notin RecordsOf("head")
    BY <1>1, RecordsOfAt
  <1>4. CutShort = {}
    BY <1>3 DEF CutShort
  <1>5. QED
    BY <1>2, <1>4 DEF Init, Log!LogInit

\* The first half of a line does not show.
LEMMA HeadIsHidden ==
  ASSUME TypeOK, WrittenOnce, NEW w \in Writers, WriteHead(w), ~UNCHANGED files
  PROVE  UNCHANGED Log!logVars
  <1>0. PICK r \in Records : r = rec[w].id
    BY DEF TypeOK, RecordInfo
  <1>1. /\ FirstHalf(r) \in Chunks /\ AppendChunk(w, FirstHalf(r)) /\ pc[w] = "w_head"
        /\ UNCHANGED <<rec, acked, degradedOp>>
        /\ pc'[w] = "w_tail" /\ \A v \in Writers \ {w} : pc'[v] = pc[v]
    <2>1. AppendChunk(w, FirstHalf(r)) /\ FirstHalf(r) \in Chunks
      BY <1>0 DEF WriteHead, FirstHalf, Chunks
    <2>2. rec[w].day \in Days /\ Len(files'[rec[w].day]) = Len(files[rec[w].day]) + 1
      BY <2>1, AppendEffect DEF TypeOK, RecordInfo
    <2>3. QED
      BY <1>0, <2>1, RolesAreProcs DEF WriteHead, Goto, TypeOK, history, store
  <1>2. \A d \in Days : Whole(d)' = Whole(d)
    <2>1. \A q : FirstHalf(r) # SecondHalf(q)
      BY DEF FirstHalf, SecondHalf
    <2>2. ASSUME NEW d \in Days PROVE Whole(d)' = Whole(d)
      <3>1. Whole(d)' = Whole(d) \cup
              {i \in {Len(files[d])} :
                 d = rec[w].day /\ 1 <= i /\ FirstHalf(r) = SecondHalf(RecordAt(d, i))}
        BY <1>1, AppendedPlaces
      <3>2. QED
        BY <2>1, <3>1
    <2>3. QED
      BY <2>2
  <1>3. \A d \in Days : \A i \in Whole(d) :
          /\ RecordAt(d, i)' = RecordAt(d, i) /\ StartsLine(d, i)' = StartsLine(d, i)
          /\ ~StartsLine(d, i) => RecordAt(d, i - 1)' = RecordAt(d, i - 1)
    <2>1. ASSUME NEW d \in Days, NEW i \in Whole(d)
          PROVE  i \in 1..Len(files[d]) /\ (i # 1 => i - 1 \in 1..Len(files[d]))
      BY ChunksOfFiles, WholeHasHalves DEF WrittenOnce
    <2>2. QED
      BY <1>1, <2>1, AppendedPlaces DEF StartsLine
  <1>4. Readable' = Readable /\ Glued' = Glued
    BY <1>2, <1>3 DEF Readable, Glued
  <1>5. RecordsOf("head")' = RecordsOf("head") \cup {r} /\ RecordsOf("tail")' = RecordsOf("tail")
    BY <1>1, AppendedHalves
  <1>6. r \notin RecordsOf("head")
    <2>1. \A d \in Days : \A i \in 1..Len(files[d]) : files[d][i] # FirstHalf(r)
      BY <1>0, <1>1 DEF WrittenOnce, PendingIsNew, BeforeHead, HasChunk
    <2>2. QED
      BY <2>1, RecordsOfAt, ChunksOfFiles DEF FirstHalf
  <1>7. BeingWritten' = BeingWritten \cup {r}
    BY <1>0, <1>1 DEF BeingWritten
  <1>8. CutShort' = CutShort
    BY <1>5, <1>6, <1>7 DEF CutShort
  <1>9. QED
    BY <1>1, <1>4, <1>8 DEF Log!logVars

\* The second half makes a record readable, or glues it to one that was cut
\* short.
LEMMA TailIsLogStep ==
  ASSUME TypeOK, WrittenOnce, WriteProgress, NEW w \in Writers, WriteTail(w), ~UNCHANGED files
  PROVE  Log!LogNext
  <1>0. PICK r \in Records, d \in Days, n \in Nat :
          r = rec[w].id /\ d = rec[w].day /\ n = Len(files[d])
    BY ChunksOfFiles DEF TypeOK, RecordInfo
  <1>1. /\ n = Len(files[d]) /\ d = rec[w].day
        /\ SecondHalf(r) \in Chunks /\ AppendChunk(w, SecondHalf(r)) /\ pc[w] = "w_tail"
        /\ UNCHANGED <<rec, acked, degradedOp>>
        /\ pc'[w] = "w_sync" /\ \A v \in Writers \ {w} : pc'[v] = pc[v]
    <2>1. AppendChunk(w, SecondHalf(r)) /\ SecondHalf(r) \in Chunks
      BY <1>0 DEF WriteTail, SecondHalf, Chunks
    <2>2. QED
      BY <1>0, <2>1, RolesAreProcs DEF WriteTail, Goto, TypeOK, history, store
  <1>2. 1 <= n /\ n \in 1..n /\ files[d][n] = FirstHalf(r) /\ RecordAt(d, n) = r
    <2>1. LastIs(d, <<FirstHalf(r)>>)
      BY <1>0, <1>1 DEF WriteProgress
    <2>2. QED
      BY <1>1, <2>1 DEF LastIs, RecordAt, FirstHalf
  <1>3. /\ Whole(d)' = Whole(d) \cup {n}
        /\ \A e \in Days \ {d} : Whole(e)' = Whole(e)
    <2>1. ASSUME NEW e \in Days
          PROVE  Whole(e)' = Whole(e) \cup
                   {i \in {Len(files[e])} :
                      e = d /\ 1 <= i /\ SecondHalf(r) = SecondHalf(RecordAt(e, i))}
      BY <1>1, AppendedPlaces
    <2>2. Whole(d)' = Whole(d) \cup {i \in {n} : 1 <= i /\ SecondHalf(r) = SecondHalf(RecordAt(d, i))}
      BY <1>1, <2>1
    <2>3. Whole(d)' = Whole(d) \cup {n}
      BY <1>2, <2>2
    <2>4. QED
      BY <2>1, <2>3
  <1>4. \A e \in Days : \A i \in Whole(e) \cup {n} :
          i \in 1..Len(files[e]) =>
            /\ RecordAt(e, i)' = RecordAt(e, i) /\ StartsLine(e, i)' = StartsLine(e, i)
            /\ ~StartsLine(e, i) => RecordAt(e, i - 1)' = RecordAt(e, i - 1)
    <2>1. ASSUME NEW e \in Days, NEW i \in 1..Len(files[e])
          PROVE  i # 1 => i - 1 \in 1..Len(files[e])
      BY ChunksOfFiles
    <2>2. QED
      BY <1>1, <2>1, AppendedPlaces DEF StartsLine
  <1>5. \A e \in Days : Whole(e) \subseteq 1..Len(files[e])
    BY WholeHasHalves DEF WrittenOnce
  <1>6. RecordsOf("head")' = RecordsOf("head") /\ RecordsOf("tail")' = RecordsOf("tail") \cup {r}
    BY <1>1, AppendedHalves
  <1>7. r \notin Log!Written
    <2>1. \A e \in Days : \A i \in 1..Len(files[e]) : files[e][i] # SecondHalf(r)
      BY <1>0, <1>1 DEF WrittenOnce, PendingIsNew, Pending, HasChunk
    <2>2. r \notin RecordsOf("tail")
      BY <2>1, RecordsOfAt, ChunksOfFiles DEF SecondHalf
    <2>3. QED
      BY <2>2, WrittenAreTails DEF WrittenOnce
  <1>8. r \in BeingWritten /\ r \notin CutShort
    BY <1>0, <1>1 DEF BeingWritten, CutShort
  <1>9. BeingWritten' = BeingWritten \ {r}
    <2>1. \A v \in Writers \ {w} : pc[v] = "w_tail" => rec[v].id # r
      BY <1>0, <1>1 DEF WrittenOnce, PendingDiffer, Pending
    <2>2. QED
      BY <1>0, <1>1, <2>1 DEF BeingWritten
  <1>10. CutShort' = CutShort
    BY <1>6, <1>8, <1>9 DEF CutShort
  <1>11. CASE StartsLine(d, n)
    <2>1. Readable' = Readable \cup {r}
      BY <1>1, <1>2, <1>3, <1>4, <1>5, <1>11 DEF Readable
    <2>2. Glued' = Glued
      BY <1>1, <1>2, <1>3, <1>4, <1>5, <1>11 DEF Glued
    <2>3. Log!Append(r)
      BY <1>1, <1>7, <1>8, <1>10, <2>1, <2>2 DEF Log!Append
    <2>4. QED
      BY <1>1, <2>3 DEF Log!LogNext
  <1>12. CASE ~StartsLine(d, n)
    <2> DEFINE t == RecordAt(d, n - 1)
    <2>1. n # 1 /\ files[d][n - 1][2] # "tail"
      BY <1>12 DEF StartsLine
    <2>2. n - 1 \in 1..Len(files[d]) /\ (n - 1) + 1 = n
      <3>1. n \in Nat /\ n = Len(files[d]) /\ 1 <= n /\ n # 1
        BY <1>0, <1>2, <2>1
      <3>2. \A m \in Nat : 1 <= m /\ m # 1 => m - 1 \in 1..m /\ (m - 1) + 1 = m
        OBVIOUS
      <3>3. QED
        BY <3>1, <3>2
    <2>3. t \in Records /\ files[d][n - 1] = FirstHalf(t) /\ files[d][n - 1][2] = "head"
      BY <1>1, <2>1, <2>2, ChunksOfFiles DEF FirstHalf
    <2>4. Readable' = Readable
      BY <1>1, <1>2, <1>3, <1>4, <1>5, <1>12 DEF Readable
    <2>5. Glued' = Glued \cup {<<t, r>>}
      <3>1. RecordAt(d, n)' = r /\ ~StartsLine(d, n)' /\ RecordAt(d, n - 1)' = t
        BY <1>0, <1>1, <1>2, <1>4, <1>12
      <3>2. \A g : g \in Glued' <=>
              \E e \in Days : \E i \in Whole(e)' :
                ~StartsLine(e, i)' /\ g = <<RecordAt(e, i - 1)', RecordAt(e, i)'>>
        BY DEF Glued
      <3>3. \A e \in Days : \A i \in Whole(e) :
              /\ RecordAt(e, i)' = RecordAt(e, i) /\ StartsLine(e, i)' = StartsLine(e, i)
              /\ ~StartsLine(e, i) => RecordAt(e, i - 1)' = RecordAt(e, i - 1)
        BY <1>4, <1>5
      <3>4. ASSUME NEW g \in Glued' PROVE g \in Glued \/ g = <<t, r>>
        <4>1. PICK e \in Days : \E i \in Whole(e)' :
                ~StartsLine(e, i)' /\ g = <<RecordAt(e, i - 1)', RecordAt(e, i)'>>
          BY <3>2
        <4>2. PICK i \in Whole(e)' : ~StartsLine(e, i)' /\ g = <<RecordAt(e, i - 1)', RecordAt(e, i)'>>
          BY <4>1
        <4>3. CASE i \in Whole(e)
          BY <3>3, <4>2, <4>3, GluedAt
        <4>4. CASE e = d /\ i = n
          BY <3>1, <4>2, <4>4
        <4>5. QED
          BY <1>3, <4>3, <4>4
      <3>5. ASSUME NEW g \in Glued PROVE g \in Glued'
        <4>1. PICK e \in Days : \E i \in Whole(e) :
                ~StartsLine(e, i) /\ g = <<RecordAt(e, i - 1), RecordAt(e, i)>>
          BY GluedAt
        <4>2. PICK i \in Whole(e) : ~StartsLine(e, i) /\ g = <<RecordAt(e, i - 1), RecordAt(e, i)>>
          BY <4>1
        <4>3. i \in Whole(e)' /\ ~StartsLine(e, i)' /\ g = <<RecordAt(e, i - 1)', RecordAt(e, i)'>>
          BY <1>3, <3>3, <4>2
        <4>4. QED
          BY <3>2, <4>3
      <3>6. <<t, r>> \in Glued'
        BY <1>0, <1>3, <3>1, <3>2
      <3>7. QED
        BY <3>4, <3>5, <3>6
    <2>6. t \in RecordsOf("head")
      BY <1>1, <2>2, <2>3, RecordsOfAt
    <2>7. ASSUME t \in RecordsOf("tail") PROVE FALSE
      <3>1. PICK e \in Days : \E j \in 1..Len(files[e]) : files[e][j][2] = "tail" /\ t = RecordAt(e, j)
        BY <2>7, RecordsOfAt
      <3>2. PICK j \in 1..Len(files[e]) : files[e][j][2] = "tail" /\ t = RecordAt(e, j)
        BY <3>1
      <3>3. 1 < j /\ files[e][j - 1] = FirstHalf(t)
        BY <3>2 DEF WrittenOnce, TailsFollowHeads, RecordAt
      <3>4. j - 1 \in 1..Len(files[e]) /\ (j - 1) + 1 = j
        BY <3>3, ChunksOfFiles
      <3>5. e = d /\ j - 1 = n - 1
        <4>1. files[e][j - 1] = files[d][n - 1]
          BY <2>3, <3>3
        <4>2. d \in Days /\ n - 1 \in 1..Len(files[d]) /\ e \in Days /\ j - 1 \in 1..Len(files[e])
          BY <1>0, <2>2, <3>1, <3>4
        <4>3. QED
          BY <4>1, <4>2, OnePlace
      <3>6. e = d /\ j = n
        BY <2>2, <3>4, <3>5
      <3>7. QED
        BY <1>2, <3>2, <3>6 DEF FirstHalf
    <2>8. t \notin BeingWritten
      <3>1. ASSUME NEW v \in Writers, pc[v] = "w_tail", rec[v].id = t PROVE FALSE
        <4> DEFINE e == rec[v].day  m == Len(files[e])
        <4>1. e \in Days /\ m \in Nat
          BY ChunksOfFiles DEF TypeOK, RecordInfo
        <4>2. LastIs(e, <<FirstHalf(t)>>)
          BY <3>1 DEF WriteProgress
        <4>3. m \in 1..Len(files[e]) /\ files[e][m] = FirstHalf(t)
          BY <4>1, <4>2 DEF LastIs
        <4>4. e = d /\ m = n - 1
          <5>1. files[e][m] = files[d][n - 1]
            BY <2>3, <4>3
          <5>2. d \in Days /\ n - 1 \in 1..Len(files[d]) /\ e \in Days /\ m \in 1..Len(files[e])
            BY <1>0, <2>2, <4>1, <4>3
          <5>3. QED
            BY <5>1, <5>2, OnePlace
        <4>5. QED
          BY <1>1, <4>4
      <3>2. QED
        BY <3>1 DEF BeingWritten
    <2>9. t \in CutShort
      BY <2>6, <2>7, <2>8 DEF CutShort
    <2>10. ASSUME NEW g \in Glued PROVE g[1] # t
      <3>1. PICK e \in Days : \E i \in Whole(e) :
              ~StartsLine(e, i) /\ g = <<RecordAt(e, i - 1), RecordAt(e, i)>>
        BY GluedAt
      <3>2. PICK i \in Whole(e) : ~StartsLine(e, i) /\ g = <<RecordAt(e, i - 1), RecordAt(e, i)>>
        BY <3>1
      <3>3. /\ i \in 1..Len(files[e]) /\ i + 1 \in 1..Len(files[e])
            /\ files[e][i + 1] = SecondHalf(RecordAt(e, i))
        BY <3>2, WholeHasHalves DEF WrittenOnce
      <3>4. i # 1 /\ files[e][i - 1][2] # "tail"
        BY <3>2 DEF StartsLine
      <3>5. i - 1 \in 1..Len(files[e]) /\ (i - 1) + 1 = i
        BY <3>3, <3>4, ChunksOfFiles
      <3>6. files[e][i - 1] = FirstHalf(g[1])
        BY <3>2, <3>4, <3>5, ChunksOfFiles DEF FirstHalf
      <3>7. g[1] = t => e = d /\ i - 1 = n - 1
        <4>1. g[1] = t => files[e][i - 1] = files[d][n - 1]
          BY <2>3, <3>6
        <4>2. d \in Days /\ n - 1 \in 1..Len(files[d]) /\ e \in Days /\ i - 1 \in 1..Len(files[e])
          BY <1>0, <2>2, <3>1, <3>5
        <4>3. QED
          BY <4>1, <4>2, OnePlace
      <3>8. g[1] = t => e = d /\ i = n
        BY <2>2, <3>5, <3>7
      <3>9. QED
        BY <1>1, <3>3, <3>8
    <2>11. Log!AppendBehind(t, r)
      BY <1>1, <1>7, <1>8, <1>10, <2>4, <2>5, <2>9, <2>10 DEF Log!AppendBehind
    <2>12. QED
      BY <1>1, <2>3, <2>11 DEF Log!LogNext
  <1>13. QED
    BY <1>11, <1>12

\* A second half that fails leaves a torn record.
LEMMA TearIsLogStep ==
  ASSUME TypeOK, WrittenOnce, WriteProgress, NEW w \in Writers, WriteTail(w), UNCHANGED files
  PROVE  Log!LogNext
  <1>0. PICK r \in Records, d \in Days, n \in Nat :
          r = rec[w].id /\ d = rec[w].day /\ n = Len(files[d])
    BY ChunksOfFiles DEF TypeOK, RecordInfo
  <1>1. /\ n = Len(files[d]) /\ pc[w] = "w_tail"
        /\ UNCHANGED <<rec, acked, degradedOp>>
        /\ pc'[w] = "w_sync" /\ \A v \in Writers \ {w} : pc'[v] = pc[v]
    BY <1>0, RolesAreProcs DEF WriteTail, Goto, TypeOK, history, store
  <1>2. n \in 1..n /\ files[d][n][2] = "head" /\ RecordAt(d, n) = r
    <2>1. LastIs(d, <<FirstHalf(r)>>)
      BY <1>0, <1>1 DEF WriteProgress
    <2>2. QED
      BY <1>1, <2>1 DEF LastIs, RecordAt, FirstHalf
  <1>3. r \in RecordsOf("head")
    BY <1>1, <1>2, RecordsOfAt
  <1>4. \A e \in Days : \A i \in 1..Len(files[e]) : files[e][i] # SecondHalf(r)
    BY <1>0, <1>1 DEF WrittenOnce, PendingIsNew, Pending, HasChunk
  <1>5. r \notin RecordsOf("tail")
    BY <1>4, RecordsOfAt, ChunksOfFiles DEF SecondHalf
  <1>6. BeingWritten' = BeingWritten \ {r}
    <2>1. \A v \in Writers \ {w} : pc[v] = "w_tail" => rec[v].id # r
      BY <1>0, <1>1 DEF WrittenOnce, PendingDiffer, Pending
    <2>2. QED
      BY <1>0, <1>1, <2>1 DEF BeingWritten
  <1>7. \A half : RecordsOf(half)' = RecordsOf(half)
    BY DEF RecordsOf, RecordAt
  <1>8. CutShort' = CutShort \cup {r}
    BY <1>3, <1>5, <1>6, <1>7 DEF CutShort
  <1>9. Readable' = Readable /\ Glued' = Glued
    BY DEF Readable, Glued, Whole, StartsLine, RecordAt
  <1>10. r \notin Log!Written
    BY <1>5, WrittenAreTails DEF WrittenOnce
  <1>11. QED
    BY <1>1, <1>8, <1>9, <1>10 DEF Log!LogNext, Log!Tear

\* The end of a write acknowledges a record that is there in full, or degrades.
LEMMA SettleIsLogStep ==
  ASSUME TypeOK, WrittenOnce, WriteProgress, NEW w \in Writers, WriteSettle(w)
  PROVE  Log!LogNext
  <1> DEFINE r == rec[w].id  d == rec[w].day  n == Len(files[d])
  <1>1. UNCHANGED <<Readable, CutShort, Glued>>
    <2>1. \A v \in Writers : pc'[v] = "w_tail" <=> pc[v] = "w_tail"
      BY RolesAreProcs DEF WriteSettle, UnlockTo, TypeOK
    <2>2. QED
      BY <2>1, SameLog, SameWriters DEF WriteSettle, onDisk
  <1>2. CASE ok[w]
    <2>1. r \in Records /\ d \in Days /\ n \in Nat
      BY ChunksOfFiles DEF TypeOK, RecordInfo
    <2>2. LastIs(d, <<FirstHalf(r), SecondHalf(r)>>)
      BY <1>2 DEF WriteSettle, WriteProgress
    <2>3. 2 <= n /\ files[d][n - 2 + 2] = SecondHalf(r)
      BY <2>1, <2>2 DEF LastIs
    <2>4. n \in 1..Len(files[d]) /\ n - 2 + 2 = n
      BY <2>1, <2>3
    <2>5. files[d][n][2] = "tail" /\ r = RecordAt(d, n)
      BY <2>3, <2>4 DEF SecondHalf, RecordAt
    <2>6. r \in Log!Written
      BY <2>1, <2>4, <2>5, RecordsOfAt, WrittenAreTails DEF WrittenOnce
    <2>7. /\ acked' = acked \cup {r}
          /\ degradedOp' \in {degradedOp, NoOp}
          /\ degradedOp' # degradedOp => degradedOp = WriteOp
      BY <1>2 DEF WriteSettle, clearDegradedIf
    <2>8. Log!Acknowledge(r)
      BY <1>1, <2>6, <2>7 DEF Log!Acknowledge
    <2>9. QED
      BY <2>1, <2>8 DEF Log!LogNext
  <1>3. CASE ~ok[w]
    <2>1. degradedOp' = WriteOp /\ acked' = acked
      BY <1>3 DEF WriteSettle, markDegraded
    <2>2. Log!Degrade(WriteOp)
      BY <1>1, <2>1 DEF Log!Degrade
    <2>3. WriteOp \in DegradedOps \ {NoOp}
      BY DEF DegradedOps, WriteOp, NoOp
    <2>4. QED
      BY <2>2, <2>3 DEF Log!LogNext
  <1>4. QED
    BY <1>2, <1>3

\* Places that a crash leaves alone.
LEMMA CrashPlaces ==
  ASSUME TypeOK, TypeOK', WrittenOnce, Crash, NEW d \in Days
  PROVE  /\ Whole(d)' = {i \in Whole(d) : RecordAt(d, i) \in RecordsOf("tail")'}
         /\ \A i \in Whole(d)' :
              /\ RecordAt(d, i)' = RecordAt(d, i) /\ StartsLine(d, i)' = StartsLine(d, i)
              /\ ~StartsLine(d, i) => /\ RecordAt(d, i - 1)' = RecordAt(d, i - 1)
                                      /\ i - 1 \in 1..Len(files'[d])
                                      /\ files'[d][i - 1] = files[d][i - 1]
  <1>1. /\ Len(files'[d]) \in Nat /\ Len(files[d]) \in Nat /\ Len(files'[d]) <= Len(files[d])
        /\ \A i \in 1..Len(files'[d]) : files'[d][i] = files[d][i]
    BY CrashCuts, ChunksOfFiles
  <1>2. \A i : i \in Whole(d)' <=> i \in 1..Len(files'[d]) - 1 /\ files'[d][i + 1] = SecondHalf(files'[d][i][1])
    BY DEF Whole, RecordAt, SecondHalf
  <1>3. \A i : i \in Whole(d) <=> i \in 1..Len(files[d]) - 1 /\ files[d][i + 1] = SecondHalf(files[d][i][1])
    BY DEF Whole, RecordAt, SecondHalf
  <1>4. \A r : r \in RecordsOf("tail")' <=>
          \E e \in Days : \E j \in 1..Len(files'[e]) : files'[e][j][2] = "tail" /\ r = files'[e][j][1]
    BY DEF RecordsOf, RecordAt
  <1>5. ASSUME NEW i \in Whole(d)'
        PROVE  /\ i \in Whole(d) /\ i \in 1..Len(files'[d]) /\ i + 1 \in 1..Len(files'[d])
               /\ files'[d][i] = files[d][i] /\ files'[d][i + 1] = files[d][i + 1]
               /\ RecordAt(d, i) \in RecordsOf("tail")'
    <2>1. i \in 1..Len(files'[d]) - 1 /\ files'[d][i + 1] = SecondHalf(files'[d][i][1])
      BY <1>2
    <2>2. i \in 1..Len(files'[d]) /\ i + 1 \in 1..Len(files'[d]) /\ i \in 1..Len(files[d]) - 1
      BY <1>1, <2>1
    <2>3. files'[d][i] = files[d][i] /\ files'[d][i + 1] = files[d][i + 1]
      BY <1>1, <2>2
    <2>4. files'[d][i + 1][2] = "tail" /\ RecordAt(d, i) = files'[d][i + 1][1]
      BY <2>1, <2>3 DEF SecondHalf, RecordAt
    <2>5. QED
      BY <1>3, <1>4, <2>1, <2>2, <2>3, <2>4
  <1>6. ASSUME NEW i \in Whole(d), RecordAt(d, i) \in RecordsOf("tail")'
        PROVE  i \in Whole(d)'
    <2> DEFINE r == RecordAt(d, i)
    <2>1. /\ i \in 1..Len(files[d]) /\ i + 1 \in 1..Len(files[d])
          /\ files[d][i + 1] = SecondHalf(r)
      BY WholeHasHalves DEF WrittenOnce
    <2>2. PICK e \in Days : \E j \in 1..Len(files'[e]) : files'[e][j][2] = "tail" /\ r = files'[e][j][1]
      BY <1>4, <1>6
    <2>3. PICK j \in 1..Len(files'[e]) : files'[e][j][2] = "tail" /\ r = files'[e][j][1]
      BY <2>2
    <2>4. j \in 1..Len(files[e]) /\ files'[e][j] = files[e][j]
      BY CrashCuts, ChunksOfFiles
    <2>5. files[e][j] = SecondHalf(r)
      BY <2>3, <2>4, ChunksOfFiles DEF SecondHalf, RecordAt
    <2>6. e = d /\ j = i + 1
      BY <2>1, <2>4, <2>5 DEF WrittenOnce, ChunksDiffer
    <2>7. i + 1 \in 1..Len(files'[d]) /\ i \in 1..Len(files'[d]) /\ i \in 1..Len(files'[d]) - 1
      BY <1>1, <2>1, <2>6
    <2>8. files'[d][i + 1] = SecondHalf(files'[d][i][1])
      BY <1>1, <2>1, <2>7 DEF RecordAt
    <2>9. QED
      BY <1>2, <2>7, <2>8
  <1>7. ASSUME NEW i \in Whole(d)'
        PROVE  /\ RecordAt(d, i)' = RecordAt(d, i) /\ StartsLine(d, i)' = StartsLine(d, i)
               /\ ~StartsLine(d, i) => /\ RecordAt(d, i - 1)' = RecordAt(d, i - 1)
                                       /\ i - 1 \in 1..Len(files'[d])
                                       /\ files'[d][i - 1] = files[d][i - 1]
    <2>1. i # 1 => i - 1 \in 1..Len(files'[d]) /\ files'[d][i - 1] = files[d][i - 1]
      BY <1>1, <1>5
    <2>2. QED
      BY <1>5, <2>1 DEF StartsLine, RecordAt
  <1>8. QED
    BY <1>5, <1>6, <1>7

\* The end of the process loses only what was not acknowledged, and may cut
\* short what was being written.
LEMMA CrashIsLogStep ==
  ASSUME StoreInv, StoreInv', Crash
  PROVE  Log!LogNext
  <1> USE DEF StoreInv
  <1>0. /\ TypeOK /\ TypeOK' /\ WrittenOnce /\ WrittenOnce'
        /\ TailsFollowHeads /\ TailsFollowHeads'
    BY DEF WrittenOnce
  <1> DEFINE lost == RecordsOf("tail") \ RecordsOf("tail")'
  <1>1. acked' = acked /\ degradedOp' = NoOp /\ BeingWritten' = {}
    BY RolesAreProcs DEF Crash, BeingWritten
  <1>2. /\ Log!Written = RecordsOf("tail")
        /\ (Log!Written)' = RecordsOf("tail")'
    <2>1. Log!Written = RecordsOf("tail")
      BY <1>0, WrittenAreTails
    <2>2. (TypeOK /\ TailsFollowHeads => Log!Written = RecordsOf("tail"))'
      BY WrittenAreTails, PTL
    <2>3. QED
      BY <1>0, <2>1, <2>2
  <1>3. acked \subseteq RecordsOf("tail")'
    <2>1. (TypeOK /\ AckedAreDurable => acked \subseteq RecordsOf("tail"))'
      BY AckedAreTails, PTL
    <2>2. QED
      BY <1>1, <2>1
  <1>4. \A half : \A r \in RecordsOf(half)' : r \in RecordsOf(half)
    <2>1. ASSUME NEW half, NEW r \in RecordsOf(half)' PROVE r \in RecordsOf(half)
      <3>1. PICK d \in Days : \E i \in 1..Len(files'[d]) : files'[d][i][2] = half /\ r = files'[d][i][1]
        BY DEF RecordsOf, RecordAt
      <3>2. PICK i \in 1..Len(files'[d]) : files'[d][i][2] = half /\ r = files'[d][i][1]
        BY <3>1
      <3>3. i \in 1..Len(files[d]) /\ files'[d][i] = files[d][i]
        BY CrashCuts, ChunksOfFiles
      <3>4. QED
        BY <3>2, <3>3, RecordsOfAt DEF RecordAt
    <2>2. QED
      BY <2>1
  <1>5. CutShort' = RecordsOf("head")' \ RecordsOf("tail")'
    BY <1>1 DEF CutShort
  <1>6. CutShort' \subseteq CutShort \cup lost \cup BeingWritten
    BY <1>4, <1>5 DEF CutShort
  <1>7. Readable' = Readable \ lost
    <2>1. ASSUME NEW r \in Readable' PROVE r \in Readable /\ r \in RecordsOf("tail")'
      <3>1. PICK d \in Days : \E i \in Whole(d)' : StartsLine(d, i)' /\ r = RecordAt(d, i)'
        BY DEF Readable
      <3>2. PICK i \in Whole(d)' : StartsLine(d, i)' /\ r = RecordAt(d, i)'
        BY <3>1
      <3>3. i \in Whole(d) /\ StartsLine(d, i) /\ r = RecordAt(d, i) /\ r \in RecordsOf("tail")'
        BY <1>0, <3>2, CrashPlaces
      <3>4. QED
        BY <3>3, ReadableAt
    <2>2. ASSUME NEW r \in Readable, r \in RecordsOf("tail")' PROVE r \in Readable'
      <3>1. PICK d \in Days : \E i \in Whole(d) : StartsLine(d, i) /\ r = RecordAt(d, i)
        BY ReadableAt
      <3>2. PICK i \in Whole(d) : StartsLine(d, i) /\ r = RecordAt(d, i)
        BY <3>1
      <3>3. i \in Whole(d)' /\ StartsLine(d, i)' /\ r = RecordAt(d, i)'
        BY <1>0, <2>2, <3>2, CrashPlaces
      <3>4. QED
        BY <3>3 DEF Readable
    <2>3. Readable \subseteq RecordsOf("tail")
      BY <1>2 DEF Log!Written
    <2>4. QED
      BY <2>1, <2>2, <2>3
  <1>8. Glued' = {g \in Glued : g[2] \notin lost}
    <2>1. ASSUME NEW g \in Glued' PROVE g \in Glued /\ g[2] \in RecordsOf("tail")'
      <3>1. PICK d \in Days : \E i \in Whole(d)' :
              ~StartsLine(d, i)' /\ g = <<RecordAt(d, i - 1)', RecordAt(d, i)'>>
        BY DEF Glued
      <3>2. PICK i \in Whole(d)' : ~StartsLine(d, i)' /\ g = <<RecordAt(d, i - 1)', RecordAt(d, i)'>>
        BY <3>1
      <3>3. /\ i \in Whole(d) /\ ~StartsLine(d, i) /\ RecordAt(d, i) \in RecordsOf("tail")'
            /\ g = <<RecordAt(d, i - 1), RecordAt(d, i)>>
        BY <1>0, <3>2, CrashPlaces
      <3>4. QED
        BY <3>3, GluedAt
    <2>2. ASSUME NEW g \in Glued, g[2] \in RecordsOf("tail")' PROVE g \in Glued'
      <3>1. PICK d \in Days : \E i \in Whole(d) :
              ~StartsLine(d, i) /\ g = <<RecordAt(d, i - 1), RecordAt(d, i)>>
        BY GluedAt
      <3>2. PICK i \in Whole(d) : ~StartsLine(d, i) /\ g = <<RecordAt(d, i - 1), RecordAt(d, i)>>
        BY <3>1
      <3>3. i \in Whole(d)'
        BY <1>0, <2>2, <3>2, CrashPlaces
      <3>4. ~StartsLine(d, i)' /\ g = <<RecordAt(d, i - 1)', RecordAt(d, i)'>>
        BY <1>0, <3>2, <3>3, CrashPlaces
      <3>5. QED
        BY <3>3, <3>4 DEF Glued
    <2>3. \A g \in Glued : g[2] \in RecordsOf("tail")
      BY <1>0, GluedAreTorn
    <2>4. QED
      BY <2>1, <2>2, <2>3
  <1>9. ASSUME NEW g \in Glued, g[2] \notin lost PROVE g[1] \in CutShort'
    <2>1. g \in Glued'
      BY <1>8, <1>9
    <2>2. (TypeOK /\ WrittenOnce => SpoiltByTorn)'
      BY GluedSpoil, PTL
    <2>3. QED
      BY <1>0, <1>5, <2>1, <2>2 DEF SpoiltByTorn
  <1>10. BeingWritten \in SUBSET Records
    BY DEF BeingWritten, TypeOK, RecordInfo
  <1>11. Log!Lose(BeingWritten)
    <2>1. lost \in SUBSET (Log!Written \ acked)
      BY <1>2, <1>3
    <2>2. CutShort' \in SUBSET (CutShort \cup lost \cup BeingWritten)
      BY <1>6
    <2>3. CutShort' \cap (Log!Written \ lost) = {}
      BY <1>2, <1>5
    <2>4. \A g \in Glued : g[2] \in lost \/ g[1] \in CutShort'
      BY <1>9
    <2>5. QED
      BY <1>1, <1>7, <1>8, <2>1, <2>2, <2>3, <2>4 DEF Log!Lose
  <1>12. QED
    BY <1>10, <1>11 DEF Log!LogNext

\* Every other step shows at most in the degradation.
LEMMA NextIsLogStep ==
  ASSUME StoreInv, StoreInv', [Next]_vars
  PROVE  [Log!LogNext]_(Log!logVars)
  <1> USE RolesAreProcs DEF onDisk, store, history
  <1> DEFINE Calm == UNCHANGED <<files, rec, acked>> /\ \A w \in Writers : pc'[w] = "w_tail" <=> pc[w] = "w_tail"
  <1>0. TypeOK /\ WriteProgress /\ WrittenOnce
    BY DEF StoreInv
  <1> USE <1>0
  <1>1. ASSUME Calm PROVE UNCHANGED <<Readable, CutShort, Glued>>
    BY <1>1, SameLog, SameWriters
  <1>2. ASSUME Calm, UNCHANGED degradedOp PROVE UNCHANGED Log!logVars
    BY <1>1, <1>2 DEF Log!logVars
  <1>3. ASSUME Calm PROVE Log!LogNext
    <2>1. degradedOp' \in DegradedOps
      BY DEF StoreInv, TypeOK
    <2>2. CASE degradedOp' = NoOp
      BY <1>1, <1>3, <2>2 DEF Log!LogNext, Log!Recover
    <2>3. CASE degradedOp' # NoOp
      BY <1>1, <1>3, <2>1, <2>3 DEF Log!LogNext, Log!Degrade
    <2>4. QED
      BY <2>2, <2>3
  <1>4. ASSUME NEW p \in Procs, LockIO(p) PROVE Calm /\ UNCHANGED degradedOp
    BY <1>4 DEF LockIO, Goto, TypeOK
  <1>5. ASSUME NEW w \in Writers, BeginWriteFailure(w) PROVE UNCHANGED Log!logVars
    <2>1. /\ UNCHANGED <<files, acked, degradedOp>>
          /\ pc[w] = "idle" /\ pc'[w] = "w_lock"
          /\ \A v \in Writers \ {w} : rec'[v] = rec[v] /\ pc'[v] = pc[v]
      BY <1>5 DEF BeginWriteFailure, Goto, TypeOK
    <2>2. BeingWritten' = BeingWritten
      BY <2>1 DEF BeingWritten
    <2>3. QED
      BY <2>1, <2>2, SameLog DEF Log!logVars
  <1>6. ASSUME NEW w \in Writers, WriteOpen(w) \/ WriteSync(w) \/ WriteClose(w)
        PROVE  Calm /\ UNCHANGED degradedOp
    BY <1>6 DEF WriteOpen, WriteSync, WriteClose, Goto, TypeOK
  <1>7. ASSUME NEW w \in Writers, WriteHead(w) \/ WriteTail(w)
        PROVE  [Log!LogNext]_(Log!logVars)
    <2>1. CASE WriteHead(w) /\ UNCHANGED files
      <3>1. pc[w] = "w_head" /\ pc'[w] = "w_sync" /\ UNCHANGED <<rec, acked, degradedOp>>
        <4>1. ~AppendChunk(w, FirstHalf(rec[w].id))
          <5>1. ASSUME AppendChunk(w, FirstHalf(rec[w].id)) PROVE FALSE
            <6>1. FirstHalf(rec[w].id) \in Chunks /\ rec[w].day \in Days
              BY DEF TypeOK, RecordInfo, FirstHalf, Chunks
            <6>2. Len(files'[rec[w].day]) = Len(files[rec[w].day]) + 1
              BY <5>1, <6>1, AppendEffect
            <6>3. QED
              BY <2>1, <6>1, <6>2, ChunksOfFiles
          <5>2. QED
            BY <5>1
        <4>2. QED
          BY <2>1, <4>1 DEF WriteHead, Goto, TypeOK
      <3>2. Calm /\ UNCHANGED degradedOp
        BY <2>1, <3>1 DEF WriteHead, Goto, TypeOK
      <3>3. QED
        BY <1>2, <3>2
    <2>2. CASE WriteHead(w) /\ ~UNCHANGED files
      BY <2>2, HeadIsHidden
    <2>3. CASE WriteTail(w) /\ UNCHANGED files
      BY <2>3, TearIsLogStep
    <2>4. CASE WriteTail(w) /\ ~UNCHANGED files
      BY <2>4, TailIsLogStep
    <2>5. QED
      BY <1>7, <2>1, <2>2, <2>3, <2>4
  <1>8. ASSUME NEW x \in Exporters, BeginExportZIP(x) \/ ExportList(x) \/ ExportCopy(x)
        PROVE  Calm /\ UNCHANGED degradedOp
    BY <1>8 DEF BeginExportZIP, ExportList, ExportCopy, Goto, UnlockTo, TypeOK
  <1>9. ASSUME NEW p \in Checkers \cup {Main}, ProbeStep(p)
        PROVE  Calm /\ UNCHANGED degradedOp
    BY <1>9 DEF ProbeStep, ProbeOpen, ProbeWrite, ProbeRemove, ProbeUnlock, Goto, UnlockTo, AfterProbe, TypeOK
  <1>10. ASSUME NEW c \in Checkers,
               BeginHealth(c) \/ HealthDirCheck(c) \/ HealthHasDegraded(c) \/ HealthReplyUnhealthy(c)
        PROVE  Calm /\ UNCHANGED degradedOp
    BY <1>10 DEF BeginHealth, HealthDirCheck, HealthHasDegraded, HealthReplyUnhealthy, Goto, TypeOK
  <1>11. CASE \/ StartProcess \/ StartupDirCheck \/ DayPasses \/ DiskFails \/ DiskHeals
              \/ UNCHANGED vars
    <2>1. Calm /\ UNCHANGED degradedOp
      BY <1>11 DEF StartProcess, StartupDirCheck, DayPasses, DiskFails, DiskHeals, vars, calls, Goto, TypeOK
    <2>2. QED
      BY <1>2, <2>1
  <1>12. ASSUME \/ \E x \in Exporters : ExportSettle(x)
                \/ \E c \in Checkers : HealthMarkDir(c) \/ HealthMarkWrite(c) \/ HealthClear(c)
                \/ StartupClear
         PROVE  Log!LogNext
    <2>1. Calm
      BY <1>12 DEF ExportSettle, HealthMarkDir, HealthMarkWrite, HealthClear, StartupClear, Goto, UnlockTo, TypeOK
    <2>2. QED
      BY <1>3, <2>1
  <1>13. QED
    BY <1>2, <1>4, <1>5, <1>6, <1>7, <1>8, <1>9, <1>10, <1>11, <1>12, SettleIsLogStep, CrashIsLogStep
    DEF Next, WriteStep, ExportStep, HealthStep, StartupStep

\* The store implements the log: for its callers there are only records that
\* appear whole and before they are acknowledged, that a crash can take only if
\* they were not, and that stand on a line of their own unless it was left open by
\* a record cut short (WriteFailure, runProbe, ExportZIP of errlog.Store).
THEOREM StoreIsFailureLog == Spec => ImplementsFailureLog
  BY StoreInvariant, InitIsLogInit, NextIsLogStep, PTL
     DEF Spec, ImplementsFailureLog, Log!LogSpec

=============================================================================
