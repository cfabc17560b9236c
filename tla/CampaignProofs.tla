--------------------------- MODULE CampaignProofs ---------------------------
(***************************************************************************)
(* Proofs, for any number of hosts, workers, faults and full disks, of the *)
(* safety of a campaign's results table, and of what makes an invocation   *)
(* end: it uses up its steps, and never waits for nothing.                 *)
(***************************************************************************)
EXTENDS CampaignProperties, Induction, TLAPS

USE DEF Hosts, NoRow, Cuts

-----------------------------------------------------------------------------
(* What flushing does to the files.                                        *)

\* A counter per host stays one when a host is added to it and another that it
\* has counted is taken off (Recount, the crediting of lines to hosts).
LEMMA RecountFacts ==
    ASSUME NEW f \in [Hosts -> Nat], NEW h \in Hosts \cup {NoRow},
           NEW g \in Hosts \cup {NoRow}, g # NoRow => f[g] > 0
    PROVE  /\ Recount(f, h, g) \in [Hosts -> Nat]
           /\ \A k \in Hosts : /\ k # h /\ k # g => Recount(f, h, g)[k] = f[k]
                               /\ k = h /\ k = g => Recount(f, h, g)[k] = f[k]
                               /\ k = h /\ k # g => Recount(f, h, g)[k] = f[k] + 1
                               /\ k # h /\ k = g => Recount(f, h, g)[k] = f[k] - 1
  <1>1. \A k \in Hosts : f[k] + One(k = h) - One(k = g) \in Nat
    BY DEF One
  <1>2. Recount(f, h, g) = [k \in Hosts |-> f[k] + One(k = h) - One(k = g)]
    BY DEF Recount
  <1>3. \A k \in Hosts : Recount(f, h, g)[k] = f[k] + One(k = h) - One(k = g)
    BY <1>2
  <1> QED
    BY <1>1, <1>2, <1>3 DEF One

\* Nothing need be taken off.
LEMMA RecountOne ==
    ASSUME NEW f \in [Hosts -> Nat], NEW h \in Hosts \cup {NoRow}
    PROVE  /\ Recount(f, h, NoRow) \in [Hosts -> Nat]
           /\ \A k \in Hosts : /\ k # h => Recount(f, h, NoRow)[k] = f[k]
                               /\ k = h => Recount(f, h, NoRow)[k] = f[k] + 1
           /\ h # NoRow => Recount(f, h, NoRow)[h] > 0
  <1>1. \A k \in Hosts : f[k] + One(k = h) - One(k = NoRow) \in Nat
    BY DEF One
  <1>2. Recount(f, h, NoRow) = [k \in Hosts |-> f[k] + One(k = h) - One(k = NoRow)]
    BY DEF Recount
  <1>3. \A k \in Hosts : Recount(f, h, NoRow)[k] = f[k] + One(k = h) - One(k = NoRow)
    BY <1>2
  <1>5. \A k \in Hosts : /\ k # h => Recount(f, h, NoRow)[k] = f[k]
                         /\ k = h => Recount(f, h, NoRow)[k] = f[k] + 1
    BY <1>3 DEF One
  <1>4. ASSUME h # NoRow
        PROVE  Recount(f, h, NoRow)[h] > 0
    <2>1. f[h] \in Nat /\ Recount(f, h, NoRow)[h] = f[h] + 1
      BY <1>4, <1>5
    <2> QED
      BY <2>1
  <1> QED
    BY <1>1, <1>2, <1>4, <1>5

\* The shape of the CSV and of the audit file.
CsvType == [headers : Nat, keyed : [Hosts -> Nat], intact : [Hosts -> Nat],
            tail : Cuts \cup {"none"}, last : Hosts \cup {NoRow}]

JsonlType == [lines : [Hosts -> Nat], torn : BOOLEAN, last : Hosts \cup {NoRow}]

\* A flush that goes through keeps the CSV well-formed and writes the buffered
\* header; it adds a line at most for the host that is read, the one in the
\* buffer unless the flush ends an unfinished line, and takes one off for the
\* host that the unfinished line read (ResultWriter.write).
LEMMA FlushFacts ==
    ASSUME WriterTypeOK, NEW read \in Readings, NEW quotes \in BOOLEAN,
           csvBuf.row # NoRow, NEW c, c = CsvAfterFlush(read, quotes)
    PROVE  /\ read \in Hosts \cup {NoRow}
           /\ c \in CsvType /\ c.headers = Headers /\ c.last = NoRow
           /\ c.keyed = Recount(csv.keyed, read, csv.last)
           /\ c.tail = IF csv.tail = "quoted" /\ ~csvBuf.rest /\ ~quotes
                       THEN "quoted" ELSE "none"
           /\ csvBuf.rest => read \in {csvBuf.row, NoRow}
           /\ csvBuf.rest /\ read # NoRow => csv.tail \in {"domain", "hostname"}
           /\ csv.tail \in {"none", "end"} => read \in {csvBuf.row, NoRow}
           /\ csv.tail \in {"none", "end"} /\ ~csvBuf.rest => read = csvBuf.row
           /\ csv.tail \in {"record", "quoted"} => read = NoRow
  <1>1. /\ csv.keyed \in [Hosts -> Nat] /\ csv.intact \in [Hosts -> Nat]
        /\ csv.headers \in Nat /\ csv.tail \in Cuts \cup {"none"}
        /\ csv.last \in Hosts \cup {NoRow} /\ (csv.last # NoRow => csv.keyed[csv.last] > 0)
        /\ csvBuf.row \in Hosts /\ csvBuf.header \in BOOLEAN /\ csvBuf.rest \in BOOLEAN
    BY DEF WriterTypeOK, LastCounted
  <1>6. /\ read \in Hosts \cup {NoRow}
        /\ csvBuf.rest => read \in {csvBuf.row, NoRow}
        /\ csvBuf.rest /\ read # NoRow => csv.tail \in {"domain", "hostname"}
        /\ csv.tail \in {"none", "end"} => read \in {csvBuf.row, NoRow}
        /\ csv.tail \in {"none", "end"} /\ ~csvBuf.rest => read = csvBuf.row
        /\ csv.tail \in {"record", "quoted"} => read = NoRow
    BY <1>1 DEF Readings
  <1>7. PICK own \in Hosts \cup {NoRow}, tail \in {"none", "quoted"} :
           /\ tail = IF csv.tail = "quoted" /\ ~csvBuf.rest /\ ~quotes
                     THEN "quoted" ELSE "none"
           /\ c = [headers |-> Headers,
                   keyed   |-> Recount(csv.keyed, read, csv.last),
                   intact  |-> Recount(csv.intact, own, NoRow),
                   tail    |-> tail,
                   last    |-> NoRow]
    BY <1>1 DEF CsvAfterFlush
  <1>8. /\ Recount(csv.keyed, read, csv.last) \in [Hosts -> Nat]
        /\ Recount(csv.intact, own, NoRow) \in [Hosts -> Nat]
    BY <1>1, <1>6, <1>7, RecountFacts
  <1>9. Headers \in Nat
    BY <1>1 DEF Headers, One
  <1>10. c \in CsvType
    BY <1>7, <1>8, <1>9 DEF CsvType
  <1> QED
    BY <1>6, <1>7, <1>10

\* With no row in the buffer only the header is written.
LEMMA HeaderFacts ==
    ASSUME WriterTypeOK, NEW read, NEW quotes, csvBuf.row = NoRow,
           NEW c, c = CsvAfterFlush(read, quotes)
    PROVE  /\ c \in CsvType /\ c.headers = Headers
           /\ c.keyed = csv.keyed /\ c.tail = csv.tail /\ c.last = csv.last
           /\ ~csvBuf.header => c = csv
  <1>1. csv \in CsvType /\ csvBuf.header \in BOOLEAN
    BY DEF WriterTypeOK, CsvType
  <1>2. c = [csv EXCEPT !.headers = Headers]
    BY DEF CsvAfterFlush
  <1>3. Headers \in Nat /\ (~csvBuf.header => Headers = csv.headers)
    BY <1>1 DEF Headers, One, CsvType
  <1> QED
    BY <1>1, <1>2, <1>3 DEF CsvType

\* A flush of which only a part gets through adds a line for the host that the
\* unfinished line reads, the one in the buffer once its hostname is complete.
LEMMA CutFacts ==
    ASSUME WriterTypeOK, NEW cut \in Cuts, NEW name \in Hosts \cup {NoRow},
           csvBuf.row # NoRow, NEW c, c = CsvAfterCut(cut, name)
    PROVE  /\ c \in CsvType /\ c.headers = Headers /\ c.tail = cut
           /\ c.last = IF cut = "hostname" THEN name ELSE NoRow
           /\ cut = "domain" => c.keyed = Recount(csv.keyed, NoRow, NoRow)
           /\ cut = "hostname" => c.keyed = Recount(csv.keyed, name, NoRow)
           /\ cut \in {"record", "quoted", "end"}
                => c.keyed = Recount(csv.keyed, csvBuf.row, NoRow)
  <1>1. /\ csv.keyed \in [Hosts -> Nat] /\ csv.intact \in [Hosts -> Nat]
        /\ csv.headers \in Nat /\ csvBuf.header \in BOOLEAN /\ csvBuf.row \in Hosts
    BY DEF WriterTypeOK
  <1>2. PICK read \in Hosts \cup {NoRow}, own \in Hosts \cup {NoRow},
             last \in Hosts \cup {NoRow} :
           /\ last = IF cut = "hostname" THEN name ELSE NoRow
           /\ cut = "domain" => read = NoRow
           /\ cut = "hostname" => read = name
           /\ cut \in {"record", "quoted", "end"} => read = csvBuf.row
           /\ c = [headers |-> Headers,
                   keyed   |-> Recount(csv.keyed, read, NoRow),
                   intact  |-> Recount(csv.intact, own, NoRow),
                   tail    |-> cut,
                   last    |-> last]
    <2>1. CASE cut = "domain"
      BY <1>1, <2>1 DEF CsvAfterCut
    <2>2. CASE cut = "hostname"
      BY <1>1, <2>2 DEF CsvAfterCut
    <2>3. CASE cut \in {"record", "quoted"}
      BY <1>1, <2>3 DEF CsvAfterCut
    <2>4. CASE cut = "end"
      BY <1>1, <2>4 DEF CsvAfterCut
    <2> QED
      BY <2>1, <2>2, <2>3, <2>4
  <1>3. /\ Recount(csv.keyed, read, NoRow) \in [Hosts -> Nat]
        /\ Recount(csv.intact, own, NoRow) \in [Hosts -> Nat]
    BY <1>1, <1>2, RecountFacts
  <1>4. Headers \in Nat
    BY <1>1 DEF Headers, One
  <1>5. c \in CsvType
    BY <1>2, <1>3, <1>4 DEF CsvType
  <1> QED
    BY <1>2, <1>5

-----------------------------------------------------------------------------
(* Type correctness.                                                       *)

\* The empty files and buffers are well-formed (ResultWriter.__init__).
LEMMA EmptyTypes ==
    /\ EmptyCsv \in CsvType /\ EmptyCsv.last = NoRow /\ EmptyCsv.tail = "none"
    /\ EmptyCsv.headers = 0 /\ \A h \in Hosts : EmptyCsv.keyed[h] = 0
    /\ EmptyJsonl \in JsonlType /\ EmptyJsonl.last = NoRow /\ ~EmptyJsonl.torn
    /\ \A h \in Hosts : EmptyJsonl.lines[h] = 0
    /\ EmptyCsvBuf \in [header : BOOLEAN, row : Hosts \cup {NoRow}, rest : BOOLEAN]
    /\ ~EmptyCsvBuf.header /\ EmptyCsvBuf.row = NoRow /\ ~EmptyCsvBuf.rest
    /\ EmptyJsonlBuf \in [row : Hosts \cup {NoRow}, rest : BOOLEAN]
    /\ EmptyJsonlBuf.row = NoRow /\ ~EmptyJsonlBuf.rest
  BY DEF EmptyCsv, EmptyJsonl, EmptyCsvBuf, EmptyJsonlBuf, Zero, CsvType, JsonlType

\* A flush of the audit file keeps it well-formed, ends an unfinished line and
\* adds one for the buffered host, unless it is glued to the unfinished one.
LEMMA LineFacts ==
    ASSUME WriterTypeOK, NEW j, j = JsonlAfterFlush
    PROVE  /\ j \in JsonlType
           /\ jsonlBuf.row = NoRow => j = jsonl
           /\ jsonlBuf.row # NoRow =>
                /\ ~j.torn /\ j.last = NoRow
                /\ jsonlBuf.rest \/ ~jsonl.torn
                     => j.lines = Recount(jsonl.lines, jsonlBuf.row, jsonl.last)
                /\ ~jsonlBuf.rest /\ jsonl.torn
                     => j.lines = Recount(jsonl.lines, NoRow, jsonl.last)
  <1>1. /\ jsonl \in JsonlType /\ jsonl.lines \in [Hosts -> Nat]
        /\ jsonl.last \in Hosts \cup {NoRow} /\ jsonlBuf.row \in Hosts \cup {NoRow}
        /\ jsonl.last # NoRow => jsonl.lines[jsonl.last] > 0
    BY DEF WriterTypeOK, LastCounted, JsonlType
  <1>2. CASE jsonlBuf.row = NoRow
    BY <1>1, <1>2 DEF JsonlAfterFlush
  <1>3. CASE jsonlBuf.row # NoRow
    <2>1. PICK h \in Hosts \cup {NoRow} :
             /\ h = IF jsonlBuf.rest \/ ~jsonl.torn THEN jsonlBuf.row ELSE NoRow
             /\ j = [lines |-> Recount(jsonl.lines, h, jsonl.last),
                     torn |-> FALSE, last |-> NoRow]
      BY <1>1, <1>3 DEF JsonlAfterFlush
    <2>2. Recount(jsonl.lines, h, jsonl.last) \in [Hosts -> Nat]
      BY <1>1, RecountFacts
    <2> QED
      BY <1>3, <2>1, <2>2 DEF JsonlType
  <1> QED
    BY <1>2, <1>3

\* The disk's own bookkeeping stays within its bound.
LEMMA DiskTypes ==
    ASSUME WriterTypeOK, DiskRefuses
    PROVE  diskFull' \in BOOLEAN /\ fills' \in 0..MaxFills
  BY WriterAssumption DEF WriterTypeOK, DiskRefuses

\* Every operation of the writer keeps its state well-formed.
LEMMA WriterTypes ==
    ASSUME WriterTypeOK, resume \in BOOLEAN, cur \in Hosts \cup {NoRow},
           \/ OpenCsv(resume) \/ OpenJsonl(resume)
           \/ BufferRow(cur) \/ FlushRow \/ BufferLine(cur) \/ FlushLine
           \/ FlushRowFails \/ FlushLineFails
           \/ LoseCsvBuf \/ LoseJsonlBuf \/ LoseBuffers \/ DiskFreed
           \/ UNCHANGED writerVars
    PROVE  WriterTypeOK'
  <1> DEFINE CsvOK(c) == c.last # NoRow => c.tail = "hostname" /\ c.keyed[c.last] > 0
             JsonlOK(j) == j.last # NoRow => j.torn /\ j.lines[j.last] > 0
  <1>a. /\ csv \in CsvType /\ CsvOK(csv)
        /\ jsonl \in JsonlType /\ JsonlOK(jsonl)
        /\ csvBuf \in [header : BOOLEAN, row : Hosts \cup {NoRow}, rest : BOOLEAN]
        /\ jsonlBuf \in [row : Hosts \cup {NoRow}, rest : BOOLEAN]
        /\ diskFull \in BOOLEAN /\ fills \in 0..MaxFills
    BY DEF WriterTypeOK, LastCounted, CsvType, JsonlType
  <1>b. \/ /\ csv' \in CsvType /\ CsvOK(csv')
           /\ csvBuf' \in [header : BOOLEAN, row : Hosts \cup {NoRow}, rest : BOOLEAN]
           /\ UNCHANGED <<jsonl, jsonlBuf, diskFull, fills>>
        \/ /\ jsonl' \in JsonlType /\ JsonlOK(jsonl')
           /\ jsonlBuf' \in [row : Hosts \cup {NoRow}, rest : BOOLEAN]
           /\ UNCHANGED <<csv, csvBuf, diskFull, fills>>
        \/ /\ csv' \in CsvType /\ CsvOK(csv')
           /\ jsonl' \in JsonlType /\ JsonlOK(jsonl')
           /\ csvBuf' \in [header : BOOLEAN, row : Hosts \cup {NoRow}, rest : BOOLEAN]
           /\ jsonlBuf' \in [row : Hosts \cup {NoRow}, rest : BOOLEAN]
           /\ diskFull' \in BOOLEAN /\ fills' \in 0..MaxFills
    <2>1. CASE OpenCsv(resume)
      BY <1>a, <2>1, EmptyTypes DEF OpenCsv
    <2>2. CASE OpenJsonl(resume)
      BY <1>a, <2>2, EmptyTypes DEF OpenJsonl
    <2>3. CASE BufferRow(cur) \/ LoseCsvBuf
      BY <1>a, <2>3, EmptyTypes DEF BufferRow, LoseCsvBuf
    <2>4. CASE FlushRow
      <3>1. PICK read \in Readings, quotes \in BOOLEAN : csv' = CsvAfterFlush(read, quotes)
        BY <2>4 DEF FlushRow
      <3>2. CASE csvBuf.row = NoRow
        BY <1>a, <2>4, <3>1, <3>2, EmptyTypes, HeaderFacts DEF FlushRow
      <3>3. CASE csvBuf.row # NoRow
        BY <1>a, <2>4, <3>1, <3>3, EmptyTypes, FlushFacts DEF FlushRow
      <3> QED
        BY <3>2, <3>3
    <2>5. CASE BufferLine(cur) \/ LoseJsonlBuf
      BY <1>a, <2>5, EmptyTypes DEF BufferLine, LoseJsonlBuf
    <2>6. CASE FlushLine
      BY <1>a, <2>6, EmptyTypes, LineFacts DEF FlushLine
    <2>7. CASE FlushRowFails
      <3>1. diskFull' \in BOOLEAN /\ fills' \in 0..MaxFills /\ UNCHANGED <<jsonl, jsonlBuf>>
        BY <2>7, DiskTypes DEF FlushRowFails
      <3>2. CASE UNCHANGED <<csv, csvBuf>>
        BY <1>a, <3>1, <3>2
      <3>3. ASSUME csv.tail = "none", csvBuf.row # NoRow,
                   NEW cut \in Cuts, NEW name \in Hosts \cup {NoRow},
                   csv' = CsvAfterCut(cut, name),
                   csvBuf' = [csvBuf EXCEPT !.header = FALSE, !.rest = TRUE]
            PROVE  csv' \in CsvType /\ CsvOK(csv') /\
                   csvBuf' \in [header : BOOLEAN, row : Hosts \cup {NoRow}, rest : BOOLEAN]
        <4>1. /\ csv' \in CsvType /\ csv'.tail = cut
              /\ csv'.last = IF cut = "hostname" THEN name ELSE NoRow
              /\ cut = "hostname" => csv'.keyed = Recount(csv.keyed, name, NoRow)
          BY <3>3, CutFacts
        <4>2. csv.keyed \in [Hosts -> Nat]
          BY <1>a DEF CsvType
        <4>3. name # NoRow => Recount(csv.keyed, name, NoRow)[name] > 0
          BY <4>2, RecountOne
        <4>4. CsvOK(csv')
          <5>1. CASE cut = "hostname"
            <6>1. csv'.last = name /\ csv'.keyed = Recount(csv.keyed, name, NoRow)
              BY <4>1, <5>1
            <6> QED
              BY ONLY <4>1, <4>3, <5>1, <6>1, Zenon
          <5>2. CASE cut # "hostname"
            BY <4>1, <5>2
          <5> QED
            BY <5>1, <5>2
        <4> QED
          BY <1>a, <3>3, <4>1, <4>4
      <3>4. CASE /\ csv.tail = "quoted" /\ csv' = [csv EXCEPT !.tail = "record"]
                 /\ UNCHANGED csvBuf
        BY <1>a, <3>1, <3>4 DEF CsvType
      <3> QED
        BY <1>a, <2>7, <3>1, <3>2, <3>3, <3>4 DEF FlushRowFails
    <2>8. CASE FlushLineFails
      <3>1. diskFull' \in BOOLEAN /\ fills' \in 0..MaxFills /\ UNCHANGED <<csv, csvBuf>>
        BY <2>8, DiskTypes DEF FlushLineFails
      <3>2. CASE UNCHANGED <<jsonl, jsonlBuf>>
        BY <1>a, <3>1, <3>2
      <3>3. ASSUME NEW name \in Hosts \cup {NoRow},
                   jsonl' = [lines |-> Recount(jsonl.lines, name, NoRow),
                             torn |-> TRUE, last |-> name],
                   jsonlBuf' = [jsonlBuf EXCEPT !.rest = TRUE]
            PROVE  jsonl' \in JsonlType /\ JsonlOK(jsonl')
                   /\ jsonlBuf' \in [row : Hosts \cup {NoRow}, rest : BOOLEAN]
        <4>1. jsonl.lines \in [Hosts -> Nat]
          BY <1>a DEF JsonlType
        <4>2. /\ Recount(jsonl.lines, name, NoRow) \in [Hosts -> Nat]
              /\ name # NoRow => Recount(jsonl.lines, name, NoRow)[name] > 0
          BY <4>1, RecountOne
        <4> QED
          BY <1>a, <3>3, <4>2 DEF JsonlType
      <3>4. jsonlBuf.row \in Hosts \cup {NoRow}
        BY <1>a
      <3> QED
        BY <1>a, <2>8, <3>1, <3>2, <3>3, <3>4 DEF FlushLineFails
    <2>9. CASE LoseBuffers
      BY <1>a, <2>9, EmptyTypes DEF LoseBuffers
    <2>10. CASE DiskFreed \/ UNCHANGED writerVars
      BY <1>a, <2>10 DEF DiskFreed, writerVars
    <2> QED
      BY <2>1, <2>2, <2>3, <2>4, <2>5, <2>6, <2>7, <2>8, <2>9, <2>10
  <1> QED
    BY <1>a, <1>b DEF WriterTypeOK, LastCounted, CsvType, JsonlType

\* Every step of the pool keeps every future in one of its states.
LEMMA PoolTypes ==
    ASSUME PoolTypeOK,
           \/ \E h \in Hosts : \/ Submit(h, targets) \/ WorkerStart(h, workers)
                               \/ WorkerFinish(h) \/ Yield(h)
           \/ fut' = [h \in Hosts |-> "idle"]
           \/ UNCHANGED fut
    PROVE  PoolTypeOK'
  BY DEF PoolTypeOK, FutureStates, Submit, WorkerStart, WorkerFinish, Yield, Advance

\* An untouched campaign is well-formed.
LEMMA TypeInit == Init => TypeOK
  <1>1. Init => PoolTypeOK
    BY DEF Init, PoolInit, PoolTypeOK, FutureStates
  <1>2. Init => WriterTypeOK
    <2>1. 0 \in 0..MaxFills
      BY WriterAssumption
    <2> QED
      BY <2>1, EmptyTypes DEF Init, WriterInit, WriterTypeOK, LastCounted, CsvType, JsonlType
  <1>3. 0 \in 0..MaxFaults /\ 0 \in Int
    BY CampaignAssumption
  <1> QED
    BY <1>1, <1>2, <1>3 DEF Init, TypeOK

\* Every step, of the main thread, the workers and the environment, keeps the
\* campaign well-formed.
LEMMA TypeStep == TypeOK /\ [Next]_vars => TypeOK'
  <1> SUFFICES ASSUME TypeOK, [Next]_vars
               PROVE  TypeOK'
    OBVIOUS
  <1> USE DEF TypeOK, Goto, Writing, Pooling, Closing
  <1>1. ASSUME NEW i \in Invocations, Launch(i)
        PROVE  TypeOK'
    <2>1. i.resume \in BOOLEAN /\ i.limit \in Int /\ i.workers \in Int
      BY CampaignAssumption
    <2>2. Asked(i.limit) \subseteq Hosts
      BY DEF Asked
    <2> QED
      BY <1>1, <2>1, <2>2, PoolTypes, WriterTypes DEF Launch
  <1>2. CASE OpenCsvFile
    BY <1>2, PoolTypes, WriterTypes DEF OpenCsvFile
  <1>3. CASE OpenJsonlFile
    BY <1>3, PoolTypes, WriterTypes DEF OpenJsonlFile
  <1>4. ASSUME NEW h \in Hosts, SubmitNext(h)
        PROVE  TypeOK'
    BY <1>4, PoolTypes, WriterTypes DEF SubmitNext, runVars
  <1>5. ASSUME NEW h \in Hosts, TakeResult(h)
        PROVE  TypeOK'
    BY <1>5, PoolTypes, WriterTypes DEF TakeResult
  <1>6. CASE SubmitDone
    BY <1>6, PoolTypes, WriterTypes DEF SubmitDone
  <1>7. CASE WriteRow
    BY <1>7, PoolTypes, WriterTypes DEF WriteRow
  <1>8. CASE FlushCsv
    BY <1>8, PoolTypes, WriterTypes DEF FlushCsv
  <1>9. CASE WriteLine
    BY <1>9, PoolTypes, WriterTypes DEF WriteLine
  <1>10. CASE FlushJsonl
    BY <1>10, PoolTypes, WriterTypes DEF FlushJsonl
  <1>11. CASE WriteFails
    BY <1>11, PoolTypes, WriterTypes DEF WriteFails
  <1>12. CASE PoolExit
    BY <1>12, PoolTypes, WriterTypes DEF PoolExit
  <1>13. CASE CloseCsv
    BY <1>13, PoolTypes, WriterTypes DEF CloseCsv
  <1>14. CASE CloseJsonl
    BY <1>14, PoolTypes, WriterTypes DEF CloseJsonl
  <1>15. CASE CloseFails
    BY <1>15, PoolTypes, WriterTypes DEF CloseFails
  <1>16. CASE Exit
    BY <1>16, PoolTypes, WriterTypes DEF Exit
  <1>17. CASE Interrupt
    BY <1>17, PoolTypes, WriterTypes, CampaignAssumption DEF Interrupt, Fault
  <1>18. CASE Kill
    BY <1>18, PoolTypes, WriterTypes, CampaignAssumption DEF Kill, Fault
  <1>19. CASE FreeDisk
    BY <1>19, PoolTypes, WriterTypes DEF FreeDisk, runVars
  <1>20. ASSUME NEW h \in Hosts, WorkerStarts(h) \/ WorkerFinishes(h)
         PROVE  TypeOK'
    BY <1>20, PoolTypes, WriterTypes DEF WorkerStarts, WorkerFinishes, runVars
  <1>21. CASE UNCHANGED vars
    BY <1>21, PoolTypes, WriterTypes DEF vars, runVars
  <1>22. CASE PoolRefused
    BY <1>22, PoolTypes, WriterTypes DEF PoolRefused
  <1> QED
    BY <1>1, <1>2, <1>3, <1>4, <1>5, <1>6, <1>7, <1>8, <1>9, <1>10, <1>11, <1>12,
       <1>13, <1>14, <1>15, <1>16, <1>17, <1>18, <1>19, <1>20, <1>21, <1>22
    DEF Next, MainStep, WorkerStep

\* Type correctness of the campaign.
THEOREM TypeCorrect == Spec => []TypeOK
  BY TypeInit, TypeStep, PTL DEF Spec

-----------------------------------------------------------------------------
(* The table: few lines per host, one header, no wasted scans.             *)

\* What the state of the files and the pool is made of.
LEMMA StateTypes ==
    ASSUME TypeOK
    PROVE  /\ fut \in [Hosts -> FutureStates] /\ targets \subseteq Hosts
           /\ cur \in Hosts \cup {NoRow} /\ resume \in BOOLEAN
           /\ csv \in CsvType /\ csv.headers \in Nat /\ csv.keyed \in [Hosts -> Nat]
           /\ csv.tail \in Cuts \cup {"none"} /\ csv.last \in Hosts \cup {NoRow}
           /\ csv.last # NoRow => csv.tail = "hostname" /\ csv.keyed[csv.last] > 0
           /\ jsonl \in JsonlType /\ jsonl.lines \in [Hosts -> Nat]
           /\ jsonl.torn \in BOOLEAN /\ jsonl.last \in Hosts \cup {NoRow}
           /\ jsonl.last # NoRow => jsonl.torn /\ jsonl.lines[jsonl.last] > 0
           /\ csvBuf \in [header : BOOLEAN, row : Hosts \cup {NoRow}, rest : BOOLEAN]
           /\ jsonlBuf \in [row : Hosts \cup {NoRow}, rest : BOOLEAN]
           /\ diskFull \in BOOLEAN /\ fills \in Nat
  BY WriterAssumption
  DEF TypeOK, PoolTypeOK, WriterTypeOK, LastCounted, CsvType, JsonlType

\* How a step may change the balance of a host: its lines k, its own row that is
\* still to come, a, and a line that may be misread, m, within what b full disks
\* allow.  Nothing is added, or a new line replaces what was still to come, or
\* another full disk pays, or the host starts from nothing.
BalanceKept(k, k2, a, a2, m, m2, b, b2) ==
    \/ b2 = b /\ k2 \in {k - 1, k} /\ (a2 => a) /\ (m2 => m)
    \/ b2 = b + 1 /\ k2 \in {k - 1, k} /\ (a2 => a)
    \/ b2 = b /\ m /\ ~m2 /\ k2 = k + 1 /\ (a2 => a)
    \/ b2 = b /\ a /\ ~a2 /\ k2 = k + 1 /\ (m2 => m)
    \/ b2 = b + 1 /\ ~m2 /\ k2 = k + 1 /\ (a2 => a)
    \/ b2 = b + 1 /\ a /\ ~a2 /\ k2 = k + 1
    \/ b2 = b /\ k2 = 0 /\ (m2 => b > 0)

\* All of them keep it within the bound of RowsBounded.
LEMMA RowsStayBounded ==
    ASSUME TypeOK, TypeOK', RowsBounded,
           \A h \in Hosts :
              BalanceKept(csv.keyed[h], csv'.keyed[h], RowAhead(h), RowAhead(h)',
                          Misreadable(h), Misreadable(h)', fills, fills')
    PROVE  RowsBounded'
  <1> SUFFICES ASSUME NEW h \in Hosts
               PROVE  (csv.keyed[h] + One(RowAhead(h)) + One(Misreadable(h)) <= 1 + fills)'
    BY DEF RowsBounded
  <1>1. /\ csv.keyed[h] \in Nat /\ fills \in Nat
        /\ csv.keyed[h] + One(RowAhead(h)) + One(Misreadable(h)) <= 1 + fills
    BY StateTypes DEF RowsBounded
  <1>2. RowAhead(h) \in BOOLEAN /\ Misreadable(h) \in BOOLEAN
    BY DEF RowAhead, Misreadable
  <1>3. (RowAhead(h) \in BOOLEAN /\ Misreadable(h) \in BOOLEAN)'
    BY DEF RowAhead, Misreadable
  <1>4. csv'.keyed \in [Hosts -> Nat] /\ fills' \in 0..MaxFills
    BY DEF TypeOK, WriterTypeOK
  <1>5. ASSUME NEW k0, k0 = csv.keyed[h], NEW k, k = csv'.keyed[h],
               NEW a0, a0 = RowAhead(h), NEW a, a = RowAhead(h)',
               NEW m0, m0 = Misreadable(h), NEW m, m = Misreadable(h)',
               NEW b0, b0 = fills, NEW b, b = fills'
        PROVE  k + One(a) + One(m) <= 1 + b
    <2>1. BalanceKept(k0, k, a0, a, m0, m, b0, b)
      BY ONLY <1>5, Zenon,
         \A g \in Hosts :
              BalanceKept(csv.keyed[g], csv'.keyed[g], RowAhead(g), RowAhead(g)',
                          Misreadable(g), Misreadable(g)', fills, fills')
    <2>2. k0 \in Nat /\ b0 \in Nat /\ k0 + One(a0) + One(m0) <= 1 + b0
      BY ONLY <1>1, <1>5, Zenon
    <2>3. a0 \in BOOLEAN /\ a \in BOOLEAN /\ m0 \in BOOLEAN /\ m \in BOOLEAN
      BY ONLY <1>2, <1>3, <1>5, Zenon
    <2>4. k \in Nat /\ b \in 0..MaxFills
      BY ONLY <1>4, <1>5, Zenon
    <2>5. b \in Nat
      BY ONLY <2>4, WriterAssumption
    <2> QED
      BY ONLY <2>1, <2>2, <2>3, <2>4, <2>5 DEF BalanceKept, One
  <1> QED
    BY ONLY <1>5, Zenon

\* The invariant holds at the start, when both files are empty.
LEMMA InvInit == Init => CampaignInv
  <1> SUFFICES ASSUME Init
               PROVE  CampaignInv
    OBVIOUS
  <1>1. TypeOK
    BY TypeInit
  <1>2. /\ csv = EmptyCsv /\ csvBuf = EmptyCsvBuf /\ jsonl = EmptyJsonl /\ pc = "down"
        /\ ~diskFull /\ fills = 0
        /\ \A h \in Hosts : fut[h] = "idle"
    BY DEF Init, WriterInit, PoolInit
  <1>3. \A h \in Hosts : ~RowAhead(h) /\ ~Misreadable(h)
    BY <1>2, EmptyTypes DEF RowAhead, Misreadable, FileOpen
  <1>4. RowsBounded
    BY <1>2, <1>3, EmptyTypes DEF RowsBounded, One
  <1> QED
    BY <1>1, <1>2, <1>4, EmptyTypes
    DEF CampaignInv, HeaderFirst, PoolScope, RecordInHand, FileOpen, Pooling, Writing

\* Before anything is in the file its header is in the buffer.
LEMMA HeaderSum ==
    ASSUME TypeOK, HeaderFirst, csv.headers <= 1, pc \in {"csv_flush", "close_csv"}
    PROVE  Headers = 1
  <1>1. csv.headers \in Nat /\ csvBuf.header \in BOOLEAN
    BY StateTypes
  <1>2. csvBuf.header \/ csv.headers = 1
    BY DEF HeaderFirst, Pooling, Writing
  <1>3. csvBuf.header => csv.headers = 0
    BY EmptyTypes DEF HeaderFirst
  <1> QED
    BY <1>1, <1>2, <1>3 DEF Headers, One

\* A flush that goes through keeps the balance of every host and leaves exactly
\* one header, if the header was buffered for a file without one.
LEMMA FlushRowInv ==
    ASSUME CampaignInv, TypeOK', FlushRow, pc \in {"csv_flush", "close_csv"},
           pc' \in {"jsonl_row", "close_jsonl"}, UNCHANGED <<fut, targets>>
    PROVE  RowsBounded' /\ csv'.headers = 1 /\ csvBuf' = EmptyCsvBuf
  <1>1. /\ TypeOK /\ WriterTypeOK /\ RowsBounded /\ RecordInHand /\ Headers = 1
        /\ csvBuf' = EmptyCsvBuf /\ UNCHANGED <<diskFull, fills>>
        /\ FileOpen /\ (diskFull => csvBuf = EmptyCsvBuf)
    BY HeaderSum DEF CampaignInv, TypeOK, FlushRow, FileOpen
  <1>2. /\ csv.keyed \in [Hosts -> Nat] /\ csv.last \in Hosts \cup {NoRow}
        /\ csv.last # NoRow => csv.tail = "hostname" /\ csv.keyed[csv.last] > 0
        /\ csv.tail \in Cuts \cup {"none"} /\ csvBuf.row \in Hosts \cup {NoRow}
        /\ csvBuf.rest \in BOOLEAN
    BY <1>1, StateTypes
  <1>3. PICK read \in Readings, quotes \in BOOLEAN : csv' = CsvAfterFlush(read, quotes)
    BY DEF FlushRow
  <1>4. \A h \in Hosts : RowAhead(h)' => h \in targets /\ fut[h] # "yielded"
    BY <1>1, EmptyTypes DEF RowAhead
  <1>5. \A h \in Hosts : RowAhead(h)' => RowAhead(h)
    BY <1>1, <1>4 DEF RowAhead
  <1>6. CASE csvBuf.row = NoRow
    <2>1. /\ csv'.headers = Headers /\ csv'.keyed = csv.keyed
          /\ csv'.tail = csv.tail /\ csv'.last = csv.last
      BY <1>1, <1>3, <1>6, HeaderFacts
    <2>2. \A h \in Hosts : Misreadable(h)' => Misreadable(h)
      BY <1>1, <2>1 DEF Misreadable
    <2>3. RowsBounded'
      BY <1>1, <1>2, <1>5, <2>1, <2>2, RowsStayBounded DEF BalanceKept
    <2> QED
      BY <1>1, <2>1, <2>3
  <1>7. CASE csvBuf.row # NoRow
    <2>1. /\ read \in Hosts \cup {NoRow} /\ csv'.headers = Headers /\ csv'.last = NoRow
          /\ csv'.keyed = Recount(csv.keyed, read, csv.last)
          /\ csv'.tail = "quoted" \/ csv'.tail = "none"
          /\ csv'.tail = "quoted" => csv.tail = "quoted"
          /\ csvBuf.rest => read \in {csvBuf.row, NoRow}
          /\ csvBuf.rest /\ read # NoRow => csv.tail \in {"domain", "hostname"}
          /\ csv.tail \in {"none", "end"} => read \in {csvBuf.row, NoRow}
          /\ csv.tail \in {"record", "quoted"} => read = NoRow
      BY <1>1, <1>3, <1>7, FlushFacts
    <2>2. ~diskFull /\ ~diskFull'
      BY <1>1, <1>7, EmptyTypes
    <2>3. fut[csvBuf.row] = "yielded"
      BY <1>1, <1>7 DEF RecordInHand
    <2>4. ASSUME NEW h \in Hosts
          PROVE  BalanceKept(csv.keyed[h], csv'.keyed[h], RowAhead(h), RowAhead(h)',
                             Misreadable(h), Misreadable(h)', fills, fills')
      <3>1. /\ csv.keyed[h] \in Nat /\ h # NoRow
            /\ h # read /\ h # csv.last => csv'.keyed[h] = csv.keyed[h]
            /\ h = read /\ h = csv.last => csv'.keyed[h] = csv.keyed[h]
            /\ h = read /\ h # csv.last => csv'.keyed[h] = csv.keyed[h] + 1
            /\ h # read /\ h = csv.last => csv'.keyed[h] = csv.keyed[h] - 1
        <4>1. ASSUME NEW f, f = csv.keyed, NEW g, g = csv.last
              PROVE  /\ f[h] \in Nat /\ h # NoRow
                     /\ h # read /\ h # g => Recount(f, read, g)[h] = f[h]
                     /\ h = read /\ h = g => Recount(f, read, g)[h] = f[h]
                     /\ h = read /\ h # g => Recount(f, read, g)[h] = f[h] + 1
                     /\ h # read /\ h = g => Recount(f, read, g)[h] = f[h] - 1
          <5>1. /\ f \in [Hosts -> Nat] /\ g \in Hosts \cup {NoRow}
                /\ g # NoRow => f[g] > 0
            BY ONLY <1>2, <4>1, Zenon
          <5>2. read \in Hosts \cup {NoRow} /\ h # NoRow
            BY <2>1
          <5> QED
            BY ONLY <5>1, <5>2, RecountFacts
        <4>2. csv'.keyed = Recount(csv.keyed, read, csv.last)
          BY <2>1
        <4> QED
          BY ONLY <4>1, <4>2, ZenonT(60)
      <3>2. Misreadable(h)' => csv'.tail = "quoted"
        BY <2>1, <2>2 DEF Misreadable
      <3>3. Misreadable(h)' => Misreadable(h)
        BY <1>2, <2>1, <3>1, <3>2 DEF Misreadable
      <3>4. CASE h # read \/ h = csv.last
        BY <1>1, <1>5, <3>1, <3>3, <3>4 DEF BalanceKept
      <3>5. CASE h = read /\ h # csv.last /\ h = csvBuf.row
        <4>1. RowAhead(h)
          BY <1>1, <2>1, <3>1, <3>5 DEF RowAhead
        <4>2. ~RowAhead(h)'
          BY <1>4, <2>3, <3>5
        <4> QED
          BY <1>1, <3>1, <3>3, <3>5, <4>1, <4>2 DEF BalanceKept
      <3>6. CASE h = read /\ h # csv.last /\ h # csvBuf.row
        <4>1. csv.tail \in {"domain", "hostname"}
          BY <1>2, <2>1, <3>1, <3>6
        <4>2. Misreadable(h) /\ ~Misreadable(h)'
          BY <2>1, <3>2, <3>6, <4>1 DEF Misreadable
        <4> QED
          BY <1>1, <1>5, <3>1, <3>6, <4>2 DEF BalanceKept
      <3> QED
        BY <3>4, <3>5, <3>6
    <2>5. RowsBounded'
      BY <1>1, <2>4, RowsStayBounded
    <2> QED
      BY <1>1, <2>1, <2>5
  <1> QED
    BY <1>6, <1>7

\* A flush that fails is another full disk, or one that pays already for the
\* line it may leave unfinished.
LEMMA FlushRowFailsInv ==
    ASSUME CampaignInv, TypeOK', FlushRowFails, pc \in {"csv_flush", "close_csv"},
           pc' \in {"drain", "close_csv"}, UNCHANGED <<fut, targets>>
    PROVE  /\ RowsBounded' /\ csvBuf'.row = csvBuf.row
           /\ UNCHANGED <<csv, csvBuf>> \/ (csv'.headers = 1 /\ ~csvBuf'.header)
  <1>1. /\ TypeOK /\ WriterTypeOK /\ RowsBounded /\ RecordInHand /\ Headers = 1
        /\ FileOpen /\ FileOpen'
    BY HeaderSum DEF CampaignInv, TypeOK, FileOpen
  <1>2. /\ csv \in CsvType /\ csv.headers \in Nat
        /\ csv.keyed \in [Hosts -> Nat] /\ csv.last \in Hosts \cup {NoRow}
        /\ csv.last # NoRow => csv.tail = "hostname" /\ csv.keyed[csv.last] > 0
        /\ csvBuf \in [header : BOOLEAN, row : Hosts \cup {NoRow}, rest : BOOLEAN]
        /\ fills \in Nat
    BY <1>1, StateTypes
  <1>3. /\ diskFull' /\ (diskFull => fills' = fills) /\ (~diskFull => fills' = fills + 1)
    BY DEF FlushRowFails, DiskRefuses
  <1>4. CASE UNCHANGED <<csv, csvBuf>>
    <2>1. \A h \in Hosts : RowAhead(h)' => RowAhead(h)
      BY <1>1, <1>4 DEF RowAhead
    <2>2. \A h \in Hosts : diskFull => (Misreadable(h)' => Misreadable(h))
      BY <1>4 DEF Misreadable
    <2>3. \A h \in Hosts : csv'.keyed[h] = csv.keyed[h]
      BY <1>2, <1>4
    <2>4. RowsBounded'
      BY <1>1, <1>3, <2>1, <2>2, <2>3, RowsStayBounded DEF BalanceKept
    <2> QED
      BY <1>4, <2>4
  <1>5. ASSUME csv.tail = "none", csvBuf.row # NoRow, ~csvBuf.rest,
               NEW cut \in Cuts, NEW name \in Hosts \cup {NoRow},
               csv' = CsvAfterCut(cut, name),
               csvBuf' = [csvBuf EXCEPT !.header = FALSE, !.rest = TRUE]
        PROVE  /\ RowsBounded' /\ csvBuf'.row = csvBuf.row
               /\ csv'.headers = 1 /\ ~csvBuf'.header
    <2>1. /\ csv'.headers = Headers /\ csv'.tail = cut
          /\ csv'.last = IF cut = "hostname" THEN name ELSE NoRow
      BY <1>1, <1>5, CutFacts
    <2>2. PICK read \in Hosts \cup {NoRow} :
             /\ csv'.keyed = Recount(csv.keyed, read, NoRow)
             /\ cut = "domain" => read = NoRow
             /\ cut = "hostname" => read = name
             /\ cut \in {"record", "quoted", "end"} => read = csvBuf.row
      <3>1. /\ cut = "domain" => csv'.keyed = Recount(csv.keyed, NoRow, NoRow)
            /\ cut = "hostname" => csv'.keyed = Recount(csv.keyed, name, NoRow)
            /\ cut \in {"record", "quoted", "end"}
                 => csv'.keyed = Recount(csv.keyed, csvBuf.row, NoRow)
        BY <1>1, <1>5, CutFacts
      <3> QED
        BY <1>2, <3>1
    <2>3. csvBuf'.row = csvBuf.row /\ csvBuf'.rest /\ ~csvBuf'.header
      BY <1>2, <1>5
    <2>4. csv.last = NoRow /\ \A h \in Hosts : Misreadable(h) <=> diskFull
      BY <1>2, <1>5 DEF Misreadable
    <2>5. fut[csvBuf.row] = "yielded"
      BY <1>1, <1>5 DEF RecordInHand
    <2>6. ASSUME NEW h \in Hosts
          PROVE  BalanceKept(csv.keyed[h], csv'.keyed[h], RowAhead(h), RowAhead(h)',
                             Misreadable(h), Misreadable(h)', fills, fills')
      <3>1. /\ csv.keyed[h] \in Nat /\ h # NoRow
            /\ h # read => csv'.keyed[h] = csv.keyed[h]
            /\ h = read => csv'.keyed[h] = csv.keyed[h] + 1
        <4>1. ASSUME NEW f, f = csv.keyed
              PROVE  /\ f[h] \in Nat /\ h # NoRow
                     /\ h # read => Recount(f, read, NoRow)[h] = f[h]
                     /\ h = read => Recount(f, read, NoRow)[h] = f[h] + 1
          <5>1. f \in [Hosts -> Nat]
            BY ONLY <1>2, <4>1, Zenon
          <5>2. read \in Hosts \cup {NoRow} /\ h # NoRow
            OBVIOUS
          <5> QED
            BY ONLY <5>1, <5>2, RecountOne
        <4> QED
          BY ONLY <2>2, <4>1, Zenon
      <3>2. Misreadable(h)' <=> csv'.last # h
        BY <1>3 DEF Misreadable
      <3>3. RowAhead(h)' => RowAhead(h)
        BY <1>1, <1>5, <2>3 DEF RowAhead
      <3>4. CASE h # read
        BY <1>3, <2>4, <3>1, <3>2, <3>3, <3>4 DEF BalanceKept
      <3>5. CASE h = read /\ cut = "hostname"
        <4>1. ~Misreadable(h)'
          BY <2>1, <2>2, <3>2, <3>5
        <4> QED
          BY <1>3, <2>4, <3>1, <3>3, <3>5, <4>1 DEF BalanceKept
      <3>6. CASE h = read /\ cut \in {"record", "quoted", "end"}
        <4>1. h = csvBuf.row
          BY <2>2, <3>6
        <4>2. RowAhead(h)
          BY <1>1, <1>5, <4>1 DEF RowAhead
        <4>3. ~RowAhead(h)'
          BY <1>1, <2>1, <2>3, <2>5, <3>6, <4>1 DEF RowAhead
        <4> QED
          BY <1>3, <2>4, <3>1, <3>6, <4>2, <4>3 DEF BalanceKept
      <3>7. cut = "domain" => h # read
        BY <2>2, <3>1
      <3> QED
        BY <3>4, <3>5, <3>6, <3>7
    <2>7. RowsBounded'
      BY <1>1, <2>6, RowsStayBounded
    <2> QED
      BY <1>1, <2>1, <2>3, <2>7
  <1>6. CASE /\ csv.tail = "quoted" /\ csvBuf.row # NoRow /\ ~csvBuf.rest
             /\ csv' = [csv EXCEPT !.tail = "record"] /\ UNCHANGED csvBuf
    <2>1. /\ csv'.keyed = csv.keyed /\ csv'.headers = csv.headers
          /\ csv.last = NoRow /\ csv'.last = NoRow
      BY <1>2, <1>6 DEF CsvType
    <2>2. \A h \in Hosts : RowAhead(h)' => RowAhead(h)
      BY <1>1, <1>6 DEF RowAhead
    <2>3. \A h \in Hosts : Misreadable(h)' => Misreadable(h)
      BY <1>6, <2>1 DEF Misreadable
    <2>4. \A h \in Hosts : csv'.keyed[h] = csv.keyed[h]
      BY <1>2, <2>1
    <2>5. RowsBounded'
      BY <1>1, <1>3, <2>2, <2>3, <2>4, RowsStayBounded DEF BalanceKept
    <2>6. csv'.headers = 1 /\ ~csvBuf'.header
      <3>1. csv # EmptyCsv
        BY <1>6, EmptyTypes
      <3>2. csv.headers # 0 /\ ~csvBuf.header
        BY <3>1 DEF CampaignInv, HeaderFirst
      <3> QED
        BY <1>2, <1>6, <2>1, <3>2 DEF CampaignInv
    <2> QED
      BY <1>6, <2>5, <2>6
  <1> QED
    BY <1>4, <1>5, <1>6 DEF FlushRowFails

\* A step that leaves the table alone keeps every balance, unless a row is more
\* to come than before.
LEMMA RowsKept ==
    ASSUME TypeOK, TypeOK', RowsBounded, UNCHANGED <<csv, fills>>, diskFull' => diskFull,
           \A h \in Hosts : RowAhead(h)' => RowAhead(h)
    PROVE  RowsBounded'
  <1>1. \A h \in Hosts : Misreadable(h)' => Misreadable(h)
    BY DEF Misreadable
  <1>2. \A h \in Hosts : csv.keyed[h] \in Nat /\ csv'.keyed[h] = csv.keyed[h]
    BY StateTypes
  <1> QED
    BY <1>1, <1>2, RowsStayBounded DEF BalanceKept

\* Every step keeps the invariant.
LEMMA InvStep == CampaignInv /\ [Next]_vars => CampaignInv'
  <1> SUFFICES ASSUME CampaignInv, [Next]_vars
               PROVE  CampaignInv'
    OBVIOUS
  <1>1. TypeOK /\ TypeOK' /\ RowsBounded
    BY TypeStep DEF CampaignInv
  <1>2. /\ fut \in [Hosts -> FutureStates] /\ targets \subseteq Hosts
        /\ csv.headers \in Nat /\ csv.keyed \in [Hosts -> Nat]
        /\ csvBuf \in [header : BOOLEAN, row : Hosts \cup {NoRow}, rest : BOOLEAN]
        /\ fills \in Nat /\ (fills = 0 => ~diskFull /\ ~jsonl.torn /\ csv.tail = "none")
    BY <1>1, StateTypes DEF CampaignInv
  <1> USE DEF HeaderFirst, PoolScope, RecordInHand, FileOpen, Goto, Pooling, Writing, Closing
  <1>3. ASSUME NEW i \in Invocations, Launch(i)
        PROVE  CampaignInv'
    <2>1. resume' => \A h \in targets' : csv.keyed[h] = 0
      <3>1. /\ resume' => targets' \cap CompletedHostnames = {}
            /\ targets' \subseteq Hosts
        BY <1>1, <1>3 DEF Launch, TypeOK
      <3>2. \A h \in Hosts : csv.headers = 0 => csv.keyed[h] = 0
        BY EmptyTypes DEF CampaignInv
      <3>3. ASSUME NEW h \in Hosts, h \notin CompletedHostnames
            PROVE  csv.keyed[h] = 0
        <4>1. csv.keyed[h] \in Nat
          BY <1>2
        <4>2. csv.headers = 0 \/ ~(csv.keyed[h] > 0)
          BY <3>3 DEF CompletedHostnames
        <4> QED
          BY <3>2, <4>1, <4>2
      <3> QED
        BY <3>1, <3>3
    <2>2. /\ UNCHANGED <<fut, csv, jsonl, csvBuf, diskFull, fills, cur>>
          /\ pc = "down" /\ pc' = "open_csv" /\ targets' \subseteq Hosts
      BY <1>1, <1>3 DEF Launch, writerVars, TypeOK
    <2>3. \A h \in Hosts : Misreadable(h)' <=> Misreadable(h)
      BY <2>2 DEF Misreadable
    <2>4. \A h \in Hosts : RowAhead(h)' => csv.keyed[h] = 0
      BY <2>1, <2>2 DEF RowAhead
    <2>5. \A h \in Hosts : Misreadable(h) => fills > 0
      BY <1>2 DEF Misreadable
    <2>6. ASSUME NEW h \in Hosts
          PROVE  BalanceKept(csv.keyed[h], csv'.keyed[h], RowAhead(h), RowAhead(h)',
                             Misreadable(h), Misreadable(h)', fills, fills')
      <3>1. csv'.keyed[h] = csv.keyed[h] /\ csv.keyed[h] \in Nat
        BY <1>2, <2>2
      <3> QED
        BY <1>2, <2>2, <2>3, <2>4, <2>5, <3>1 DEF BalanceKept
    <2>7. RowsBounded'
      BY <1>1, <2>6, RowsStayBounded
    <2> QED
      BY <1>1, <1>2, <2>2, <2>7 DEF CampaignInv
  <1>4. CASE OpenCsvFile
    <2>1. /\ pc = "open_csv" /\ pc' = "open_jsonl"
          /\ UNCHANGED <<fut, resume, targets, cur, jsonl, diskFull, fills>>
          /\ csv' = IF resume THEN csv ELSE EmptyCsv
          /\ csvBuf' = [EmptyCsvBuf EXCEPT !.header = (csv' = EmptyCsv)]
      BY <1>4 DEF OpenCsvFile, OpenCsv
    <2>2. csvBuf'.row = NoRow /\ (csvBuf'.header <=> csv' = EmptyCsv)
      <3>1. csvBuf'.header = (csv' = EmptyCsv)
        BY <2>1 DEF EmptyCsvBuf
      <3> QED
        BY <2>1, <3>1 DEF EmptyCsvBuf
    <2>3. /\ csv'.headers \in Nat /\ csv'.headers <= 1
          /\ csv'.headers = 0 => csv' = EmptyCsv
          /\ csv' # EmptyCsv => csv'.headers = 1
      BY <1>2, <2>1, EmptyTypes DEF CampaignInv
    <2>4. \A h \in Hosts : RowAhead(h)' => h \in targets
      BY <2>1, <2>2 DEF RowAhead
    <2>5. ASSUME NEW h \in Hosts
          PROVE  BalanceKept(csv.keyed[h], csv'.keyed[h], RowAhead(h), RowAhead(h)',
                             Misreadable(h), Misreadable(h)', fills, fills')
      <3>1. CASE resume
        <4>1. csv'.keyed[h] = csv.keyed[h] /\ csv.keyed[h] \in Nat
          BY <1>2, <2>1, <3>1
        <4>2. RowAhead(h)' => RowAhead(h)
          BY <2>1, <2>4, <3>1 DEF RowAhead
        <4>3. Misreadable(h)' => Misreadable(h)
          BY <2>1, <3>1 DEF Misreadable
        <4> QED
          BY <2>1, <4>1, <4>2, <4>3 DEF BalanceKept
      <3>2. CASE ~resume
        <4>1. csv'.keyed[h] = 0
          BY <2>1, <3>2, EmptyTypes
        <4>2. Misreadable(h)' => diskFull
          BY <2>1, <3>2, EmptyTypes DEF Misreadable
        <4> QED
          BY <1>2, <2>1, <4>1, <4>2 DEF BalanceKept
      <3> QED
        BY <1>1, <3>1, <3>2 DEF TypeOK
    <2>6. RowsBounded'
      BY <1>1, <2>5, RowsStayBounded
    <2>7. HeaderFirst'
      BY <2>1, <2>2, <2>3
    <2>8. (fills = 0 => ~diskFull /\ ~jsonl.torn /\ csv.tail = "none")'
      BY <1>2, <2>1, EmptyTypes
    <2>9. PoolScope' /\ RecordInHand'
      BY <1>2, <2>1, <2>2 DEF CampaignInv
    <2> QED
      BY <1>1, <2>3, <2>6, <2>7, <2>8, <2>9 DEF CampaignInv
  <1>5. CASE OpenJsonlFile
    <2>1. /\ pc = "open_jsonl" /\ pc' = "submit"
          /\ UNCHANGED <<fut, resume, targets, cur, csv, csvBuf, diskFull, fills>>
          /\ jsonl' = IF resume THEN jsonl ELSE EmptyJsonl
      BY <1>5 DEF OpenJsonlFile, OpenJsonl
    <2>2. \A h \in Hosts : RowAhead(h)' => RowAhead(h)
      BY <2>1 DEF RowAhead
    <2>3. RowsBounded'
      BY <1>1, <2>1, <2>2, RowsKept
    <2>4. ~jsonl.torn => ~jsonl'.torn
      BY <2>1, EmptyTypes
    <2> QED
      BY <1>1, <1>2, <2>1, <2>3, <2>4 DEF CampaignInv
  <1>6. ASSUME NEW h \in Hosts, SubmitNext(h)
        PROVE  CampaignInv'
    <2>1. /\ pc = "submit" /\ fut' = [fut EXCEPT ![h] = "queued"]
          /\ h \in targets /\ fut[h] = "idle"
          /\ UNCHANGED <<csv, jsonl, csvBuf, diskFull, fills, pc, resume, targets, cur>>
      BY <1>6 DEF SubmitNext, Submit, Advance, IsFirst, writerVars, runVars
    <2>2. \A g \in Hosts : RowAhead(g)' => RowAhead(g)
      BY <1>2, <2>1 DEF RowAhead
    <2>3. RowsBounded'
      BY <1>1, <2>1, <2>2, RowsKept
    <2> QED
      BY <1>1, <1>2, <2>1, <2>3 DEF CampaignInv
  <1>7. ASSUME NEW h \in Hosts, TakeResult(h)
        PROVE  CampaignInv'
    <2>1. /\ pc = "wait" /\ pc' = "csv_row" /\ cur' = h
          /\ fut' = [fut EXCEPT ![h] = "yielded"] /\ fut[h] = "finished"
          /\ UNCHANGED <<csv, jsonl, csvBuf, diskFull, fills, resume, targets>>
      BY <1>7 DEF TakeResult, Yield, Advance, writerVars
    <2>2. RowAhead(h)
      BY <2>1 DEF CampaignInv, RowAhead
    <2>3. \A g \in Hosts : RowAhead(g)' => RowAhead(g)
      BY <1>2, <2>1, <2>2 DEF RowAhead
    <2>4. RowsBounded'
      BY <1>1, <2>1, <2>3, RowsKept
    <2> QED
      BY <1>1, <1>2, <2>1, <2>4 DEF CampaignInv
  <1>8. CASE SubmitDone \/ PoolExit \/ PoolRefused
    <2>1. /\ \/ pc = "submit" /\ pc' \in {"wait", "close_csv"}
             \/ pc \in {"wait", "drain"} /\ pc' = "close_csv"
          /\ UNCHANGED <<fut, csv, jsonl, csvBuf, diskFull, fills, resume, targets, cur>>
      BY <1>8 DEF SubmitDone, PoolExit, PoolRefused, writerVars
    <2>2. \A g \in Hosts : RowAhead(g)' => RowAhead(g)
      BY <2>1 DEF RowAhead
    <2>3. RowsBounded'
      BY <1>1, <2>1, <2>2, RowsKept
    <2> QED
      BY <1>1, <1>2, <2>1, <2>3 DEF CampaignInv
  <1>9. CASE WriteRow
    <2>1. /\ pc = "csv_row" /\ pc' = "csv_flush"
          /\ csvBuf' = [csvBuf EXCEPT !.row = cur]
          /\ UNCHANGED <<csv, jsonl, diskFull, fills, fut, resume, targets, cur>>
      BY <1>9 DEF WriteRow, BufferRow
    <2>2. csvBuf'.row = cur /\ csvBuf'.header = csvBuf.header
      BY <1>2, <2>1
    <2>3. \A g \in Hosts : RowAhead(g)' => RowAhead(g)
      BY <2>1, <2>2 DEF RowAhead
    <2>4. RowsBounded'
      BY <1>1, <2>1, <2>3, RowsKept
    <2> QED
      BY <1>1, <1>2, <2>1, <2>2, <2>4 DEF CampaignInv
  <1>10. CASE FlushCsv \/ (CloseCsv /\ FlushRow)
    <2>1. /\ \/ pc = "csv_flush" /\ pc' = "jsonl_row"
             \/ pc = "close_csv" /\ pc' = "close_jsonl"
          /\ FlushRow
          /\ UNCHANGED <<fut, resume, targets, cur, jsonl, diskFull, fills>>
      BY <1>10 DEF FlushCsv, CloseCsv, FlushRow
    <2>2. RowsBounded' /\ csv'.headers = 1 /\ csvBuf' = EmptyCsvBuf
      BY <1>1, <2>1, FlushRowInv
    <2>3. fills = 0 => csv'.tail = "none"
      <3> SUFFICES ASSUME fills = 0
                   PROVE  csv'.tail = "none"
        OBVIOUS
      <3>1. csv.tail = "none"
        BY <1>2
      <3>2. PICK read \in Readings, quotes \in BOOLEAN : csv' = CsvAfterFlush(read, quotes)
        BY <2>1 DEF FlushRow
      <3>3. WriterTypeOK
        BY <1>1 DEF TypeOK
      <3> QED
        BY <3>1, <3>2, <3>3, FlushFacts, HeaderFacts
    <2> QED
      BY <1>1, <1>2, <2>1, <2>2, <2>3, EmptyTypes DEF CampaignInv
  <1>11. CASE (WriteFails \/ CloseFails) /\ FlushRowFails /\ pc \in {"csv_flush", "close_csv"}
    <2>1. /\ pc' \in {"drain", "close_csv"}
          /\ UNCHANGED <<fut, resume, targets, cur>>
      BY <1>11 DEF WriteFails, CloseFails
    <2>2. /\ RowsBounded' /\ csvBuf'.row = csvBuf.row
          /\ UNCHANGED <<csv, csvBuf>> \/ (csv'.headers = 1 /\ ~csvBuf'.header)
      BY <1>1, <1>11, <2>1, FlushRowFailsInv
    <2>3. fills' # 0
      BY <1>2, <1>11 DEF FlushRowFails, DiskRefuses
    <2>4. HeaderFirst' /\ csv'.headers <= 1
      BY <1>11, <2>1, <2>2 DEF CampaignInv
    <2>5. PoolScope' /\ RecordInHand'
      BY <1>11, <2>1, <2>2 DEF CampaignInv
    <2> QED
      BY <1>1, <2>2, <2>3, <2>4, <2>5 DEF CampaignInv
  <1>12. CASE WriteLine \/ FlushJsonl \/ CloseJsonl
    <2>1. /\ \/ pc = "jsonl_row" /\ pc' = "jsonl_flush"
             \/ pc = "jsonl_flush" /\ pc' = "wait"
             \/ pc = "close_jsonl" /\ pc' = "exit"
          /\ UNCHANGED <<csv, csvBuf, diskFull, fills, fut, resume, targets>>
          /\ jsonl' = jsonl \/ jsonl' = JsonlAfterFlush
      BY <1>12 DEF WriteLine, BufferLine, FlushJsonl, FlushLine, CloseJsonl, LoseJsonlBuf
    <2>2. \A g \in Hosts : RowAhead(g)' => RowAhead(g)
      BY <2>1 DEF RowAhead
    <2>3. RowsBounded'
      BY <1>1, <2>1, <2>2, RowsKept
    <2>4. ~jsonl.torn => ~jsonl'.torn
      <3>1. WriterTypeOK
        BY <1>1 DEF TypeOK
      <3> QED
        BY <2>1, <3>1, LineFacts
    <2> QED
      BY <1>1, <1>2, <2>1, <2>3, <2>4 DEF CampaignInv
  <1>13. CASE (WriteFails \/ CloseFails) /\ FlushLineFails
              /\ pc \in {"jsonl_flush", "close_jsonl"}
    <2>1. /\ \/ pc = "jsonl_flush" /\ pc' = "drain"
             \/ pc = "close_jsonl" /\ pc' = "close_jsonl"
          /\ UNCHANGED <<csv, csvBuf, fut, resume, targets, cur>>
          /\ diskFull' /\ (diskFull => fills' = fills) /\ (~diskFull => fills' = fills + 1)
      BY <1>13 DEF WriteFails, CloseFails, FlushLineFails, DiskRefuses
    <2>2. \A g \in Hosts : RowAhead(g)' => RowAhead(g)
      BY <2>1 DEF RowAhead
    <2>3. ASSUME NEW h \in Hosts
          PROVE  BalanceKept(csv.keyed[h], csv'.keyed[h], RowAhead(h), RowAhead(h)',
                             Misreadable(h), Misreadable(h)', fills, fills')
      <3>1. csv'.keyed[h] = csv.keyed[h] /\ csv.keyed[h] \in Nat
        BY <1>2, <2>1
      <3>2. diskFull => (Misreadable(h)' => Misreadable(h))
        BY <2>1 DEF Misreadable
      <3> QED
        BY <2>1, <2>2, <3>1, <3>2 DEF BalanceKept
    <2>4. RowsBounded'
      BY <1>1, <2>3, RowsStayBounded
    <2>5. fills' # 0
      BY <1>2, <2>1
    <2> QED
      BY <1>1, <1>2, <2>1, <2>4, <2>5 DEF CampaignInv
  <1>14. CASE CloseCsv /\ LoseCsvBuf
    <2>1. /\ pc = "close_csv" /\ pc' = "close_jsonl" /\ csvBuf' = EmptyCsvBuf
          /\ UNCHANGED <<csv, jsonl, diskFull, fills, fut, resume, targets, cur>>
      BY <1>14 DEF CloseCsv, LoseCsvBuf
    <2>2. \A g \in Hosts : RowAhead(g)' => RowAhead(g)
      BY <2>1, EmptyTypes DEF RowAhead
    <2>3. RowsBounded'
      BY <1>1, <2>1, <2>2, RowsKept
    <2> QED
      BY <1>1, <1>2, <2>1, <2>3, EmptyTypes DEF CampaignInv
  <1>15. CASE Exit \/ Kill
    <2>1. /\ pc' = "down" /\ UNCHANGED <<csv, jsonl, diskFull, fills>>
          /\ csvBuf' = csvBuf \/ csvBuf' = EmptyCsvBuf
          /\ \A h \in Hosts : fut'[h] = "idle"
      BY <1>15 DEF Exit, Kill, LoseBuffers, writerVars
    <2>2. \A g \in Hosts : RowAhead(g)' => RowAhead(g)
      BY <2>1 DEF RowAhead
    <2>3. RowsBounded'
      BY <1>1, <2>1, <2>2, RowsKept
    <2> QED
      BY <1>1, <1>2, <2>1, <2>3, EmptyTypes DEF CampaignInv
  <1>16. CASE Interrupt
    <2>1. /\ \/ pc = "open_csv" /\ pc' = "down"
             \/ pc = "open_jsonl" /\ pc' = "close_csv"
             \/ pc \in Pooling \ {"drain"} /\ pc' = "drain"
             \/ pc = "drain" /\ pc' = "close_csv"
          /\ UNCHANGED <<csv, jsonl, csvBuf, diskFull, fills, fut, resume, targets, cur>>
      BY <1>16 DEF Interrupt, writerVars
    <2>2. \A g \in Hosts : RowAhead(g)' => RowAhead(g)
      BY <2>1 DEF RowAhead
    <2>3. RowsBounded'
      BY <1>1, <2>1, <2>2, RowsKept
    <2> QED
      BY <1>1, <1>2, <2>1, <2>3 DEF CampaignInv
  <1>17. CASE FreeDisk \/ UNCHANGED vars
    <2>1. /\ UNCHANGED <<csv, jsonl, csvBuf, fills, pc, fut, resume, targets, cur>>
          /\ diskFull' => diskFull
      BY <1>17 DEF FreeDisk, DiskFreed, runVars, writerVars, vars
    <2>2. \A g \in Hosts : RowAhead(g)' => RowAhead(g)
      BY <2>1 DEF RowAhead
    <2>3. RowsBounded'
      BY <1>1, <2>1, <2>2, RowsKept
    <2> QED
      BY <1>1, <1>2, <2>1, <2>3 DEF CampaignInv
  <1>18. ASSUME NEW h \in Hosts, WorkerStarts(h) \/ WorkerFinishes(h)
         PROVE  CampaignInv'
    <2>1. /\ \/ fut[h] = "queued" /\ fut' = [fut EXCEPT ![h] = "running"]
             \/ fut[h] = "running" /\ fut' = [fut EXCEPT ![h] = "finished"]
          /\ UNCHANGED <<csv, jsonl, csvBuf, diskFull, fills, pc, resume, targets, cur>>
      BY <1>18 DEF WorkerStarts, WorkerFinishes, WorkerStart, WorkerFinish, Advance,
         writerVars, runVars
    <2>2. \A g \in Hosts : RowAhead(g)' => RowAhead(g)
      BY <1>2, <2>1 DEF RowAhead
    <2>3. RowsBounded'
      BY <1>1, <2>1, <2>2, RowsKept
    <2> QED
      BY <1>1, <1>2, <2>1, <2>3 DEF CampaignInv
  <1>19. CloseCsv => FlushRow \/ LoseCsvBuf
    BY DEF CloseCsv
  <1>20. WriteFails \/ CloseFails =>
            \/ FlushRowFails /\ pc \in {"csv_flush", "close_csv"}
            \/ FlushLineFails /\ pc \in {"jsonl_flush", "close_jsonl"}
    BY DEF WriteFails, CloseFails
  <1> HIDE DEF HeaderFirst, PoolScope, RecordInHand, FileOpen, Goto, Pooling, Writing, Closing
  <1>21. FlushCsv \/ CloseCsv => CampaignInv'
    BY <1>10, <1>14, <1>19
  <1>22. WriteFails \/ CloseFails => CampaignInv'
    BY <1>11, <1>13, <1>20
  <1> QED
    BY <1>3, <1>4, <1>5, <1>6, <1>7, <1>8, <1>9, <1>12, <1>15, <1>16, <1>17, <1>18,
       <1>21, <1>22
    DEF Next, MainStep, WorkerStep

\* The invariant holds throughout a campaign.
THEOREM Invariance == Spec => []CampaignInv
  BY InvInit, InvStep, PTL DEF Spec

\* What the balance of a host leaves for its lines.
LEMMA BalanceLeft ==
    ASSUME CampaignInv, NEW h \in Hosts
    PROVE  csv.keyed[h] <= 1 + fills /\ (RowAhead(h) => csv.keyed[h] <= fills)
  <1>1. /\ csv.keyed[h] \in Nat /\ fills \in Nat
        /\ csv.keyed[h] + One(RowAhead(h)) + One(Misreadable(h)) <= 1 + fills
    BY StateTypes DEF CampaignInv, RowsBounded
  <1> QED
    BY <1>1 DEF One

\* No host is counted twice, whatever the operator, the scheduler and the faults
\* do, other than once more for each full disk.
THEOREM NoDuplicates == Spec => []NoDuplicateRows
  <1>1. CampaignInv => NoDuplicateRows
    BY BalanceLeft DEF NoDuplicateRows
  <1> QED
    BY <1>1, Invariance, PTL

\* results.csv never has two headers, nor rows without one.
THEOREM OneHeader == Spec => []HeaderOnce
  <1>1. CampaignInv => HeaderOnce
    <2> SUFFICES ASSUME CampaignInv
                 PROVE  HeaderOnce
      OBVIOUS
    <2>1. csv.headers \in Nat /\ csv.headers <= 1 /\ (csv.headers = 0 => csv = EmptyCsv)
      BY StateTypes DEF CampaignInv, HeaderFirst
    <2> QED
      BY <2>1, EmptyTypes DEF HeaderOnce
  <1> QED
    BY <1>1, Invariance, PTL

\* No host that is waiting for a scan, being scanned, or scanned and not yet
\* written, has a row already, other than those that full disks account for.
THEOREM NoScanWasted == Spec => []NoRescan
  <1>1. CampaignInv => NoRescan
    <2> SUFFICES ASSUME CampaignInv, NEW h \in Hosts,
                        fut[h] \in {"queued", "running", "finished"}
                 PROVE  csv.keyed[h] <= fills
      BY DEF NoRescan, HostsIn
    <2>1. RowAhead(h)
      BY DEF CampaignInv, PoolScope, RowAhead, FileOpen, Pooling, Writing, Closing
    <2> QED
      BY <2>1, BalanceLeft
  <1> QED
    BY <1>1, Invariance, PTL

-----------------------------------------------------------------------------
(* Why an invocation ends.                                                 *)

\* There are finitely many hosts.
LEMMA HostsFinite == IsFiniteSet(Hosts)
  BY PopulationAssumption, FS_Interval

\* What is left for a future is a number, for the next state too.
LEMMA FutureStepsType ==
    ASSUME PoolTypeOK, NEW h \in Hosts
    PROVE  FutureSteps(h) \in Nat
  <1>1. fut[h] \in FutureStates
    BY DEF PoolTypeOK
  <1> QED
    BY <1>1 DEF FutureStates, FutureSteps

\* The costs of all futures, now and after the step, as functions.
LEMMA PoolStepsSum ==
    /\ PoolSteps = SumFunctionOnSet([h \in Hosts |-> FutureSteps(h)], Hosts)
    /\ PoolSteps' = SumFunctionOnSet([h \in Hosts |-> FutureSteps(h)'], Hosts)
  BY DEF PoolSteps, SumFunction

\* A pool that nobody touches costs what it did.
LEMMA PoolKept ==
    ASSUME PoolTypeOK, UNCHANGED <<fut, targets>>
    PROVE  PoolSteps \in Nat /\ PoolSteps' = PoolSteps
  <1> DEFINE f == [h \in Hosts |-> FutureSteps(h)]
  <1>1. PoolSteps' = PoolSteps
    BY DEF PoolSteps, FutureSteps
  <1>2. \A h \in Hosts : f[h] \in Nat /\ f[h] <= f[h]
    BY FutureStepsType
  <1>3. PoolSteps = SumFunctionOnSet(f, Hosts)
    BY PoolStepsSum
  <1> HIDE DEF f
  <1>4. SumFunctionOnSet(f, Hosts) \in Nat
    BY <1>2, HostsFinite, SumMonotone
  <1> QED
    BY <1>1, <1>3, <1>4

\* A future that moves on costs less: one step, or the five of the main thread
\* when it takes the result.
LEMMA PoolSpends ==
    ASSUME PoolTypeOK, UNCHANGED targets, NEW h \in Hosts,
           NEW from, NEW to, Advance(h, from, to), NEW k \in Nat,
           \/ from = "idle" /\ to = "queued" /\ h \in targets /\ k = 1
           \/ from = "queued" /\ to = "running" /\ k = 1
           \/ from = "running" /\ to = "finished" /\ k = 1
           \/ from = "finished" /\ to = "yielded" /\ k = 5
    PROVE  /\ PoolSteps \in Nat /\ PoolSteps' \in Nat
           /\ PoolSteps' + k <= PoolSteps
  <1> DEFINE g == [x \in Hosts |-> FutureSteps(x)]
             f == [x \in Hosts |-> FutureSteps(x)']
  <1>1. /\ fut \in [Hosts -> FutureStates] /\ fut[h] = from
        /\ fut' = [fut EXCEPT ![h] = to] /\ targets' = targets
    BY DEF PoolTypeOK, Advance
  <1>2. \A x \in Hosts : g[x] \in Nat
    BY FutureStepsType
  <1>3. \A x \in Hosts \ {h} : f[x] = g[x]
    <2> TAKE x \in Hosts \ {h}
    <2>1. fut'[x] = fut[x] /\ targets' = targets
      BY <1>1
    <2>2. FutureSteps(x)' = FutureSteps(x)
      BY ONLY <2>1, Zenon DEF FutureSteps
    <2> QED
      BY <2>2
  <1>4. fut[h] = from /\ fut'[h] = to
    BY <1>1
  <1>5. \/ g[h] = 8 /\ f[h] = 7 /\ k = 1
        \/ g[h] = 7 /\ f[h] = 6 /\ k = 1
        \/ g[h] = 6 /\ f[h] = 5 /\ k = 1
        \/ g[h] = 5 /\ f[h] = 0 /\ k = 5
    BY <1>1, <1>4 DEF FutureSteps
  <1>6. PoolSteps = SumFunctionOnSet(g, Hosts) /\ PoolSteps' = SumFunctionOnSet(f, Hosts)
    BY PoolStepsSum
  <1> HIDE DEF f, g
  <1>7. /\ \A x \in Hosts : f[x] \in Nat /\ g[x] \in Nat /\ f[x] <= g[x]
        /\ f[h] + k <= g[h]
    BY ONLY <1>2, <1>3, <1>5
  <1>8. /\ SumFunctionOnSet(f, Hosts) \in Nat /\ SumFunctionOnSet(g, Hosts) \in Nat
        /\ SumFunctionOnSet(f, Hosts) + k <= SumFunctionOnSet(g, Hosts)
    BY <1>7, HostsFinite, SumDrops
  <1>9. ASSUME NEW n, n = PoolSteps', NEW m, m = PoolSteps
        PROVE  n \in Nat /\ m \in Nat /\ n + k <= m
    BY ONLY <1>6, <1>8, <1>9, Zenon
  <1> QED
    BY ONLY <1>9, Zenon

\* A pool that is gone costs nothing.
LEMMA PoolGone ==
    ASSUME PoolTypeOK, fut' = [h \in Hosts |-> "idle"], targets' = {}
    PROVE  /\ PoolSteps \in Nat /\ PoolSteps' \in Nat
           /\ PoolSteps' <= PoolSteps
  <1> DEFINE g == [x \in Hosts |-> FutureSteps(x)]
             f == [x \in Hosts |-> FutureSteps(x)']
  <1>1. \A x \in Hosts : g[x] \in Nat
    BY FutureStepsType
  <1>2. \A x \in Hosts : f[x] = 0
    BY DEF FutureSteps
  <1>3. PoolSteps = SumFunctionOnSet(g, Hosts) /\ PoolSteps' = SumFunctionOnSet(f, Hosts)
    BY PoolStepsSum
  <1> HIDE DEF f, g
  <1>4. \A x \in Hosts : f[x] \in Nat /\ g[x] \in Nat /\ f[x] <= g[x]
    BY ONLY <1>1, <1>2
  <1>5. /\ SumFunctionOnSet(f, Hosts) \in Nat /\ SumFunctionOnSet(g, Hosts) \in Nat
        /\ SumFunctionOnSet(f, Hosts) <= SumFunctionOnSet(g, Hosts)
    BY <1>4, HostsFinite, SumMonotone
  <1>6. ASSUME NEW n, n = PoolSteps', NEW m, m = PoolSteps
        PROVE  n \in Nat /\ m \in Nat /\ n <= m
    BY ONLY <1>3, <1>5, <1>6, Zenon
  <1> QED
    BY ONLY <1>6, Zenon

\* How a step may use up what is left: the main thread comes nearer to the end,
\* a future moves on, its result is taken, the disk becomes full.
Spends ==
    /\ PoolSteps \in Nat /\ PoolSteps' \in Nat
    /\ \/ PoolSteps' <= PoolSteps /\ MainSteps' < MainSteps
          /\ fills' \in {fills, fills + 1}
       \/ PoolSteps' + 1 <= PoolSteps /\ MainSteps' = MainSteps /\ fills' = fills
       \/ PoolSteps' + 5 <= PoolSteps /\ MainSteps' = MainSteps + 4 /\ fills' = fills
       \/ PoolSteps' = PoolSteps /\ MainSteps' = MainSteps /\ fills' = fills + 1

\* Each of them leaves less.
LEMMA LessLeft ==
    ASSUME TypeOK, TypeOK', Spends
    PROVE  StepsLeft' < StepsLeft
  <1>1. /\ pc \in {"down", "open_csv", "open_jsonl"} \cup Pooling \cup Closing
        /\ pc' \in {"down", "open_csv", "open_jsonl"} \cup Pooling \cup Closing
        /\ fills \in 0..MaxFills /\ fills' \in 0..MaxFills
    BY DEF TypeOK, WriterTypeOK, Pooling, Writing, Closing
  <1>2. MainSteps \in 0..9 /\ MainSteps' \in 0..9
    BY <1>1 DEF MainSteps, Pooling, Writing, Closing
  <1>3. ASSUME NEW p, p = PoolSteps', NEW m, m = MainSteps', NEW f, f = fills'
        PROVE  p + m + (MaxFills - f) < PoolSteps + MainSteps + (MaxFills - fills)
    <2>1. /\ PoolSteps \in Nat /\ p \in Nat /\ m \in 0..9 /\ f \in 0..MaxFills
          /\ \/ p <= PoolSteps /\ m < MainSteps /\ f \in {fills, fills + 1}
             \/ p + 1 <= PoolSteps /\ m = MainSteps /\ f = fills
             \/ p + 5 <= PoolSteps /\ m = MainSteps + 4 /\ f = fills
             \/ p = PoolSteps /\ m = MainSteps /\ f = fills + 1
      BY ONLY <1>1, <1>2, <1>3, Spends, Zenon DEF Spends
    <2> QED
      BY ONLY <1>1, <1>2, <2>1, WriterAssumption
  <1> QED
    BY ONLY <1>3, Zenon DEF StepsLeft

\* The main thread moves on and leaves the pool alone.
LEMMA MainMoves ==
    ASSUME PoolTypeOK, UNCHANGED <<fut, targets>>,
           MainSteps' < MainSteps, fills' \in {fills, fills + 1}
    PROVE  Spends
  <1>1. PoolSteps \in Nat /\ PoolSteps' = PoolSteps
    BY PoolKept
  <1>2. ASSUME NEW p, p = PoolSteps' PROVE p \in Nat /\ p <= PoolSteps
    BY ONLY <1>1, <1>2
  <1>3. PoolSteps' \in Nat /\ PoolSteps' <= PoolSteps
    BY ONLY <1>2, Zenon
  <1> QED
    BY ONLY <1>1, <1>3, MainSteps' < MainSteps, fills' \in {fills, fills + 1}, Zenon
    DEF Spends

\* Every step of the program, and every fault, uses up some of what is left.
LEMMA StepSpends ==
    ASSUME TypeOK, MainStep \/ WorkerStep \/ Interrupt \/ Kill
    PROVE  Spends
  <1>1. PoolTypeOK /\ fills \in 0..MaxFills /\ fills \in {fills, fills + 1}
    BY DEF TypeOK, WriterTypeOK
  <1> USE DEF Goto
  <1>2. CASE \/ OpenCsvFile \/ OpenJsonlFile \/ PoolRefused \/ SubmitDone
             \/ WriteRow \/ FlushCsv \/ WriteLine \/ FlushJsonl
             \/ PoolExit \/ CloseCsv \/ CloseJsonl
    <2>1. UNCHANGED <<fut, targets, fills>>
      BY <1>2 DEF OpenCsvFile, OpenCsv, OpenJsonlFile, OpenJsonl, PoolRefused, SubmitDone,
         WriteRow, BufferRow, FlushCsv, FlushRow, WriteLine, BufferLine, FlushJsonl,
         FlushLine, PoolExit, CloseCsv, CloseJsonl, LoseCsvBuf, LoseJsonlBuf, writerVars
    <2>2. MainSteps' < MainSteps
      BY <1>2 DEF OpenCsvFile, OpenJsonlFile, PoolRefused, SubmitDone, WriteRow, FlushCsv,
         WriteLine, FlushJsonl, PoolExit, CloseCsv, CloseJsonl, MainSteps
    <2> QED
      BY <1>1, <2>1, <2>2, MainMoves
  <1>3. CASE WriteFails
    <2>1. UNCHANGED <<fut, targets>> /\ fills' \in {fills, fills + 1}
      BY <1>3 DEF WriteFails, FlushRowFails, FlushLineFails, DiskRefuses
    <2>2. MainSteps' < MainSteps
      BY <1>3 DEF WriteFails, MainSteps
    <2> QED
      BY <1>1, <2>1, <2>2, MainMoves
  <1>4. CASE CloseFails
    <2>1. UNCHANGED <<fut, targets, pc>> /\ fills' = fills + 1
      BY <1>4 DEF CloseFails, FlushRowFails, FlushLineFails, DiskRefuses
    <2>2. MainSteps' = MainSteps
      BY <2>1, Zenon DEF MainSteps
    <2>3. PoolSteps \in Nat /\ PoolSteps' = PoolSteps
      BY <1>1, <2>1, PoolKept
    <2> QED
      BY ONLY <2>1, <2>2, <2>3, Zenon DEF Spends
  <1>5. CASE Interrupt
    <2>1. UNCHANGED <<fut, targets, fills>>
      BY <1>5 DEF Interrupt, writerVars
    <2>2. MainSteps' < MainSteps
      BY <1>5 DEF Interrupt, Pooling, Writing, MainSteps
    <2> QED
      BY <1>1, <2>1, <2>2, MainMoves
  <1>6. CASE Exit \/ Kill
    <2>1. fut' = [h \in Hosts |-> "idle"] /\ targets' = {} /\ UNCHANGED fills
      BY <1>6 DEF Exit, Kill, LoseBuffers, writerVars
    <2>2. MainSteps' < MainSteps
      BY <1>6 DEF TypeOK, Exit, Kill, MainSteps, Pooling, Writing, Closing
    <2>3. PoolSteps \in Nat /\ PoolSteps' \in Nat /\ PoolSteps' <= PoolSteps
      BY <1>1, <2>1, PoolGone
    <2> QED
      BY <1>1, <2>1, <2>2, <2>3 DEF Spends
  <1>7. ASSUME NEW h \in Hosts, SubmitNext(h) \/ WorkerStarts(h) \/ WorkerFinishes(h)
        PROVE  Spends
    <2>1. UNCHANGED <<targets, pc, fills>>
      BY <1>7 DEF SubmitNext, WorkerStarts, WorkerFinishes, runVars, writerVars
    <2>2. MainSteps' = MainSteps
      BY <2>1, Zenon DEF MainSteps
    <2>3. \/ Advance(h, "idle", "queued") /\ h \in targets
          \/ Advance(h, "queued", "running")
          \/ Advance(h, "running", "finished")
      BY <1>7 DEF SubmitNext, Submit, IsFirst, WorkerStarts, WorkerStart,
         WorkerFinishes, WorkerFinish
    <2>4. PoolSteps \in Nat /\ PoolSteps' \in Nat /\ PoolSteps' + 1 <= PoolSteps
      BY <1>1, <2>1, <2>3, PoolSpends
    <2> QED
      BY ONLY <2>1, <2>2, <2>4, Zenon DEF Spends
  <1>8. ASSUME NEW h \in Hosts, TakeResult(h)
        PROVE  Spends
    <2>1. UNCHANGED <<targets, fills>> /\ Advance(h, "finished", "yielded")
      BY <1>8 DEF TakeResult, Yield, writerVars
    <2>2. MainSteps' = MainSteps + 4
      BY <1>8 DEF TakeResult, MainSteps
    <2>3. PoolSteps \in Nat /\ PoolSteps' \in Nat /\ PoolSteps' + 5 <= PoolSteps
      BY <1>1, <2>1, PoolSpends
    <2> QED
      BY ONLY <2>1, <2>2, <2>3, Zenon DEF Spends
  <1> QED
    BY <1>2, <1>3, <1>4, <1>5, <1>6, <1>7, <1>8 DEF MainStep, WorkerStep

\* What is left of an invocation only shrinks, whatever the scheduler, the
\* interrupts, the kills and the disk do.
THEOREM StepsAreSpent == Spec => StepsRunOut
  <1>1. TypeOK /\ [Next]_vars
          => [(\E i \in Invocations : Launch(i)) \/ FreeDisk \/ StepsLeft' < StepsLeft]_vars
    <2> SUFFICES ASSUME TypeOK, Next
                 PROVE  \/ \E i \in Invocations : Launch(i)
                        \/ FreeDisk
                        \/ StepsLeft' < StepsLeft
      OBVIOUS
    <2>1. TypeOK'
      BY TypeStep
    <2>2. CASE MainStep \/ WorkerStep \/ Interrupt \/ Kill
      BY <2>1, <2>2, StepSpends, LessLeft
    <2> QED
      BY <2>2 DEF Next
  <1> QED
    BY <1>1, TypeCorrect, PTL DEF Spec, StepsRunOut

\* No future exists at the start.
LEMMA AliveInit == Init => PoolAlive
  BY DEF Init, PoolInit, PoolAlive, Writing

\* Every step keeps the pool alive.
LEMMA AliveStep == CampaignInv /\ PoolAlive /\ [Next]_vars => PoolAlive'
  <1> SUFFICES ASSUME CampaignInv, PoolAlive, [Next]_vars
               PROVE  PoolAlive'
    OBVIOUS
  <1>1. fut \in [Hosts -> FutureStates] /\ targets \subseteq Hosts
    BY DEF CampaignInv, TypeOK, PoolTypeOK
  <1> USE DEF Goto, PoolAlive, AllSubmitted, HostsIn, Writing
  <1>2. ASSUME NEW i \in Invocations, Launch(i)
        PROVE  PoolAlive'
    <2>1. \A h \in Hosts : fut[h] = "idle"
      BY <1>2 DEF Launch, CampaignInv, PoolScope, Pooling, Closing
    <2> QED
      BY <1>2, <2>1 DEF Launch
  <1>3. CASE \/ OpenCsvFile \/ OpenJsonlFile \/ PoolRefused \/ SubmitDone
             \/ WriteRow \/ FlushCsv \/ WriteLine \/ FlushJsonl \/ WriteFails
             \/ PoolExit \/ CloseCsv \/ CloseJsonl \/ CloseFails \/ Interrupt \/ FreeDisk
    <2>1. UNCHANGED <<fut, targets, workers>>
      BY <1>3 DEF OpenCsvFile, OpenJsonlFile, PoolRefused, SubmitDone, WriteRow, FlushCsv,
         WriteLine, FlushJsonl, WriteFails, PoolExit, CloseCsv, CloseJsonl, CloseFails,
         Interrupt, FreeDisk, runVars
    <2>2. \/ pc' \notin {"wait"} \cup Writing
          \/ pc \in {"wait"} \cup Writing
          \/ AllSubmitted(targets)
      BY <1>3 DEF OpenCsvFile, OpenJsonlFile, PoolRefused, SubmitDone, WriteRow, FlushCsv,
         WriteLine, FlushJsonl, WriteFails, PoolExit, CloseCsv, CloseJsonl, CloseFails,
         Interrupt, FreeDisk, runVars
    <2> QED
      BY <2>1, <2>2
  <1>4. ASSUME NEW h \in Hosts,
               \/ SubmitNext(h) \/ TakeResult(h) \/ WorkerStarts(h) \/ WorkerFinishes(h)
        PROVE  PoolAlive'
    <2>1. UNCHANGED <<targets, workers>> /\ workers > 0
      BY <1>1, <1>4 DEF SubmitNext, TakeResult, WorkerStarts, WorkerStart, WorkerFinishes,
         WorkerFinish, Yield, Advance, runVars
    <2>2. /\ pc' \in {"wait"} \cup Writing => pc \in {"wait"} \cup Writing
          /\ \A g \in Hosts : fut[g] # "idle" => fut'[g] # "idle"
      BY <1>1, <1>4 DEF SubmitNext, Submit, TakeResult, WorkerStarts, WorkerStart,
         WorkerFinishes, WorkerFinish, Yield, Advance, runVars
    <2> QED
      BY <1>1, <2>1, <2>2
  <1>5. CASE Exit \/ Kill
    BY <1>5 DEF Exit, Kill
  <1>6. CASE UNCHANGED vars
    BY <1>6 DEF vars, runVars
  <1> QED
    BY <1>2, <1>3, <1>4, <1>5, <1>6 DEF Next, MainStep, WorkerStep

\* The main thread never waits for a pool that has nothing under way and
\* nothing it can start.
THEOREM WaitsForSomething == Spec => []NeverStuck
  <1>1. Spec => []PoolAlive
    BY AliveInit, AliveStep, Invariance, PTL DEF Spec
  <1>2. CampaignInv /\ PoolAlive => NeverStuck
    BY DEF CampaignInv, TypeOK, PoolTypeOK, FutureStates, PoolAlive, NeverStuck, Waiting,
       AllYielded, AllSubmitted, Drained, HostsIn
  <1> QED
    BY <1>1, <1>2, Invariance, PTL

=============================================================================
