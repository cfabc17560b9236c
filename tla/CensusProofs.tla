---------------------------- MODULE CensusProofs ----------------------------
(***************************************************************************)
(* Proofs about a whole campaign, for any population, invocations, faults  *)
(* and full disks: its results table implements the census, a run that     *)
(* ends normally has told of all its hosts but two, and its audit file     *)
(* loses and repeats no more lines than the faults account for.            *)
(***************************************************************************)
EXTENDS CampaignProofs, FiniteSetTheorems

USE DEF Hosts, NoRow, Cuts, CampaignCensus!Hosts

-----------------------------------------------------------------------------
(* What a step of the writer does to what its files tell.                  *)

\* The hosts that a CSV has rows about, and an audit file lines.
RowsIn(c) == {h \in Hosts : c.keyed[h] > 0}
LinesIn(j) == {h \in Hosts : j.lines[h] > 0}

\* A recount adds the one host and loses at most the other.
LEMMA RecountHosts ==
    ASSUME NEW f \in [Hosts -> Nat], NEW h \in Hosts \cup {NoRow},
           NEW g \in Hosts \cup {NoRow}, g # NoRow => f[g] > 0,
           NEW r, r = Recount(f, h, g)
    PROVE  /\ {k \in Hosts : r[k] > 0} \subseteq {k \in Hosts : f[k] > 0} \cup {h}
           /\ {k \in Hosts : f[k] > 0} \subseteq {k \in Hosts : r[k] > 0} \cup {g}
           /\ h # NoRow => h \in {k \in Hosts : r[k] > 0}
  <1>1. \A k \in Hosts : /\ k # h /\ k # g => r[k] = f[k]
                         /\ k = h /\ k = g => r[k] = f[k]
                         /\ k = h /\ k # g => r[k] = f[k] + 1
                         /\ k # h /\ k = g => r[k] = f[k] - 1
    BY RecountFacts
  <1> QED
    BY <1>1

\* A flush that goes through records the host that is read, if any, and loses
\* at most the one that the unfinished line read (ResultWriter.write).
LEMMA RowFlushed ==
    ASSUME WriterTypeOK, FlushRow, csvBuf.row # NoRow
    PROVE  /\ ~diskFull /\ csvBuf' = EmptyCsvBuf /\ csvBuf.row \in Hosts
           /\ UNCHANGED <<jsonl, jsonlBuf, diskFull, fills>>
           /\ csv'.keyed \in [Hosts -> Nat] /\ csv'.last = NoRow
           /\ \/ csv'.tail = "none"
              \/ csv'.tail = "quoted" /\ csv.tail = "quoted"
           /\ \E read \in Hosts \cup {NoRow} :
                 /\ csv'.keyed = Recount(csv.keyed, read, csv.last)
                 /\ RowsIn(csv') \subseteq RowsIn(csv) \cup {read}
                 /\ RowsIn(csv) \subseteq RowsIn(csv') \cup {csv.last}
                 /\ read # NoRow => read \in RowsIn(csv')
                 /\ csv.tail \in {"none", "end"} => read \in {csvBuf.row, NoRow}
                 /\ csv.tail \in {"none", "end"} /\ ~csvBuf.rest => read = csvBuf.row
                 /\ csv.tail \in {"none", "end"} /\ csvBuf.rest => read = NoRow
                 /\ csv.tail \in {"record", "quoted"} => read = NoRow
           /\ csv.last # NoRow => csv.tail = "hostname"
  <1>1. PICK read \in Readings, quotes \in BOOLEAN : csv' = CsvAfterFlush(read, quotes)
    BY DEF FlushRow
  <1>2. /\ read \in Hosts \cup {NoRow}
        /\ csv' \in CsvType /\ csv'.last = NoRow
        /\ csv'.keyed = Recount(csv.keyed, read, csv.last)
        /\ csv'.tail = IF csv.tail = "quoted" /\ ~csvBuf.rest /\ ~quotes
                       THEN "quoted" ELSE "none"
        /\ csvBuf.rest /\ read # NoRow => csv.tail \in {"domain", "hostname"}
        /\ csv.tail \in {"none", "end"} => read \in {csvBuf.row, NoRow}
        /\ csv.tail \in {"none", "end"} /\ ~csvBuf.rest => read = csvBuf.row
        /\ csv.tail \in {"record", "quoted"} => read = NoRow
    BY <1>1, FlushFacts
  <1>3. /\ csv.keyed \in [Hosts -> Nat] /\ csv.last \in Hosts \cup {NoRow}
        /\ csv.last # NoRow => csv.tail = "hostname" /\ csv.keyed[csv.last] > 0
        /\ csvBuf.row \in Hosts
    BY DEF WriterTypeOK, LastCounted
  <1>4. /\ RowsIn(csv') \subseteq RowsIn(csv) \cup {read}
        /\ RowsIn(csv) \subseteq RowsIn(csv') \cup {csv.last}
        /\ read # NoRow => read \in RowsIn(csv')
    BY <1>2, <1>3, RecountHosts DEF RowsIn
  <1>5. csv.tail \in {"none", "end"} /\ csvBuf.rest => read = NoRow
    BY <1>2
  <1>6. ~diskFull
    BY DEF FlushRow, EmptyCsvBuf
  <1> QED
    BY <1>1, <1>2, <1>3, <1>4, <1>5, <1>6 DEF FlushRow, CsvType

\* Without a row in the buffer it tells nothing new.
LEMMA HeaderFlushed ==
    ASSUME WriterTypeOK, FlushRow, csvBuf.row = NoRow
    PROVE  /\ csvBuf' = EmptyCsvBuf /\ UNCHANGED <<jsonl, jsonlBuf, diskFull, fills>>
           /\ csv'.keyed = csv.keyed /\ csv'.tail = csv.tail /\ csv'.last = csv.last
  <1>1. PICK read \in Readings, quotes \in BOOLEAN : csv' = CsvAfterFlush(read, quotes)
    BY DEF FlushRow
  <1> QED
    BY <1>1, HeaderFacts DEF FlushRow

\* One that fails records at most the host that the unfinished line reads.
LEMMA RowCut ==
    ASSUME WriterTypeOK, FlushRowFails
    PROVE  /\ UNCHANGED <<jsonl, jsonlBuf>> /\ diskFull'
           /\ fills' = IF diskFull THEN fills ELSE fills + 1
           /\ csvBuf'.row = csvBuf.row /\ (csvBuf'.rest => csvBuf.rest \/ csvBuf.row # NoRow)
           /\ \/ UNCHANGED <<csv, csvBuf>>
              \/ /\ csv.tail = "none" /\ csvBuf.row \in Hosts /\ ~csvBuf.rest
                 /\ csv'.tail \in Cuts
                 /\ \E read \in Hosts \cup {NoRow} :
                       /\ RowsIn(csv') \subseteq RowsIn(csv) \cup {read}
                       /\ RowsIn(csv) \subseteq RowsIn(csv')
                       /\ csv'.tail = "domain" => read = NoRow
              \/ /\ csv.tail = "quoted" /\ csv'.tail = "record" /\ UNCHANGED csvBuf
                 /\ csv'.keyed = csv.keyed
  <1>1. /\ csvBuf \in [header : BOOLEAN, row : Hosts \cup {NoRow}, rest : BOOLEAN]
        /\ csv \in CsvType /\ csv.keyed \in [Hosts -> Nat]
    BY DEF WriterTypeOK, CsvType
  <1>2. ASSUME csvBuf.row # NoRow, NEW cut \in Cuts, NEW name \in Hosts \cup {NoRow},
               csv' = CsvAfterCut(cut, name),
               csvBuf' = [csvBuf EXCEPT !.header = FALSE, !.rest = TRUE]
        PROVE  /\ csvBuf.row \in Hosts /\ csvBuf'.row = csvBuf.row
               /\ csv'.tail \in Cuts
               /\ \E read \in Hosts \cup {NoRow} :
                     /\ RowsIn(csv') \subseteq RowsIn(csv) \cup {read}
                     /\ RowsIn(csv) \subseteq RowsIn(csv')
                     /\ csv'.tail = "domain" => read = NoRow
    <2>1. csvBuf.row \in Hosts /\ csvBuf'.row = csvBuf.row
      BY <1>1, <1>2
    <2>2. /\ csv'.tail = cut
          /\ cut = "domain" => csv'.keyed = Recount(csv.keyed, NoRow, NoRow)
          /\ cut = "hostname" => csv'.keyed = Recount(csv.keyed, name, NoRow)
          /\ cut \in {"record", "quoted", "end"}
               => csv'.keyed = Recount(csv.keyed, csvBuf.row, NoRow)
      BY <1>2, CutFacts
    <2>3. PICK read \in Hosts \cup {NoRow} :
             /\ csv'.keyed = Recount(csv.keyed, read, NoRow)
             /\ csv'.tail = "domain" => read = NoRow
      BY <2>1, <2>2
    <2>4. NoRow \in Hosts \cup {NoRow}
      OBVIOUS
    <2>5. /\ RowsIn(csv') \subseteq RowsIn(csv) \cup {read}
          /\ RowsIn(csv) \subseteq RowsIn(csv') \cup {NoRow}
      BY <1>1, <2>3, <2>4, RecountHosts DEF RowsIn
    <2>6. RowsIn(csv) \subseteq RowsIn(csv')
      BY <2>5 DEF RowsIn
    <2> QED
      BY <2>1, <2>2, <2>3, <2>5, <2>6
  <1>3. /\ DiskRefuses /\ UNCHANGED <<jsonl, jsonlBuf>>
    BY DEF FlushRowFails
  <1>4. csv' = [csv EXCEPT !.tail = "record"] => csv'.tail = "record" /\ csv'.keyed = csv.keyed
    BY <1>1 DEF CsvType
  <1> QED
    BY <1>1, <1>2, <1>3, <1>4 DEF FlushRowFails, DiskRefuses

\* A flushed line is told, unless it is glued to an unfinished one, and then
\* what that one told is gone too.
LEMMA LineFlushed ==
    ASSUME WriterTypeOK, FlushLine
    PROVE  /\ UNCHANGED <<csv, csvBuf, diskFull, fills>> /\ jsonlBuf' = EmptyJsonlBuf
           /\ jsonlBuf.row = NoRow => UNCHANGED jsonl
           /\ jsonlBuf.row # NoRow =>
                 /\ ~diskFull /\ ~jsonl'.torn /\ jsonl'.last = NoRow
                 /\ LinesIn(jsonl') \subseteq LinesIn(jsonl) \cup {jsonlBuf.row}
                 /\ LinesIn(jsonl) \subseteq LinesIn(jsonl') \cup {jsonl.last}
                 /\ jsonlBuf.rest \/ ~jsonl.torn =>
                       /\ jsonlBuf.row \in LinesIn(jsonl')
                       /\ jsonl'.lines = Recount(jsonl.lines, jsonlBuf.row, jsonl.last)
           /\ jsonl.last # NoRow => jsonl.torn
  <1>1. /\ jsonl.lines \in [Hosts -> Nat] /\ jsonl.last \in Hosts \cup {NoRow}
        /\ jsonl.last # NoRow => jsonl.torn /\ jsonl.lines[jsonl.last] > 0
        /\ jsonlBuf.row \in Hosts \cup {NoRow} /\ NoRow \in Hosts \cup {NoRow}
        /\ jsonl.torn \in BOOLEAN /\ jsonlBuf.rest \in BOOLEAN
    BY DEF WriterTypeOK, LastCounted
  <1>2. /\ jsonlBuf.row = NoRow => jsonl' = jsonl
        /\ jsonlBuf.row # NoRow =>
             /\ ~jsonl'.torn /\ jsonl'.last = NoRow
             /\ jsonlBuf.rest \/ ~jsonl.torn
                  => jsonl'.lines = Recount(jsonl.lines, jsonlBuf.row, jsonl.last)
             /\ ~jsonlBuf.rest /\ jsonl.torn
                  => jsonl'.lines = Recount(jsonl.lines, NoRow, jsonl.last)
    BY LineFacts DEF FlushLine
  <1>3. ASSUME NEW h \in Hosts \cup {NoRow}, jsonl'.lines = Recount(jsonl.lines, h, jsonl.last)
        PROVE  /\ LinesIn(jsonl') \subseteq LinesIn(jsonl) \cup {h}
               /\ LinesIn(jsonl) \subseteq LinesIn(jsonl') \cup {jsonl.last}
               /\ h # NoRow => h \in LinesIn(jsonl')
    BY <1>1, <1>3, RecountHosts DEF LinesIn
  <1>4. NoRow \notin LinesIn(jsonl')
    BY DEF LinesIn
  <1>5. jsonlBuf.row # NoRow => ~diskFull
    BY DEF FlushLine, EmptyJsonlBuf
  <1> QED
    BY <1>1, <1>2, <1>3, <1>4, <1>5 DEF FlushLine

\* One that fails tells of its host or of none.
LEMMA LineCut ==
    ASSUME WriterTypeOK, FlushLineFails
    PROVE  /\ UNCHANGED <<csv, csvBuf>> /\ diskFull'
           /\ fills' = IF diskFull THEN fills ELSE fills + 1
           /\ jsonlBuf'.row = jsonlBuf.row /\ (jsonlBuf'.rest => jsonlBuf.rest \/ jsonlBuf.row # NoRow)
           /\ LinesIn(jsonl) \subseteq LinesIn(jsonl')
           /\ \/ UNCHANGED jsonl
              \/ /\ ~jsonl.torn /\ jsonl.last = NoRow
                 /\ jsonl'.last # NoRow =>
                       jsonl'.last = jsonlBuf.row /\ jsonlBuf.row \in LinesIn(jsonl')
  <1>1. /\ jsonlBuf \in [row : Hosts \cup {NoRow}, rest : BOOLEAN]
        /\ jsonl.lines \in [Hosts -> Nat] /\ NoRow \in Hosts \cup {NoRow}
        /\ jsonl.last # NoRow => jsonl.torn
    BY DEF WriterTypeOK, LastCounted
  <1>2. ASSUME NEW name \in {jsonlBuf.row, NoRow},
               jsonl' = [lines |-> Recount(jsonl.lines, name, NoRow),
                         torn |-> TRUE, last |-> name]
        PROVE  /\ LinesIn(jsonl) \subseteq LinesIn(jsonl') /\ jsonl'.last = name
               /\ name # NoRow => name \in LinesIn(jsonl')
    <2>1. jsonl'.lines = Recount(jsonl.lines, name, NoRow) /\ name \in Hosts \cup {NoRow}
      BY <1>1, <1>2
    <2>2. /\ LinesIn(jsonl) \subseteq LinesIn(jsonl') \cup {NoRow}
          /\ name # NoRow => name \in LinesIn(jsonl')
      BY <1>1, <2>1, RecountHosts DEF LinesIn
    <2>3. LinesIn(jsonl) \subseteq LinesIn(jsonl')
      BY <2>2 DEF LinesIn
    <2> QED
      BY <1>2, <2>2, <2>3
  <1>3. DiskRefuses /\ UNCHANGED <<csv, csvBuf>>
    BY DEF FlushLineFails
  <1> QED
    BY <1>1, <1>2, <1>3 DEF FlushLineFails, DiskRefuses

-----------------------------------------------------------------------------
(* What is in hand.                                                        *)

\* Nothing is in hand at the start.
LEMMA InHandInit == Init => InHand
  BY DEF Init, WriterInit, InHand, EmptyCsvBuf, EmptyJsonlBuf

\* Every step of the campaign keeps the buffers where the main thread is.
LEMMA InHandStep == CampaignInv /\ InHand /\ [Next]_vars => InHand'
  <1> SUFFICES ASSUME CampaignInv, InHand, [Next]_vars
               PROVE  InHand'
    OBVIOUS
  <1>1. /\ csvBuf \in [header : BOOLEAN, row : Hosts \cup {NoRow}, rest : BOOLEAN]
        /\ jsonlBuf \in [row : Hosts \cup {NoRow}, rest : BOOLEAN]
        /\ pc \in {"csv_row", "csv_flush"} => cur \in Hosts
        /\ WriterTypeOK
    BY DEF CampaignInv, TypeOK, WriterTypeOK, RecordInHand
  <1> USE DEF InHand, Goto
  <1>2. ASSUME NEW i \in Invocations, Launch(i)
        PROVE  InHand'
    BY <1>2 DEF Launch, writerVars
  <1>3. CASE OpenCsvFile
    BY <1>3, EmptyTypes DEF OpenCsvFile, OpenCsv, EmptyCsvBuf
  <1>4. CASE OpenJsonlFile
    BY <1>4 DEF OpenJsonlFile, OpenJsonl
  <1>5. ASSUME NEW h \in Hosts, \/ SubmitNext(h) \/ TakeResult(h)
                                \/ WorkerStarts(h) \/ WorkerFinishes(h)
        PROVE  InHand'
    BY <1>5 DEF SubmitNext, TakeResult, WorkerStarts, WorkerFinishes, writerVars, runVars
  <1>6. CASE SubmitDone \/ PoolExit \/ PoolRefused
    BY <1>6 DEF SubmitDone, PoolExit, PoolRefused, writerVars
  <1>7. CASE WriteRow
    BY <1>1, <1>7 DEF WriteRow, BufferRow
  <1>8. CASE FlushCsv
    <2>1. csvBuf.row # NoRow
      BY <1>1, <1>8 DEF FlushCsv
    <2>2. /\ csvBuf' = EmptyCsvBuf /\ ~diskFull /\ UNCHANGED <<jsonlBuf, diskFull>>
          /\ cur # NoRow
      BY <1>1, <1>8, <2>1, RowFlushed DEF FlushCsv
    <2> QED
      BY <1>8, <2>2 DEF FlushCsv, EmptyCsvBuf
  <1>9. CASE WriteLine
    BY <1>1, <1>9 DEF WriteLine, BufferLine
  <1>10. CASE FlushJsonl
    BY <1>1, <1>10 DEF FlushJsonl, FlushLine, EmptyJsonlBuf
  <1>11. CASE WriteFails \/ CloseFails
    <2>1. /\ cur' = cur
          /\ \/ pc = "csv_flush" /\ pc' = "drain" /\ FlushRowFails
             \/ pc = "jsonl_flush" /\ pc' = "drain" /\ FlushLineFails
             \/ pc = "close_csv" /\ pc' = pc /\ FlushRowFails
             \/ pc = "close_jsonl" /\ pc' = pc /\ FlushLineFails
      BY <1>11 DEF WriteFails, CloseFails
    <2>2. CASE FlushRowFails /\ pc \in {"csv_flush", "close_csv"}
      BY <1>1, <2>1, <2>2, RowCut
    <2>3. CASE FlushLineFails /\ pc \in {"jsonl_flush", "close_jsonl"}
      BY <1>1, <2>1, <2>3, LineCut
    <2> QED
      BY <2>1, <2>2, <2>3
  <1>12. CASE CloseCsv
    <2>1. csvBuf' = EmptyCsvBuf /\ UNCHANGED jsonlBuf
      BY <1>12 DEF CloseCsv, FlushRow, LoseCsvBuf
    <2> QED
      BY <1>12, <2>1 DEF CloseCsv, EmptyCsvBuf
  <1>13. CASE CloseJsonl
    <2>1. jsonlBuf' = EmptyJsonlBuf /\ UNCHANGED csvBuf
      BY <1>13 DEF CloseJsonl, FlushLine, LoseJsonlBuf
    <2> QED
      BY <1>13, <2>1 DEF CloseJsonl, EmptyJsonlBuf
  <1>14. CASE Exit
    BY <1>14 DEF Exit, writerVars
  <1>15. CASE Interrupt
    BY <1>15 DEF Interrupt, Fault, Pooling, Writing, writerVars
  <1>16. CASE Kill
    BY <1>16 DEF Kill, Fault, LoseBuffers, EmptyCsvBuf, EmptyJsonlBuf
  <1>17. CASE FreeDisk \/ UNCHANGED vars
    BY <1>17 DEF FreeDisk, DiskFreed, vars, writerVars, runVars
  <1> QED
    BY <1>2, <1>3, <1>4, <1>5, <1>6, <1>7, <1>8, <1>9, <1>10, <1>11, <1>12, <1>13, <1>14,
       <1>15, <1>16, <1>17
    DEF Next, MainStep, WorkerStep

-----------------------------------------------------------------------------
(* What a run that ends normally leaves behind.                            *)

\* The hosts --resume dropped whose row was lost in a gap since.
Skipped == (Asked(limit) \ targets) \ Recorded

\* The targets whose result was taken, the one in hand apart; those among them
\* that have no line, and those in this state or further that have no row.
Done == {h \in targets \ {cur} : fut[h] = "yielded"}
Untold == Done \ Told
Rowless ==
    {h \in targets : /\ fut[h] = "yielded" /\ h \notin Recorded
                     /\ ~(h = cur /\ pc \in {"csv_row", "csv_flush"})}

\* What CampaignInv lacks.  A run that nothing has gone wrong in goes through
\* all its targets.  The first row that it writes can end an unfinished line and
\* take the host with it that the line was read as, the first line can be glued
\* to an unfinished one; both lose one host, and nothing follows that loses one.
CompleteInv ==
    /\ outcome = "ok" => pc = "down"
    /\ pc = "down" => RunComplete
    /\ pc = "open_csv" /\ resume => targets \cap Recorded = {}
    /\ pc # "down" /\ outcome = "none" =>
        /\ pc # "drain"
        /\ pc \in Closing => cur = NoRow /\ \A h \in targets : fut[h] = "yielded"
        /\ ~resume => Asked(limit) \subseteq targets
        /\ \A g, h \in Skipped : g = h
        /\ csv.last # NoRow => Skipped = {}
        /\ \A g, h \in Untold : g = h
        /\ jsonl.torn => Done = {}
        /\ fills = 0 => Skipped = {} /\ Rowless = {}

\* An untouched campaign satisfies the invariant.
LEMMA CompleteInit == Init => CompleteInv
  BY DEF Init, CompleteInv, RunComplete

\* A run in which something goes wrong does not end as a success.
LEMMA RunSpoilt ==
    ASSUME CompleteInv, outcome' = "failed",
           pc' # "open_csv" \/ UNCHANGED <<pc, resume, targets, csv>>
    PROVE  CompleteInv'
  BY DEF CompleteInv, RunComplete, Recorded

\* A step that leaves the files and the results taken alone keeps it.
LEMMA RunGoesOn ==
    ASSUME CompleteInv, pc # "down", pc' # "down", pc' # "drain", outcome' = outcome,
           pc' # "open_csv" \/ UNCHANGED pc,
           UNCHANGED <<resume, limit, targets, csv, jsonl, fills>>,
           Done' = Done, Rowless' \subseteq Rowless,
           outcome = "none" /\ pc' \in Closing =>
               cur' = NoRow /\ \A h \in targets : fut'[h] = "yielded"
    PROVE  CompleteInv'
  <1>1. Skipped' = Skipped /\ Untold' = Untold /\ Recorded' = Recorded
    BY DEF Skipped, Untold, Recorded, Told, Asked
  <1>2. Asked(limit)' = Asked(limit)
    BY DEF Asked
  <1> QED
    BY <1>1, <1>2 DEF CompleteInv

\* Every step keeps it.
LEMMA CompleteStep ==
    CampaignInv /\ InHand /\ CompleteInv /\ [Next]_vars => CompleteInv'
  <1> SUFFICES ASSUME CampaignInv, InHand, CompleteInv, [Next]_vars
               PROVE  CompleteInv'
    OBVIOUS
  <1>1. TypeOK /\ WriterTypeOK
    BY DEF CampaignInv, TypeOK
  <1>2. /\ fut \in [Hosts -> FutureStates] /\ targets \subseteq Hosts
        /\ csv.keyed \in [Hosts -> Nat] /\ jsonl.lines \in [Hosts -> Nat]
        /\ csv.last \in Hosts \cup {NoRow} /\ jsonl.last \in Hosts \cup {NoRow}
        /\ csvBuf.row \in Hosts \cup {NoRow} /\ jsonlBuf.row \in Hosts \cup {NoRow}
        /\ cur \in Hosts \cup {NoRow} /\ fills \in Nat
    BY <1>1 DEF TypeOK, PoolTypeOK, WriterTypeOK
  <1>3. /\ pc \in {"csv_row", "csv_flush"} => cur \in Hosts
        /\ \A h \in Hosts : pc \in {"down", "open_csv", "open_jsonl"} => fut[h] = "idle"
        /\ fills = 0 => ~jsonl.torn /\ csv.tail = "none" /\ csv.last = NoRow
        /\ jsonl.last # NoRow => jsonl.torn
    BY <1>1 DEF CampaignInv, RecordInHand, PoolScope, Pooling, Writing, Closing, WriterTypeOK,
       LastCounted
  <1>4. Asked(limit) \subseteq Hosts
    BY DEF Asked
  <1>5. Recorded' = RowsIn(csv') /\ Recorded = RowsIn(csv)
        /\ Told' = LinesIn(jsonl') /\ Told = LinesIn(jsonl)
    BY DEF Recorded, Told, RowsIn, LinesIn
  <1> USE DEF Goto
  <1>6. ASSUME NEW i \in Invocations, Launch(i)
        PROVE  CompleteInv'
    <2>1. /\ pc' = "open_csv" /\ outcome' = "none" /\ UNCHANGED <<fut, csv, jsonl, fills>>
          /\ resume' = i.resume /\ limit' = i.limit
          /\ targets' = Asked(i.limit) \ (IF i.resume THEN CompletedHostnames ELSE {})
          /\ pc = "down"
      BY <1>6 DEF Launch, writerVars
    <2>2. CompletedHostnames = Recorded
      <3>1. CASE csv.headers = 0
        <4>1. csv = EmptyCsv
          BY <3>1 DEF CampaignInv, HeaderFirst
        <4> QED
          BY <3>1, <4>1, EmptyTypes DEF CompletedHostnames, Recorded
      <3>2. CASE csv.headers # 0
        BY <3>2 DEF CompletedHostnames, Recorded
      <3> QED
        BY <3>1, <3>2
    <2>3. Asked(limit)' = Asked(i.limit) /\ Recorded' = Recorded
      BY <2>1 DEF Asked, Recorded
    <2>4. Skipped' = {}
      BY <2>1, <2>2, <2>3 DEF Skipped
    <2>5. Done' = {} /\ Rowless' = {} /\ Untold' = {}
      <3>1. \A h \in targets' : fut'[h] # "yielded"
        BY <1>3, <2>1 DEF Asked
      <3> QED
        BY <3>1 DEF Done, Rowless, Untold
    <2>6. (resume' => targets' \cap Recorded' = {}) /\ (~resume' => (Asked(limit) \subseteq targets)')
      BY <2>1, <2>2, <2>3
    <2> QED
      BY <2>1, <2>4, <2>5, <2>6 DEF CompleteInv, Closing
  <1>7. CASE OpenCsvFile
    <2>1. /\ pc = "open_csv" /\ pc' = "open_jsonl"
          /\ UNCHANGED <<fut, jsonl, resume, limit, targets, cur, outcome, fills>>
          /\ csv' = IF resume THEN csv ELSE EmptyCsv
      BY <1>7 DEF OpenCsvFile, OpenCsv
    <2>2. Done' = {} /\ Rowless' = {} /\ Untold' = {}
      <3>1. \A h \in targets' : fut'[h] # "yielded"
        BY <1>2, <1>3, <2>1
      <3> QED
        BY <3>1 DEF Done, Rowless, Untold
    <2>3. Asked(limit)' = Asked(limit)
      BY <2>1 DEF Asked
    <2>4. CASE resume
      <3>1. Skipped' = Skipped /\ csv' = csv
        BY <2>1, <2>3, <2>4 DEF Skipped, Recorded
      <3> QED
        BY <2>1, <2>2, <2>3, <3>1 DEF CompleteInv, Closing
    <2>5. CASE ~resume
      <3>1. outcome = "none" => Skipped' = {}
        BY <2>1, <2>3, <2>5 DEF Skipped, CompleteInv
      <3>2. csv'.last = NoRow
        BY <2>1, <2>5, EmptyTypes
      <3> QED
        BY <2>1, <2>2, <2>3, <3>1, <3>2 DEF CompleteInv, Closing
    <2> QED
      BY <2>4, <2>5
  <1>8. CASE OpenJsonlFile
    <2>1. /\ pc = "open_jsonl" /\ pc' = "submit"
          /\ UNCHANGED <<fut, csv, resume, limit, targets, cur, outcome, fills>>
      BY <1>8 DEF OpenJsonlFile, OpenJsonl
    <2>2. Done' = {} /\ Rowless' = {} /\ Untold' = {}
      <3>1. \A h \in targets' : fut'[h] # "yielded"
        BY <1>2, <1>3, <2>1
      <3> QED
        BY <3>1 DEF Done, Rowless, Untold
    <2>3. Asked(limit)' = Asked(limit) /\ Skipped' = Skipped
      BY <2>1 DEF Asked, Skipped, Recorded
    <2> QED
      BY <2>1, <2>2, <2>3 DEF CompleteInv, Closing
  <1>9. ASSUME NEW h \in Hosts,
               \/ SubmitNext(h) \/ TakeResult(h)
               \/ WorkerStarts(h) \/ WorkerFinishes(h)
        PROVE  CompleteInv'
    <2>1. /\ UNCHANGED <<csv, jsonl, fills, resume, limit, targets, outcome>>
          /\ \/ /\ pc = "wait" /\ pc' = "csv_row" /\ cur' = h /\ cur = NoRow
                /\ fut' = [fut EXCEPT ![h] = "yielded"]
             \/ /\ UNCHANGED <<pc, cur>>
                /\ fut[h] # "idle" \/ pc = "submit"
                /\ \E state \in {"queued", "running", "finished"} :
                      fut[h] # "yielded" /\ fut' = [fut EXCEPT ![h] = state]
      BY <1>9 DEF SubmitNext, TakeResult, WorkerStarts, WorkerFinishes, Submit, Yield,
         WorkerStart, WorkerFinish, Advance, writerVars, runVars, InHand
    <2>2. \A g \in targets :
             fut'[g] = "yielded" <=> \/ fut[g] = "yielded"
                                     \/ g = h /\ cur' = h /\ pc = "wait" /\ pc' = "csv_row"
      BY <1>2, <2>1
    <2>3. pc \notin {"down", "open_csv", "open_jsonl"}
      BY <1>3, <2>1
    <2>4. CASE pc = "wait" /\ pc' = "csv_row"
      <3>1. fut[h] # "yielded" /\ cur' = h /\ cur = NoRow
        BY <1>9, <2>1, <2>4 DEF SubmitNext, TakeResult, WorkerStarts, WorkerFinishes, Yield,
           Advance, runVars
      <3>2. Done' = Done
        BY <1>2, <2>1, <2>2, <2>4, <3>1 DEF Done
      <3>3. Rowless' \subseteq Rowless
        BY <1>5, <2>1, <2>2, <2>4, <3>1 DEF Rowless
      <3> QED
        BY <2>1, <2>4, <3>2, <3>3, RunGoesOn DEF Closing
    <2>5. CASE ~(pc = "wait" /\ pc' = "csv_row")
      <3>1. Done' = Done
        BY <2>1, <2>2, <2>5 DEF Done
      <3>2. Rowless' \subseteq Rowless
        BY <1>5, <2>1, <2>2, <2>5 DEF Rowless
      <3>3. outcome # "none" \/ pc' # "drain"
        BY <2>1, <2>3, <2>5 DEF CompleteInv
      <3>4. outcome = "none" /\ pc' \in Closing =>
               cur' = NoRow /\ \A g \in targets : fut'[g] = "yielded"
        BY <2>1, <2>2, <2>3, <2>5 DEF CompleteInv
      <3>5. CASE outcome = "none"
        BY <2>1, <2>3, <2>5, <3>1, <3>2, <3>3, <3>4, <3>5, RunGoesOn
      <3>6. CASE outcome # "none"
        BY <2>1, <2>3, <2>5, <3>6 DEF CompleteInv
      <3> QED
        BY <3>5, <3>6
    <2> QED
      BY <2>4, <2>5
  <1>10. CASE SubmitDone \/ WriteRow \/ WriteLine
    <2>1. /\ UNCHANGED <<fut, csv, jsonl, fills, resume, limit, targets, cur, outcome>>
          /\ \/ pc = "submit" /\ pc' = "wait"
             \/ pc = "csv_row" /\ pc' = "csv_flush"
             \/ pc = "jsonl_row" /\ pc' = "jsonl_flush"
      BY <1>10 DEF SubmitDone, WriteRow, WriteLine, BufferRow, BufferLine, writerVars
    <2>2. Done' = Done /\ Rowless' \subseteq Rowless
      BY <1>5, <2>1 DEF Done, Rowless
    <2> QED
      BY <2>1, <2>2, RunGoesOn DEF Closing
  <1>11. CASE FlushCsv
    <2>1. /\ pc = "csv_flush" /\ pc' = "jsonl_row" /\ FlushRow
          /\ UNCHANGED <<fut, resume, limit, targets, cur, outcome>>
          /\ csvBuf.row = cur /\ cur \in Hosts /\ csvBuf.row # NoRow /\ ~csvBuf.rest
      BY <1>3, <1>11 DEF FlushCsv, InHand
    <2>2. PICK read \in Hosts \cup {NoRow} :
             /\ UNCHANGED <<jsonl, fills>> /\ csv'.last = NoRow
             /\ RowsIn(csv) \subseteq RowsIn(csv') \cup {csv.last}
             /\ read # NoRow => read \in RowsIn(csv')
             /\ csv.tail = "none" => read = cur
      BY <1>1, <2>1, RowFlushed
    <2>3. Done' = Done /\ Untold' = Untold
      BY <2>1, <2>2 DEF Done, Untold, Told
    <2>4. Asked(limit)' = Asked(limit)
      BY <2>1 DEF Asked
    <2>5. Skipped' \subseteq Skipped \cup ({csv.last} \ {NoRow})
      <3>1. NoRow \notin Skipped'
        BY <2>4, <1>4 DEF Skipped
      <3> QED
        BY <1>5, <2>1, <2>2, <2>4, <3>1 DEF Skipped
    <2>6. outcome = "none" => \A g, h \in Skipped' : g = h
      BY <2>1, <2>5 DEF CompleteInv
    <2>7. fills = 0 => /\ Skipped' \subseteq Skipped
                       /\ Rowless' \subseteq Rowless
      <3>1. CASE fills = 0
        <4>1. csv.last = NoRow /\ read = cur /\ cur \in Recorded'
          BY <1>3, <1>5, <2>1, <2>2, <3>1
        <4>2. Recorded \ {NoRow} \subseteq Recorded'
          BY <1>5, <2>2, <4>1
        <4>3. Rowless' \subseteq Rowless
          BY <1>2, <2>1, <4>1, <4>2 DEF Rowless
        <4> QED
          BY <2>5, <4>1, <4>3
      <3> QED
        BY <3>1
    <2>8. outcome # "ok"
      BY <2>1 DEF CompleteInv
    <2> QED
      BY <2>1, <2>2, <2>3, <2>4, <2>6, <2>7, <2>8 DEF CompleteInv, Closing
  <1>12. CASE FlushJsonl
    <2>1. /\ pc = "jsonl_flush" /\ pc' = "wait" /\ FlushLine
          /\ UNCHANGED <<fut, resume, limit, targets, outcome>> /\ cur' = NoRow
          /\ jsonlBuf.row = cur /\ cur \in Hosts /\ jsonlBuf.row # NoRow
      BY <1>2, <1>12 DEF FlushJsonl, InHand
    <2>2. /\ UNCHANGED <<csv, fills>> /\ ~jsonl'.torn
          /\ LinesIn(jsonl) \subseteq LinesIn(jsonl') \cup {jsonl.last}
          /\ ~jsonl.torn => cur \in LinesIn(jsonl')
      BY <1>1, <2>1, LineFlushed
    <2>3. Asked(limit)' = Asked(limit) /\ Skipped' = Skipped
      BY <2>1, <2>2 DEF Asked, Skipped, Recorded
    <2>4. Done' \subseteq Done \cup {cur} /\ NoRow \notin Done'
      BY <1>2, <2>1 DEF Done
    <2>5. CASE jsonl.torn
      <3>1. outcome = "none" => Untold' \subseteq {cur}
        BY <2>1, <2>4, <2>5 DEF CompleteInv, Untold
      <3>2. Rowless' \subseteq Rowless
        BY <1>5, <2>1, <2>2 DEF Rowless
      <3>3. outcome = "none" => \A g, h \in Untold' : g = h
        BY <3>1
      <3> QED
        BY <2>1, <2>2, <2>3, <3>2, <3>3 DEF CompleteInv, Closing
    <2>6. CASE ~jsonl.torn
      <3>1. Untold' \subseteq Untold
        BY <1>3, <1>5, <2>2, <2>4, <2>6 DEF Untold
      <3>2. Rowless' \subseteq Rowless
        BY <1>5, <2>1, <2>2 DEF Rowless
      <3> QED
        BY <2>1, <2>2, <2>3, <3>1, <3>2 DEF CompleteInv, Closing
    <2> QED
      BY <2>5, <2>6
  <1>13. CASE PoolExit
    <2>1. /\ UNCHANGED <<fut, csv, jsonl, fills, resume, limit, targets, cur, outcome>>
          /\ pc' = "close_csv"
          /\ \/ pc = "drain"
             \/ pc = "wait" /\ cur = NoRow /\ \A h \in targets : fut[h] = "yielded"
      BY <1>2, <1>13 DEF PoolExit, AllYielded, HostsIn, writerVars, InHand
    <2>2. Done' = Done /\ (pc = "wait" => Rowless' \subseteq Rowless)
      BY <1>5, <2>1 DEF Done, Rowless
    <2>3. CASE pc = "wait"
      BY <2>1, <2>2, <2>3, RunGoesOn
    <2>4. CASE pc = "drain"
      BY <2>1, <2>4 DEF CompleteInv
    <2> QED
      BY <2>1, <2>3, <2>4
  <1>14. CASE CloseCsv
    <2>1. /\ pc = "close_csv" /\ pc' = "close_jsonl"
          /\ UNCHANGED <<fut, resume, limit, targets, cur>>
          /\ (FlushRow /\ outcome' = outcome) \/ outcome' = "failed"
      BY <1>14 DEF CloseCsv
    <2>2. CASE outcome' = "failed"
      BY <2>1, <2>2, RunSpoilt
    <2>3. CASE FlushRow /\ outcome = "none" /\ outcome' = "none"
      <3>1. cur = NoRow /\ csvBuf.row = NoRow /\ \A h \in targets : fut[h] = "yielded"
        BY <2>1, <2>3 DEF CompleteInv, InHand, Closing
      <3>2. /\ UNCHANGED <<jsonl, fills>>
            /\ csv'.keyed = csv.keyed /\ csv'.last = csv.last
        BY <1>1, <2>3, <3>1, HeaderFlushed
      <3>3. Recorded' = Recorded /\ Told' = Told /\ Asked(limit)' = Asked(limit)
        BY <2>1, <3>2 DEF Recorded, Told, Asked
      <3>4. Done' = Done /\ Untold' = Untold /\ Skipped' = Skipped /\ Rowless' \subseteq Rowless
        BY <2>1, <3>3 DEF Done, Untold, Skipped, Rowless
      <3> QED
        BY <2>1, <2>3, <3>1, <3>2, <3>3, <3>4 DEF CompleteInv
    <2>4. CASE outcome # "none" /\ outcome' = outcome
      BY <2>1, <2>4 DEF CompleteInv
    <2> QED
      BY <2>1, <2>2, <2>3, <2>4
  <1>15. CASE CloseJsonl
    <2>1. /\ pc = "close_jsonl" /\ pc' = "exit" /\ UNCHANGED <<fut, resume, limit, targets, cur>>
          /\ (FlushLine /\ outcome' = outcome) \/ outcome' = "failed"
      BY <1>15 DEF CloseJsonl
    <2>2. CASE outcome' = "failed"
      BY <2>1, <2>2, RunSpoilt
    <2>3. CASE FlushLine /\ outcome = "none" /\ outcome' = "none"
      <3>1. cur = NoRow /\ jsonlBuf.row = NoRow /\ \A h \in targets : fut[h] = "yielded"
        BY <2>1, <2>3 DEF CompleteInv, InHand, Closing
      <3>2. UNCHANGED <<csv, jsonl, fills>>
        BY <1>1, <2>3, <3>1, LineFlushed
      <3>3. Done' = Done /\ Rowless' \subseteq Rowless
        BY <1>5, <2>1, <3>2 DEF Done, Rowless
      <3> QED
        BY <2>1, <2>3, <3>1, <3>2, <3>3, RunGoesOn
    <2>4. CASE outcome # "none" /\ outcome' = outcome
      BY <2>1, <2>4 DEF CompleteInv
    <2> QED
      BY <2>1, <2>2, <2>3, <2>4
  <1>16. CASE PoolRefused \/ WriteFails \/ CloseFails \/ Interrupt \/ Kill
    <2>1. outcome' = "failed" /\ pc' # "open_csv"
      BY <1>16 DEF PoolRefused, WriteFails, CloseFails, Interrupt, Kill, Fault, Pooling
    <2> QED
      BY <2>1, RunSpoilt
  <1>17. CASE Exit
    <2>1. /\ pc = "exit" /\ pc' = "down" /\ UNCHANGED <<csv, jsonl, fills, limit>>
          /\ outcome' = IF outcome = "none" THEN "ok" ELSE outcome
      BY <1>17 DEF Exit, writerVars
    <2>2. ASSUME outcome = "none"
          PROVE  RunComplete'
      <3>1. /\ cur = NoRow /\ \A h \in targets : fut[h] = "yielded"
            /\ \A g, h \in Skipped : g = h
            /\ \A g, h \in Untold : g = h
            /\ fills = 0 => Skipped = {} /\ Rowless = {}
        BY <2>1, <2>2 DEF CompleteInv, Closing
      <3>2. targets \subseteq Done
        BY <1>2, <3>1 DEF Done
      <3>3. Lost \subseteq Skipped \cup Untold
        BY <3>2 DEF Lost, Missing, Skipped, Untold
      <3>4. fills = 0 => Missing = {}
        BY <2>1, <3>1 DEF Missing, Skipped, Rowless
      <3>5. PICK g \in Hosts \cup {NoRow} : Skipped \subseteq {g}
        BY <1>4, <3>1 DEF Skipped
      <3>6. PICK h \in Hosts \cup {NoRow} : Untold \subseteq {h}
        <4>1. Untold \subseteq Hosts
          BY <1>2 DEF Untold, Done
        <4> QED
          BY <3>1, <4>1
      <3>7. Lost' \subseteq {g, h} /\ Missing' = Missing
        BY <2>1, <3>3, <3>5, <3>6 DEF Lost, Missing, Recorded, Told, Asked
      <3> QED
        BY <2>1, <3>4, <3>7 DEF RunComplete
    <2>3. outcome # "none" => outcome' # "ok"
      BY <2>1 DEF CompleteInv
    <2> QED
      BY <2>1, <2>2, <2>3 DEF CompleteInv, RunComplete
  <1>18. CASE FreeDisk \/ UNCHANGED vars
    <2>1. UNCHANGED <<fut, csv, jsonl, fills, pc, resume, limit, targets, cur, outcome>>
      BY <1>18 DEF FreeDisk, DiskFreed, vars, writerVars, runVars
    <2>2. /\ Recorded' = Recorded /\ Told' = Told /\ Asked(limit)' = Asked(limit)
      BY <2>1 DEF Recorded, Told, Asked
    <2>3. /\ Done' = Done /\ Untold' = Untold /\ Skipped' = Skipped /\ Rowless' = Rowless
          /\ RunComplete' <=> RunComplete
      BY <2>1, <2>2 DEF Done, Untold, Skipped, Rowless, RunComplete, Lost, Missing
    <2> QED
      BY <2>1, <2>2, <2>3 DEF CompleteInv
  <1> QED
    BY <1>6, <1>7, <1>8, <1>9, <1>10, <1>11, <1>12, <1>13, <1>14, <1>15, <1>16, <1>17, <1>18
    DEF Next, MainStep, WorkerStep

\* An invocation that ends normally has a row for every host it was asked for;
\* after a full disk, for all but two a row or at least an audit line
\* (cli._cmd_run, --limit and --resume, over any series of runs).
THEOREM CompleteRuns == Spec => []RunComplete
  <1>1. CompleteInv => RunComplete
    BY DEF CompleteInv, RunComplete
  <1>2. Spec => []InHand
    BY InvInit, InvStep, InHandInit, InHandStep, PTL DEF Spec
  <1> QED
    BY <1>1, <1>2, InvInit, InvStep, CompleteInit, CompleteStep, PTL DEF Spec

-----------------------------------------------------------------------------
(* The refinement.                                                         *)

\* The first state of a campaign is that of a census.
LEMMA CensusInit == Init => CampaignCensus!Init
  BY EmptyTypes DEF Init, WriterInit, Recorded, CampaignCensus!Init

\* Every step of a campaign is one of the census, or none.
LEMMA CensusStep ==
    CampaignInv /\ InHand /\ CompleteInv /\ [Next]_vars
    => [CampaignCensus!Next]_(CampaignCensus!census)
  <1> SUFFICES ASSUME CampaignInv, InHand, CompleteInv, [Next]_vars
               PROVE  [CampaignCensus!Next]_(CampaignCensus!census)
    OBVIOUS
  <1> DEFINE Outside == pc \in {"down", "open_csv"}
             Complete == outcome = "ok" /\ fills = 0
  <1> USE DEF Goto, Pooling, Writing, Closing
  <1>1. /\ TypeOK /\ WriterTypeOK
        /\ outcome = "ok" => pc = "down"
        /\ targets \subseteq Hosts /\ targets' \subseteq Hosts
        /\ csvBuf.row \in Hosts \cup {NoRow} /\ csv.last \in Hosts \cup {NoRow}
        /\ csv.last # NoRow => csv.tail = "hostname"
    BY TypeStep DEF CampaignInv, CompleteInv, TypeOK, WriterTypeOK, LastCounted
  <1>2. /\ Recorded \subseteq Hosts /\ Recorded' \subseteq Hosts
        /\ Recorded = RowsIn(csv) /\ Recorded' = RowsIn(csv')
    BY DEF Recorded, RowsIn
  \* What each abstract action is under the mapping.
  <1>3. ASSUME Outside, ~Outside', ~Complete', targets' \cap Recorded' = {},
               \/ UNCHANGED csv
               \/ Recorded' = {} /\ csv'.tail = "none"
        PROVE  CampaignCensus!Begin
    <2>1. csv' = csv => Recorded' = Recorded
      BY DEF Recorded
    <2> QED
      BY <1>1, <1>3, <2>1 DEF CampaignCensus!Begin
  <1>4. ASSUME ~Outside, ~Outside', UNCHANGED <<targets, Recorded>>,
               csv.tail = "none" <=> csv'.tail = "none", ~Complete, ~Complete'
        PROVE  UNCHANGED CampaignCensus!census
    BY <1>4 DEF CampaignCensus!census
  <1>5. ASSUME ~Outside, ~Outside', UNCHANGED targets, ~Complete, ~Complete',
               csv.tail = "none", csv'.tail = "none",
               NEW h \in targets, Recorded' = Recorded \cup {h}
        PROVE  CampaignCensus!Next
    <2>1. CampaignCensus!Record(h)
      BY <1>5 DEF CampaignCensus!Record
    <2> QED
      BY <1>1, <2>1 DEF CampaignCensus!Next
  <1>6. ASSUME ~Outside, ~Outside', UNCHANGED targets, ~Complete, ~Complete',
               csv.tail = "none", csv'.tail # "none", NEW g \in Hosts,
               Recorded \subseteq Recorded', Recorded' \subseteq Recorded \cup {g}
        PROVE  CampaignCensus!Next
    <2>1. PICK m \in SUBSET Hosts : m \subseteq {g} /\ Recorded' = Recorded \cup m
      <3>1. /\ Recorded' \ Recorded \in SUBSET Hosts
            /\ Recorded' \ Recorded \subseteq {g}
            /\ Recorded' = Recorded \cup (Recorded' \ Recorded)
        BY <1>2, <1>6
      <3> QED
        BY ONLY <3>1, Zenon
    <2>2. CampaignCensus!Tear
      BY <1>6, <2>1 DEF CampaignCensus!Tear
    <2> QED
      BY <2>2 DEF CampaignCensus!Next
  <1>7. ASSUME ~Outside, ~Outside', UNCHANGED targets, ~Complete, ~Complete',
               csv.tail # "none", csv'.tail = "none", NEW f \in Hosts, NEW g \in Hosts,
               Recorded \subseteq Recorded' \cup {f}, Recorded' \subseteq Recorded \cup {g}
        PROVE  CampaignCensus!Next
    <2>1. PICK l \in SUBSET Hosts, m \in SUBSET Hosts :
             l \subseteq {f} /\ m \subseteq {g} /\ Recorded' = (Recorded \ l) \cup m
      <3>1. /\ Recorded' \ Recorded \in SUBSET Hosts /\ Recorded \ Recorded' \in SUBSET Hosts
            /\ Recorded' \ Recorded \subseteq {g} /\ Recorded \ Recorded' \subseteq {f}
            /\ Recorded' = (Recorded \ (Recorded \ Recorded')) \cup (Recorded' \ Recorded)
        BY <1>2, <1>7
      <3> QED
        BY ONLY <3>1, Zenon
    <2>2. CampaignCensus!Mend
      BY <1>7, <2>1 DEF CampaignCensus!Mend
    <2> QED
      BY <2>2 DEF CampaignCensus!Next
  <1>8. ASSUME ~Outside, Outside', UNCHANGED csv, Complete' => targets \subseteq Recorded
        PROVE  CampaignCensus!Next
    BY <1>8 DEF CampaignCensus!Finish, CampaignCensus!Next, Recorded
  <1>9. ASSUME Outside, Outside', UNCHANGED csv, ~Complete'
        PROVE  CampaignCensus!Next
    BY <1>9 DEF CampaignCensus!Forget, CampaignCensus!Next, Recorded
  <1>10. ~Outside /\ outcome' \in {outcome, "failed"} => ~Complete /\ ~Complete'
    BY <1>1
  <1>11. ASSUME NEW i \in Invocations, Launch(i)
         PROVE  CampaignCensus!Next
    BY <1>9, <1>11 DEF Launch, writerVars
  <1>12. CASE OpenCsvFile
    <2>1. /\ pc = "open_csv" /\ pc' = "open_jsonl" /\ UNCHANGED <<resume, targets, outcome>>
          /\ csv' = IF resume THEN csv ELSE EmptyCsv
      BY <1>12 DEF OpenCsvFile, OpenCsv
    <2>2. resume => targets' \cap Recorded' = {}
      BY <2>1 DEF CompleteInv, Recorded
    <2>3. ~resume => Recorded' = {} /\ csv'.tail = "none"
      BY <2>1, EmptyTypes DEF Recorded
    <2> QED
      BY <1>1, <1>3, <2>1, <2>2, <2>3 DEF CampaignCensus!Next
  <1>13. ASSUME ~Outside, ~Outside', UNCHANGED targets, ~Complete, ~Complete',
                pc \in {"csv_flush", "close_csv"}, FlushRow
         PROVE  [CampaignCensus!Next]_(CampaignCensus!census)
    <2>1. CASE csvBuf.row = NoRow
      <3>1. csv'.keyed = csv.keyed /\ csv'.tail = csv.tail
        BY <1>1, <1>13, <2>1, HeaderFlushed
      <3>2. Recorded' = Recorded
        BY <3>1 DEF Recorded
      <3> QED
        BY <1>4, <1>13, <3>1, <3>2
    <2>2. CASE csvBuf.row # NoRow
      <3>1. csvBuf.row \in targets
        BY <1>1, <1>13, <2>2 DEF CampaignInv, RecordInHand, FileOpen, PoolScope
      <3>2. /\ csv'.tail = "none" \/ (csv'.tail = "quoted" /\ csv.tail = "quoted")
            /\ \E read \in Hosts \cup {NoRow} :
                  /\ Recorded' \subseteq Recorded \cup {read}
                  /\ Recorded \subseteq Recorded' \cup {csv.last}
                  /\ read # NoRow => read \in Recorded'
                  /\ csv.tail = "none" => read \in {csvBuf.row, NoRow}
                  /\ csv.tail = "quoted" => read = NoRow
        BY <1>1, <1>2, <1>13, <2>2, RowFlushed
      <3>3. PICK read \in Hosts \cup {NoRow} :
                  /\ Recorded' \subseteq Recorded \cup {read}
                  /\ Recorded \subseteq Recorded' \cup {csv.last}
                  /\ read # NoRow => read \in Recorded'
                  /\ csv.tail = "none" => read \in {csvBuf.row, NoRow}
                  /\ csv.tail = "quoted" => read = NoRow
        BY <3>2
      <3>4. /\ csv.last = NoRow => Recorded \subseteq Recorded'
            /\ read = NoRow => Recorded' \subseteq Recorded
        BY <1>2, <3>3
      <3>5. CASE csv.tail = "none" /\ read # NoRow
        <4>1. read = csvBuf.row /\ Recorded' = Recorded \cup {csvBuf.row} /\ csv'.tail = "none"
          BY <1>1, <3>2, <3>3, <3>4, <3>5
        <4> QED
          BY <1>5, <1>13, <3>1, <3>5, <4>1
      <3>6. CASE (csv.tail = "none" /\ read = NoRow) \/ csv'.tail = "quoted"
        <4>1. Recorded' = Recorded /\ (csv.tail = "none" <=> csv'.tail = "none")
          BY <1>1, <3>2, <3>3, <3>4, <3>6
        <4> QED
          BY <1>4, <1>13, <4>1
      <3>7. CASE csv.tail # "none" /\ csv'.tail = "none"
        <4>1. PICK f \in Hosts : Recorded \subseteq Recorded' \cup {f}
          BY <1>1, <3>1, <3>3, <3>4
        <4>2. PICK g \in Hosts : Recorded' \subseteq Recorded \cup {g}
          BY <1>1, <3>1, <3>3, <3>4
        <4> QED
          BY <1>7, <1>13, <3>7, <4>1, <4>2
      <3> QED
        BY <3>2, <3>5, <3>6, <3>7
    <2> QED
      BY <2>1, <2>2
  <1>14. ASSUME ~Outside, ~Outside', UNCHANGED <<targets, csv>>, ~Complete, ~Complete'
         PROVE  UNCHANGED CampaignCensus!census
    BY <1>4, <1>14 DEF Recorded
  <1>15. CASE FlushCsv \/ CloseCsv
    <2>1. /\ pc \in {"csv_flush", "close_csv"} /\ pc' \in {"jsonl_row", "close_jsonl"}
          /\ UNCHANGED targets /\ outcome' \in {outcome, "failed"}
          /\ FlushRow \/ UNCHANGED csv
      BY <1>15 DEF FlushCsv, CloseCsv, LoseCsvBuf
    <2> QED
      BY <1>10, <1>13, <1>14, <2>1
  <1>16. CASE WriteFails \/ CloseFails
    <2>1. /\ pc \in {"csv_flush", "jsonl_flush", "close_csv", "close_jsonl"}
          /\ pc' \in {"drain", "close_csv", "close_jsonl"}
          /\ UNCHANGED targets /\ outcome' = "failed"
          /\ FlushRowFails \/ UNCHANGED csv
      BY <1>16 DEF WriteFails, CloseFails, FlushLineFails
    <2>2. ~Outside /\ ~Outside' /\ ~Complete /\ ~Complete'
      BY <1>10, <2>1
    <2>3. CASE FlushRowFails
      <3>1. \/ UNCHANGED csv
            \/ /\ csv.tail = "none" /\ csvBuf.row \in Hosts /\ csv'.tail \in Cuts
               /\ \E read \in Hosts \cup {NoRow} :
                     /\ Recorded' \subseteq Recorded \cup {read}
                     /\ Recorded \subseteq Recorded'
            \/ /\ csv.tail = "quoted" /\ csv'.tail = "record" /\ csv'.keyed = csv.keyed
        BY <1>1, <1>2, <2>3, RowCut
      <3>2. CASE /\ csv.tail = "none" /\ csvBuf.row \in Hosts /\ csv'.tail \in Cuts
                 /\ \E read \in Hosts \cup {NoRow} :
                       /\ Recorded' \subseteq Recorded \cup {read}
                       /\ Recorded \subseteq Recorded'
        <4>1. PICK g \in Hosts : Recorded' \subseteq Recorded \cup {g}
          <5>1. PICK read \in Hosts \cup {NoRow} : Recorded' \subseteq Recorded \cup {read}
            BY <3>2
          <5>2. read = NoRow => Recorded' \subseteq Recorded \cup {csvBuf.row}
            BY <1>2, <5>1
          <5> QED
            BY <3>2, <5>1, <5>2
        <4>2. csv'.tail # "none"
          BY <3>2
        <4> QED
          BY <1>6, <2>1, <2>2, <3>2, <4>1, <4>2
      <3>3. CASE csv.tail = "quoted" /\ csv'.tail = "record" /\ csv'.keyed = csv.keyed
        <4>1. Recorded' = Recorded
          BY <3>3 DEF Recorded
        <4> QED
          BY <1>4, <2>1, <2>2, <3>3, <4>1
      <3> QED
        BY <1>14, <2>1, <2>2, <3>1, <3>2, <3>3
    <2> QED
      BY <1>14, <2>1, <2>2, <2>3
  <1>17. CASE \/ OpenJsonlFile \/ PoolRefused \/ SubmitDone
              \/ \E h \in Hosts : SubmitNext(h) \/ TakeResult(h)
              \/ WriteRow \/ WriteLine \/ FlushJsonl \/ PoolExit \/ CloseJsonl
    <2>1. /\ ~Outside /\ ~Outside' /\ UNCHANGED <<targets, csv>>
          /\ outcome' \in {outcome, "failed"}
      BY <1>17 DEF OpenJsonlFile, OpenJsonl, PoolRefused, SubmitDone, SubmitNext, TakeResult,
         WriteRow, BufferRow, WriteLine, BufferLine, FlushJsonl, FlushLine, PoolExit,
         CloseJsonl, LoseJsonlBuf, writerVars, runVars
    <2> QED
      BY <1>10, <1>14, <2>1
  <1>18. CASE Exit
    <2>1. /\ pc = "exit" /\ pc' = "down" /\ UNCHANGED <<csv, fills>>
          /\ outcome' = IF outcome = "none" THEN "ok" ELSE outcome
      BY <1>18 DEF Exit, writerVars
    <2>2. ASSUME Complete'
          PROVE  targets \subseteq Recorded
      <3>1. outcome = "none" /\ fills = 0
        BY <1>1, <2>1, <2>2
      <3>2. Rowless = {} /\ \A h \in targets : fut[h] = "yielded"
        BY <2>1, <3>1 DEF CompleteInv
      <3> QED
        BY <2>1, <3>2 DEF Rowless
    <2> QED
      BY <1>8, <2>1, <2>2
  <1>19. CASE Interrupt \/ Kill
    <2>1. /\ UNCHANGED csv /\ outcome' = "failed"
          /\ \/ pc' = "down"
             \/ ~Outside /\ ~Outside' /\ UNCHANGED targets
      BY <1>19 DEF Interrupt, Kill, Fault, LoseBuffers, writerVars
    <2>2. CASE pc' = "down"
      BY <1>8, <1>9, <2>1, <2>2
    <2> QED
      BY <1>10, <1>14, <2>1, <2>2
  <1>20. CASE FreeDisk \/ WorkerStep \/ UNCHANGED vars
    <2>1. UNCHANGED <<pc, targets, csv, outcome, fills>>
      BY <1>20 DEF FreeDisk, DiskFreed, WorkerStep, WorkerStarts, WorkerFinishes, vars,
         writerVars, runVars
    <2>2. Recorded' = Recorded
      BY <2>1 DEF Recorded
    <2> QED
      BY <2>1, <2>2 DEF CampaignCensus!census
  <1> QED
    BY <1>11, <1>12, <1>15, <1>16, <1>17, <1>18, <1>19, <1>20 DEF Next, MainStep

\* The detailed campaign, with its threads, buffers, files and faults,
\* implements the abstract census of hosts.
THEOREM Refinement == Spec => ImplementsCensus
  <1>1. Spec => [](CampaignInv /\ InHand)
    BY InvInit, InvStep, InHandInit, InHandStep, PTL DEF Spec
  <1>2. Spec => []CompleteInv
    BY <1>1, CompleteInit, CompleteStep, PTL DEF Spec
  <1>3. Spec => CampaignCensus!Init /\ [][CampaignCensus!Next]_(CampaignCensus!census)
    BY <1>1, <1>2, CensusInit, CensusStep, PTL DEF Spec
  <1> QED
    BY <1>3 DEF ImplementsCensus, CampaignCensus!Spec

-----------------------------------------------------------------------------
(* Lost lines.                                                             *)

\* The sets of hosts the counts are about are finite.
LEMMA FewHosts == ASSUME NEW S \in SUBSET Hosts
                  PROVE  IsFiniteSet(S) /\ Cardinality(S) \in Nat
  <1>1. IsFiniteSet(Hosts)
    BY FS_Interval, PopulationAssumption
  <1> QED
    BY <1>1, FS_Subset, FS_CardinalityType

\* How many hosts become exposed, ...
Exposes(g) ==
    \/ g = 0 /\ Exposed' \subseteq Exposed
    \/ g = 1 /\ \E a \in Hosts \cup {NoRow} : Exposed' \subseteq Exposed \cup {a}
    \/ g = 2 /\ \E a, b \in Hosts \cup {NoRow} : Exposed' \subseteq Exposed \cup {a, b}

\* ... and who pays for them and for what can still be lost: what could be lost
\* before, an interrupt or a kill with one, a full disk with four.
Pays(g, torn, stray) ==
    \/ UNCHANGED <<faults, fills>> /\ g + torn + stray <= Torn + Stray
    \/ /\ faults' = faults + 1 /\ UNCHANGED fills
       /\ g + torn + stray <= Torn + Stray + 1
    \/ UNCHANGED faults /\ fills' = fills + 1 /\ g + torn + stray <= Torn + Stray + 4

\* A step that is paid for keeps the account in balance.
LEMMA Ledger ==
    ASSUME TypeOK, AuditInv, InHand', NEW g \in 0..2, NEW t \in 0..2, NEW s \in 0..2,
           Exposes(g), Torn' = t, Stray' = s, Pays(g, t, s)
    PROVE  AuditInv'
  <1>1. faults \in Nat /\ fills \in Nat
    BY DEF TypeOK, WriterTypeOK
  <1>2. Exposed \in SUBSET Hosts /\ Exposed' \in SUBSET Hosts
    BY DEF Exposed, Recorded
  <1>3. /\ IsFiniteSet(Exposed) /\ Cardinality(Exposed) \in Nat
        /\ IsFiniteSet(Exposed') /\ Cardinality(Exposed') \in Nat
    BY <1>2, FewHosts
  <1>4. ASSUME NEW T, IsFiniteSet(T), NEW a
        PROVE  /\ IsFiniteSet(T \cup {a}) /\ Cardinality(T \cup {a}) \in Nat
               /\ Cardinality(T) \in Nat /\ Cardinality(T \cup {a}) <= Cardinality(T) + 1
    <2>1. /\ IsFiniteSet(T \cup {a}) /\ Cardinality(T) \in Nat
          /\ Cardinality(T \cup {a}) = IF a \in T THEN Cardinality(T) ELSE Cardinality(T) + 1
      BY <1>4, FS_AddElement, FS_CardinalityType
    <2> QED
      BY <2>1
  <1>5. ASSUME NEW T, IsFiniteSet(T), Exposed' \subseteq T
        PROVE  Cardinality(Exposed') <= Cardinality(T)
    BY <1>5, FS_Subset
  <1>6. ASSUME NEW e, e = Cardinality(Exposed')
        PROVE  e \in Nat /\ e <= Cardinality(Exposed) + g
    <2>1. CASE g = 0 /\ Exposed' \subseteq Exposed
      <3>1. e <= Cardinality(Exposed)
        BY <1>3, <1>5, <1>6, <2>1
      <3> QED
        BY <1>3, <1>6, <2>1, <3>1
    <2>2. ASSUME g = 1, NEW a, Exposed' \subseteq Exposed \cup {a}
          PROVE  e \in Nat /\ e <= Cardinality(Exposed) + g
      <3>1. /\ IsFiniteSet(Exposed \cup {a}) /\ Cardinality(Exposed \cup {a}) \in Nat
            /\ Cardinality(Exposed \cup {a}) <= Cardinality(Exposed) + 1
        BY <1>3, <1>4
      <3>2. e <= Cardinality(Exposed \cup {a}) /\ e \in Nat
        BY <1>3, <1>5, <1>6, <2>2, <3>1
      <3> QED
        BY ONLY <1>3, <2>2, <3>1, <3>2
    <2>3. ASSUME g = 2, NEW a, NEW b, Exposed' \subseteq Exposed \cup {a, b}
          PROVE  e \in Nat /\ e <= Cardinality(Exposed) + g
      <3>1. /\ IsFiniteSet(Exposed \cup {a}) /\ Cardinality(Exposed \cup {a}) \in Nat
            /\ Cardinality(Exposed \cup {a}) <= Cardinality(Exposed) + 1
        BY <1>3, <1>4
      <3>2. /\ IsFiniteSet((Exposed \cup {a}) \cup {b})
            /\ Cardinality((Exposed \cup {a}) \cup {b}) \in Nat
            /\ Cardinality((Exposed \cup {a}) \cup {b}) <= Cardinality(Exposed \cup {a}) + 1
        BY <1>4, <3>1
      <3>3. Exposed' \subseteq (Exposed \cup {a}) \cup {b}
        BY <2>3
      <3>4. e <= Cardinality((Exposed \cup {a}) \cup {b}) /\ e \in Nat
        BY <1>3, <1>5, <1>6, <3>2, <3>3
      <3> QED
        BY ONLY <1>3, <2>3, <3>1, <3>2, <3>4
    <2> QED
      BY <2>1, <2>2, <2>3 DEF Exposes
  <1>7. Torn \in 0..2 /\ Stray \in 0..2
    BY DEF Torn, Stray, One, TypeOK, WriterTypeOK
  <1>8. Cardinality(Exposed) + Torn + Stray <= faults + 4 * fills
    BY DEF AuditInv
  <1>9. ASSUME NEW e, NEW f, NEW l, e = Cardinality(Exposed'), f = faults', l = fills'
        PROVE  e + t + s <= f + 4 * l
    <2>1. /\ e \in Nat /\ e <= Cardinality(Exposed) + g
          /\ \/ f = faults /\ l = fills /\ g + t + s <= Torn + Stray
             \/ f = faults + 1 /\ l = fills /\ g + t + s <= Torn + Stray + 1
             \/ f = faults /\ l = fills + 1 /\ g + t + s <= Torn + Stray + 4
      BY <1>6, <1>9 DEF Pays
    <2> QED
      BY ONLY <1>1, <1>3, <1>7, <1>8, <2>1, g \in 0..2, t \in 0..2, s \in 0..2
  <1> QED
    BY <1>9 DEF AuditInv

\* Nothing is owed at the start.
LEMMA AuditInit == Init => AuditInv
  <1> SUFFICES ASSUME Init
               PROVE  AuditInv
    OBVIOUS
  <1>1. /\ csv = EmptyCsv /\ csv.tail = "none" /\ ~jsonl.torn /\ jsonl.last = NoRow
        /\ csvBuf.row = NoRow /\ ~diskFull /\ faults = 0 /\ fills = 0
    BY EmptyTypes DEF Init, WriterInit
  <1>2. Exposed = {}
    BY <1>1, EmptyTypes DEF Exposed, Recorded
  <1>3. Torn = 0 /\ Stray = 0
    BY <1>1 DEF Torn, Stray, One
  <1> QED
    BY <1>1, <1>2, <1>3, InHandInit, FS_EmptySet DEF AuditInv

\* Every step of the campaign is paid for.
LEMMA AuditStep == CampaignInv /\ AuditInv /\ [Next]_vars => AuditInv'
  <1> SUFFICES ASSUME CampaignInv, AuditInv, [Next]_vars
               PROVE  AuditInv'
    OBVIOUS
  <1>0. TypeOK /\ TypeOK' /\ InHand /\ InHand' /\ WriterTypeOK /\ WriterTypeOK'
    BY TypeStep, InHandStep DEF CampaignInv, AuditInv, TypeOK
  <1>1. /\ cur \in Hosts \cup {NoRow} /\ csvBuf.row \in Hosts \cup {NoRow}
        /\ jsonlBuf.row \in Hosts \cup {NoRow} /\ csv.tail \in Cuts \cup {"none"}
        /\ csv.last \in Hosts \cup {NoRow} /\ jsonl.last \in Hosts \cup {NoRow}
        /\ jsonl.last # NoRow => jsonl.torn
        /\ jsonl'.last # NoRow => jsonl'.torn
        /\ csv'.tail \in Cuts \cup {"none"}
        /\ jsonl.torn \in BOOLEAN /\ diskFull \in BOOLEAN
        /\ csvBuf.rest \in BOOLEAN /\ csvBuf'.rest \in BOOLEAN
        /\ pc \in {"csv_row", "csv_flush"} => cur \in Hosts
    BY <1>0 DEF TypeOK, WriterTypeOK, LastCounted, CampaignInv, RecordInHand
  <1>2. /\ Recorded = RowsIn(csv) /\ Recorded' = RowsIn(csv')
        /\ Told = LinesIn(jsonl) /\ Told' = LinesIn(jsonl')
    BY DEF Recorded, RowsIn, Told, LinesIn
  <1>3. ASSUME NEW g \in 0..2, NEW t \in 0..2, NEW s \in 0..2,
               Exposes(g), Torn' = t, Stray' = s, Pays(g, t, s)
        PROVE  AuditInv'
    BY <1>0, <1>3, Ledger
  <1>4. Torn \in 0..2 /\ Stray \in 0..2 /\ Torn' \in 0..2 /\ Stray' \in 0..2
    BY <1>1 DEF Torn, Stray, One
  \* A step that exposes nobody and leaves what can still be lost alone.
  <1>5. ASSUME Exposed' \subseteq Exposed, Torn' = Torn, Stray' = Stray,
               UNCHANGED <<faults, fills>>
        PROVE  AuditInv'
    <2>1. Exposes(0) /\ Pays(0, Torn, Stray)
      BY <1>4, <1>5 DEF Exposes, Pays
    <2> QED
      BY <1>3, <1>4, <1>5, <2>1
  <1> USE DEF Goto
  <1>6. ASSUME NEW i \in Invocations, Launch(i)
        PROVE  AuditInv'
    <2>1. /\ UNCHANGED <<csv, jsonl, csvBuf, diskFull, fills, cur, faults>>
          /\ cur = NoRow /\ csvBuf.row = NoRow
      BY <1>0, <1>6 DEF Launch, writerVars, InHand
    <2>2. Exposed' \subseteq Exposed
      BY <2>1 DEF Exposed, Recorded, Told
    <2>3. Torn' = Torn /\ Stray' = Stray
      BY <2>1 DEF Torn, Stray
    <2> QED
      BY <1>5, <2>1, <2>2, <2>3
  <1>7. CASE OpenCsvFile /\ resume
    <2>1. /\ UNCHANGED <<csv, jsonl, diskFull, fills, cur, faults>>
          /\ cur = NoRow /\ csvBuf.row = NoRow /\ csvBuf'.row = NoRow
      BY <1>0, <1>7 DEF OpenCsvFile, OpenCsv, EmptyCsvBuf, InHand
    <2>2. Exposed' \subseteq Exposed
      BY <2>1 DEF Exposed, Recorded, Told
    <2>3. Torn' = Torn /\ Stray' = Stray
      BY <2>1 DEF Torn, Stray
    <2> QED
      BY <1>5, <2>1, <2>2, <2>3
  <1>8. CASE OpenCsvFile /\ ~resume
    <2>1. /\ csv' = EmptyCsv /\ csvBuf'.row = NoRow
          /\ UNCHANGED <<jsonl, diskFull, fills, faults>>
      BY <1>0, <1>8 DEF OpenCsvFile, OpenCsv, EmptyCsvBuf
    <2>2. Exposed' = {} /\ csv'.tail = "none"
      BY <2>1, EmptyTypes DEF Exposed, Recorded
    <2>3. fills = 0 => Torn' = 0 /\ Stray' = 0
      BY <1>1, <2>1, <2>2 DEF Torn, Stray, One, CampaignInv
    <2>4. faults \in Nat /\ fills \in Nat
      BY <1>0 DEF TypeOK, WriterTypeOK
    <2>5. Cardinality(Exposed') = 0
      BY <2>2, FS_EmptySet
    <2>6. ASSUME NEW t \in 0..2, NEW s \in 0..2, fills = 0 => t = 0 /\ s = 0
          PROVE  0 + t + s <= faults + 4 * fills
      BY ONLY <2>4, <2>6
    <2>7. 0 + Torn' + Stray' <= faults + 4 * fills
      BY <1>4, <2>3, <2>6
    <2>8. Cardinality(Exposed') + Torn' + Stray' <= faults' + 4 * fills'
      BY ONLY <2>1, <2>5, <2>7, Zenon
    <2> QED
      BY ONLY <1>0, <2>8 DEF AuditInv
  <1>9. CASE OpenJsonlFile
    <2>1. /\ UNCHANGED <<csv, csvBuf, diskFull, fills, cur, faults>>
          /\ cur = NoRow /\ csvBuf.row = NoRow
          /\ jsonl' = IF resume THEN jsonl ELSE EmptyJsonl
          /\ ~resume => csv' = EmptyCsv
      BY <1>0, <1>9 DEF OpenJsonlFile, OpenJsonl, InHand
    <2>2. Stray' = Stray
      BY <2>1 DEF Stray
    <2>3. CASE resume
      <3>1. Exposed' \subseteq Exposed /\ Torn' = Torn
        BY <2>1, <2>3 DEF Exposed, Recorded, Told, Torn
      <3> QED
        BY <1>5, <2>1, <2>2, <3>1
    <2>4. CASE ~resume
      <3>1. Exposed' = {} /\ Torn' = 0
        BY <2>1, <2>4, EmptyTypes DEF Exposed, Recorded, Torn, One
      <3>2. Exposes(0) /\ Pays(0, 0, Stray)
        BY <1>4, <2>1, <3>1 DEF Exposes, Pays
      <3> QED
        BY <1>3, <1>4, <2>2, <3>1, <3>2
    <2> QED
      BY <2>3, <2>4
  <1>10. CASE SubmitDone \/ PoolExit \/ PoolRefused
    <2>1. /\ UNCHANGED <<csv, jsonl, csvBuf, diskFull, fills, cur, faults>>
          /\ csvBuf.row # NoRow => pc \in Unwinding /\ pc' \in Unwinding
          /\ pc \notin {"jsonl_row", "jsonl_flush"}
      BY <1>0, <1>10
      DEF SubmitDone, PoolExit, PoolRefused, writerVars, InHand, Unwinding, Closing
    <2>2. Exposed' \subseteq Exposed
      BY <2>1 DEF Exposed, Recorded, Told
    <2>3. Torn' = Torn /\ Stray' = Stray
      BY <2>1 DEF Torn, Stray
    <2> QED
      BY <1>5, <2>1, <2>2, <2>3
  <1>11. ASSUME NEW h \in Hosts, \/ SubmitNext(h) \/ TakeResult(h)
                                 \/ WorkerStarts(h) \/ WorkerFinishes(h)
         PROVE  AuditInv'
    <2>1. /\ UNCHANGED <<csv, jsonl, csvBuf, diskFull, fills, faults>>
          /\ \/ UNCHANGED <<pc, cur>>
             \/ cur = NoRow /\ pc = "wait" /\ pc' = "csv_row"
      BY <1>0, <1>11 DEF SubmitNext, TakeResult, WorkerStarts, WorkerFinishes, InHand,
         writerVars, runVars
    <2>2. Exposed' \subseteq Exposed
      BY <2>1 DEF Exposed, Recorded, Told
    <2>3. Torn' = Torn /\ Stray' = Stray
      BY <2>1 DEF Torn, Stray, Unwinding, Closing
    <2> QED
      BY <1>5, <2>1, <2>2, <2>3
  <1>12. CASE WriteRow \/ WriteLine
    <2>1. /\ UNCHANGED <<csv, jsonl, diskFull, fills, cur, faults>>
          /\ pc \notin Unwinding /\ pc' \notin Unwinding
          /\ \/ pc = "csv_row" /\ pc' = "csv_flush"
             \/ pc = "jsonl_row" /\ pc' = "jsonl_flush"
      BY <1>12 DEF WriteRow, WriteLine, BufferRow, BufferLine, Unwinding, Closing
    <2>2. Exposed' \subseteq Exposed
      BY <2>1 DEF Exposed, Recorded, Told
    <2>3. Torn' = Torn /\ Stray' = Stray
      BY <2>1 DEF Torn, Stray, One
    <2> QED
      BY <1>5, <2>1, <2>2, <2>3
  <1>13. CASE FlushCsv
    <2>1. /\ csvBuf.row = cur /\ cur # NoRow /\ ~csvBuf.rest /\ FlushRow
          /\ pc = "csv_flush" /\ pc' = "jsonl_row" /\ UNCHANGED <<cur, faults>>
      BY <1>0, <1>1, <1>13 DEF FlushCsv, InHand
    <2>2. PICK read \in Hosts \cup {NoRow} :
             /\ ~diskFull /\ csvBuf' = EmptyCsvBuf
             /\ UNCHANGED <<jsonl, diskFull, fills>>
             /\ csv'.tail = "none" \/ csv'.tail = "quoted"
             /\ Recorded' \subseteq Recorded \cup {read}
             /\ csv.tail \in {"none", "end"} => read = cur
             /\ csv.tail \in {"record", "quoted"} => read = NoRow
      BY <1>0, <1>2, <2>1, RowFlushed
    <2>3. Stray' = 0 /\ Torn' = Torn
      BY <2>1, <2>2 DEF Stray, Torn, One, Unwinding, Closing
    <2>4. Exposed' \subseteq Exposed \cup {read} /\ (read \in {cur, NoRow} => Exposed' \subseteq Exposed)
      BY <2>1, <2>2 DEF Exposed, Told, Recorded
    <2>5. CASE csv.tail \in {"domain", "hostname"}
      <3>1. Stray = 1
        BY <2>5 DEF Stray
      <3>2. Exposes(1) /\ Pays(1, Torn, 0)
        BY <1>4, <2>1, <2>2, <2>4, <3>1 DEF Exposes, Pays
      <3> QED
        BY <1>3, <1>4, <2>3, <3>2
    <2>6. CASE csv.tail \notin {"domain", "hostname"}
      <3>1. Exposes(0) /\ Pays(0, Torn, 0)
        BY <1>1, <1>4, <2>1, <2>2, <2>4, <2>6 DEF Exposes, Pays
      <3> QED
        BY <1>3, <1>4, <2>3, <3>1
    <2> QED
      BY <2>5, <2>6
  <1>14. CASE FlushJsonl
    <2>1. /\ jsonlBuf.row = cur /\ cur \in Hosts /\ jsonlBuf.row # NoRow /\ cur' = NoRow
          /\ FlushLine /\ pc = "jsonl_flush" /\ pc' = "wait" /\ UNCHANGED faults
      BY <1>0, <1>1, <1>14 DEF FlushJsonl, InHand
    <2>2. /\ UNCHANGED <<csv, csvBuf, diskFull, fills>>
          /\ ~jsonl'.torn /\ jsonl'.last = NoRow
          /\ Told \subseteq Told' \cup {jsonl.last}
          /\ ~jsonl.torn => cur \in Told'
      BY <1>0, <1>2, <2>1, LineFlushed
    <2>3. Torn' = 0 /\ Stray' = Stray
      <3>1. pc \notin Unwinding /\ pc' \notin Unwinding
        BY <2>1 DEF Unwinding, Closing
      <3>2. Stray' = Stray
        BY <2>2, <3>1 DEF Stray
      <3> QED
        BY <2>2, <3>2 DEF Torn, One
    <2>4. Exposed' \subseteq Exposed \cup {cur, jsonl.last}
      BY <2>1, <2>2 DEF Exposed, Recorded
    <2>5. CASE jsonl.last # NoRow
      <3>1. Torn = 2
        BY <1>1, <2>5 DEF Torn, One
      <3>2. Exposes(2) /\ Pays(2, 0, Stray)
        BY <1>1, <1>4, <2>1, <2>2, <2>4, <3>1 DEF Exposes, Pays
      <3> QED
        BY <1>3, <1>4, <2>3, <3>2
    <2>6. CASE jsonl.last = NoRow /\ jsonl.torn
      <3>1. Torn = 1
        BY <2>6 DEF Torn, One
      <3>2. Exposed' \subseteq Exposed \cup {cur}
        BY <2>4, <2>6 DEF Exposed, Recorded
      <3>3. Exposes(1) /\ Pays(1, 0, Stray)
        BY <1>1, <1>4, <2>1, <2>2, <3>1, <3>2 DEF Exposes, Pays
      <3> QED
        BY <1>3, <1>4, <2>3, <3>3
    <2>7. CASE ~jsonl.torn
      <3>1. Exposed' \subseteq Exposed
        BY <1>1, <2>2, <2>4, <2>7 DEF Exposed, Recorded
      <3>2. Exposes(0) /\ Pays(0, 0, Stray)
        BY <1>4, <2>1, <2>2, <3>1 DEF Exposes, Pays
      <3> QED
        BY <1>3, <1>4, <2>3, <3>2
    <2> QED
      BY <1>1, <2>5, <2>6, <2>7
  <1>15. CASE WriteFails \/ CloseFails
    <2>1. /\ UNCHANGED <<cur, faults>> /\ pc' \in Unwinding
          /\ \/ FlushRowFails /\ pc \in {"csv_flush", "close_csv"}
             \/ FlushLineFails /\ pc \in {"jsonl_flush", "close_jsonl"}
          /\ diskFull => pc = "csv_flush"
          /\ pc' \notin {"jsonl_row", "jsonl_flush"}
      BY <1>0, <1>15 DEF WriteFails, CloseFails, InHand, Unwinding, Closing
    <2>2. CASE FlushLineFails /\ pc \in {"jsonl_flush", "close_jsonl"}
      <3>1. /\ UNCHANGED <<csv, csvBuf>> /\ diskFull' /\ fills' = fills + 1
            /\ Told \subseteq Told'
            /\ \/ UNCHANGED jsonl
               \/ /\ ~jsonl.torn /\ jsonl.last = NoRow
                  /\ jsonl'.last # NoRow =>
                        jsonl'.last = jsonlBuf.row /\ jsonlBuf.row \in Told'
        BY <1>0, <1>2, <2>1, <2>2, LineCut
      <3>2. Exposed' \subseteq Exposed \cup {cur}
        BY <2>1, <3>1 DEF Exposed, Recorded
      <3>3. CASE UNCHANGED jsonl \/ jsonl'.last = NoRow
        <4>1. Torn' \in {Torn, 0, 1}
          BY <3>1, <3>3 DEF Torn, One
        <4>2. Exposes(1) /\ \A t \in {Torn, 0, 1}, s \in 0..2 : Pays(1, t, s)
          BY <1>1, <1>4, <2>1, <3>1, <3>2 DEF Exposes, Pays
        <4> QED
          BY <1>3, <1>4, <4>1, <4>2
      <3>4. CASE jsonl'.last # NoRow /\ ~UNCHANGED jsonl
        <4>1. jsonlBuf.row = cur /\ cur \in Told'
          BY <1>0, <1>1, <3>1, <3>4 DEF InHand
        <4>2. Exposed' \subseteq Exposed
          BY <3>2, <4>1 DEF Exposed
        <4>3. Exposes(0) /\ \A t, s \in 0..2 : Pays(0, t, s)
          BY <1>4, <2>1, <3>1, <4>2 DEF Exposes, Pays
        <4> QED
          BY <1>3, <1>4, <4>3
      <3> QED
        BY <3>3, <3>4
    <2>3. CASE FlushRowFails /\ pc \in {"csv_flush", "close_csv"}
      <3>1. /\ UNCHANGED jsonl /\ diskFull'
            /\ fills' = IF diskFull THEN fills ELSE fills + 1
            /\ csvBuf'.row = csvBuf.row
        BY <1>0, <2>3, RowCut
      <3>2. Torn' = Torn /\ Told' = Told
        BY <3>1 DEF Torn, Told
      <3>3. CASE Recorded' \subseteq Recorded
        <4>1. Exposed' \subseteq Exposed
          BY <2>3, <3>2, <3>3 DEF Exposed
        <4>2. CASE ~diskFull
          <5>1. Exposes(0) /\ \A s \in 0..2 : Pays(0, Torn, s)
            BY <1>4, <2>1, <3>1, <4>1, <4>2 DEF Exposes, Pays
          <5> QED
            BY <1>3, <1>4, <3>2, <5>1
        <4>3. CASE diskFull /\ csv'.tail = csv.tail
          <5>1. Stray' = Stray
            BY <3>1, <4>3 DEF Stray
          <5> QED
            BY <1>5, <2>1, <3>1, <3>2, <4>1, <4>3, <5>1
        <4>4. CASE diskFull /\ csv.tail = "none"
          <5>1. Stray = 2
            BY <4>4 DEF Stray
          <5>2. Exposes(0) /\ \A s \in 0..2 : Pays(0, Torn, s)
            BY <1>4, <2>1, <3>1, <4>1, <4>4, <5>1 DEF Exposes, Pays
          <5> QED
            BY <1>3, <1>4, <3>2, <5>2
        <4>5. CASE diskFull /\ csv.tail = "quoted" /\ csv'.tail = "record"
          <5>1. Stray = 0 /\ Stray' = 0
            BY <4>5 DEF Stray
          <5> QED
            BY <1>5, <2>1, <3>1, <3>2, <4>1, <4>5, <5>1
        <4> QED
          BY <1>0, <1>1, <2>3, <4>2, <4>3, <4>4, <4>5, RowCut
      <3>4. ASSUME csv.tail = "none", csv'.tail \in Cuts, NEW read \in Hosts \cup {NoRow},
                   Recorded' \subseteq Recorded \cup {read}
            PROVE  AuditInv'
        <4>1. Exposed' \subseteq Exposed \cup {read}
          BY <2>3, <3>2, <3>4 DEF Exposed
        <4>2. Stray' \in {0, 1} /\ (diskFull => Stray = 2)
          BY <3>1, <3>4 DEF Stray
        <4>3. Exposes(1) /\ \A s \in {0, 1} : Pays(1, Torn, s)
          BY <1>1, <1>4, <2>1, <3>1, <4>1, <4>2 DEF Exposes, Pays
        <4> QED
          BY <1>3, <1>4, <3>2, <4>2, <4>3
      <3>5. \/ Recorded' \subseteq Recorded
            \/ /\ csv.tail = "none" /\ csv'.tail \in Cuts
               /\ \E read \in Hosts \cup {NoRow} : Recorded' \subseteq Recorded \cup {read}
        <4>1. UNCHANGED csv \/ csv'.keyed = csv.keyed => Recorded' \subseteq Recorded
          BY DEF Recorded
        <4> QED
          BY <1>0, <1>2, <2>3, <4>1, RowCut
      <3> QED
        BY <3>3, <3>4, <3>5
    <2> QED
      BY <2>1, <2>2, <2>3
  <1>16. CASE CloseCsv
    <2>1. /\ UNCHANGED <<jsonl, diskFull, fills, cur, faults>>
          /\ pc = "close_csv" /\ pc' = "close_jsonl" /\ csvBuf'.row = NoRow
          /\ FlushRow \/ LoseCsvBuf
      BY <1>16 DEF CloseCsv, FlushRow, LoseCsvBuf, EmptyCsvBuf
    <2>2. Torn' = Torn /\ Told' = Told /\ pc \in Unwinding
      BY <2>1 DEF Torn, Told, Unwinding, Closing
    <2>3. CASE LoseCsvBuf \/ csvBuf.row = NoRow
      <3>1. /\ csv'.keyed = csv.keyed /\ csv'.tail = csv.tail
            /\ diskFull \/ csvBuf.row = NoRow
        BY <1>0, <2>1, <2>3, HeaderFlushed DEF LoseCsvBuf
      <3>2. Exposed' \subseteq Exposed
        BY <2>1, <2>2, <3>1 DEF Exposed, Recorded
      <3>3. Stray' = Stray
        BY <2>1, <3>1 DEF Stray
      <3> QED
        BY <1>5, <2>1, <2>2, <3>2, <3>3
    <2>4. CASE FlushRow /\ csvBuf.row # NoRow
      <3>1. PICK read \in Hosts \cup {NoRow} :
               /\ ~diskFull
               /\ csv'.tail = "none" \/ csv'.tail = "quoted"
               /\ Recorded' \subseteq Recorded \cup {read}
               /\ csv.tail \in {"none", "end"} /\ csvBuf.rest => read = NoRow
               /\ csv.tail \in {"record", "quoted"} => read = NoRow
        BY <1>0, <1>2, <2>4, RowFlushed
      <3>2. Stray' = 0
        BY <2>1, <3>1 DEF Stray, One
      <3>3. Exposed' \subseteq Exposed \cup {read} /\ (read = NoRow => Exposed' \subseteq Exposed)
        BY <2>1, <2>2, <3>1 DEF Exposed, Recorded
      <3>4. CASE read = NoRow
        <4>1. Exposes(0) /\ Pays(0, Torn, 0)
          BY <1>4, <2>1, <3>3, <3>4 DEF Exposes, Pays
        <4> QED
          BY <1>3, <1>4, <2>2, <3>2, <4>1
      <3>5. CASE read # NoRow
        <4>1. Stray = 1
          BY <1>1, <2>2, <2>4, <3>1, <3>5 DEF Stray, One
        <4>2. Exposes(1) /\ Pays(1, Torn, 0)
          BY <1>4, <2>1, <3>3, <4>1 DEF Exposes, Pays
        <4> QED
          BY <1>3, <1>4, <2>2, <3>2, <4>2
      <3> QED
        BY <3>4, <3>5
    <2> QED
      BY <2>1, <2>3, <2>4
  <1>17. CASE CloseJsonl
    <2>1. /\ UNCHANGED <<csv, csvBuf, diskFull, fills, cur, faults>>
          /\ pc = "close_jsonl" /\ pc' = "exit"
          /\ FlushLine \/ LoseJsonlBuf
      BY <1>17 DEF CloseJsonl, FlushLine, LoseJsonlBuf
    <2>2. Stray' = Stray
      BY <2>1 DEF Stray, Unwinding, Closing
    <2>3. CASE LoseJsonlBuf \/ jsonlBuf.row = NoRow
      <3>1. jsonl' = jsonl
        BY <1>0, <2>1, <2>3, LineFlushed DEF LoseJsonlBuf
      <3>2. Exposed' \subseteq Exposed /\ Torn' = Torn
        BY <2>1, <3>1 DEF Exposed, Recorded, Told, Torn
      <3> QED
        BY <1>5, <2>1, <2>2, <3>2
    <2>4. CASE FlushLine /\ jsonlBuf.row # NoRow
      <3>1. /\ ~jsonl'.torn /\ jsonl'.last = NoRow
            /\ Told \subseteq Told' \cup {jsonl.last}
        BY <1>0, <1>2, <2>4, LineFlushed
      <3>2. Torn' = 0 /\ Exposed' \subseteq Exposed \cup {jsonl.last}
        BY <2>1, <3>1 DEF Torn, One, Exposed, Recorded
      <3>3. CASE jsonl.last = NoRow
        <4>1. Exposed' \subseteq Exposed
          BY <3>2, <3>3 DEF Exposed, Recorded
        <4>2. Exposes(0) /\ Pays(0, 0, Stray)
          BY <1>4, <2>1, <4>1 DEF Exposes, Pays
        <4> QED
          BY <1>3, <1>4, <2>2, <3>2, <4>2
      <3>4. CASE jsonl.last # NoRow
        <4>1. Torn = 2
          BY <1>1, <3>4 DEF Torn, One
        <4>2. Exposes(1) /\ Pays(1, 0, Stray)
          BY <1>1, <1>4, <2>1, <3>2, <4>1 DEF Exposes, Pays
        <4> QED
          BY <1>3, <1>4, <2>2, <3>2, <4>2
      <3> QED
        BY <3>3, <3>4
    <2> QED
      BY <2>1, <2>3, <2>4
  <1>18. CASE Exit
    <2>1. /\ UNCHANGED <<csv, jsonl, csvBuf, diskFull, fills, faults>>
          /\ pc = "exit" /\ csvBuf.row = NoRow
      BY <1>0, <1>18 DEF Exit, writerVars, InHand
    <2>2. Exposed' \subseteq Exposed
      BY <2>1 DEF Exposed, Recorded, Told
    <2>3. Torn' = Torn /\ Stray' = Stray
      BY <2>1 DEF Torn, Stray
    <2> QED
      BY <1>5, <2>1, <2>2, <2>3
  <1>19. CASE Interrupt
    <2>1. /\ UNCHANGED <<csv, jsonl, csvBuf, diskFull, fills, cur>>
          /\ faults' = faults + 1
      BY <1>19 DEF Interrupt, Fault, writerVars
    <2>2. Torn' = Torn /\ Told' = Told /\ Recorded' = Recorded
      BY <2>1 DEF Torn, Told, Recorded
    <2>3. CASE csvBuf.row = NoRow
      <3>1. Exposed' \subseteq Exposed \cup {cur} /\ Stray' = Stray
        BY <2>1, <2>2, <2>3 DEF Exposed, Stray
      <3>2. Exposes(1) /\ Pays(1, Torn, Stray)
        BY <1>1, <1>4, <2>1, <3>1 DEF Exposes, Pays
      <3> QED
        BY <1>3, <1>4, <2>2, <3>1, <3>2
    <2>4. CASE csvBuf.row # NoRow
      <3>1. pc \notin {"jsonl_row", "jsonl_flush"}
        BY <1>0, <2>4 DEF InHand
      <3>2. Exposed' \subseteq Exposed
        BY <2>1, <2>2, <3>1 DEF Exposed
      <3>3. Stray' = Stray \/ (Stray = 0 /\ Stray' = 1) \/ (Stray = 1 /\ Stray' = 0)
        BY <1>1, <2>1 DEF Stray, One
      <3>4. Exposes(0) /\ Pays(0, Torn, Stray) /\ Pays(0, Torn, 0) /\ (Stray = 0 => Pays(0, Torn, 1))
        BY <1>4, <2>1, <3>2 DEF Exposes, Pays
      <3> QED
        BY <1>3, <1>4, <2>2, <3>3, <3>4
    <2> QED
      BY <2>3, <2>4
  <1>20. CASE Kill
    <2>1. /\ UNCHANGED <<csv, jsonl, diskFull, fills>> /\ csvBuf'.row = NoRow
          /\ faults' = faults + 1
      BY <1>20 DEF Kill, Fault, LoseBuffers, EmptyCsvBuf
    <2>2. Exposed' \subseteq Exposed \cup {cur} /\ Torn' = Torn
      BY <2>1 DEF Exposed, Recorded, Told, Torn
    <2>3. Stray' = Stray \/ (Stray = 1 /\ Stray' = 0)
      BY <1>1, <2>1 DEF Stray, One
    <2>4. Exposes(1) /\ Pays(1, Torn, Stray) /\ Pays(1, Torn, 0)
      BY <1>1, <1>4, <2>1, <2>2 DEF Exposes, Pays
    <2> QED
      BY <1>3, <1>4, <2>2, <2>3, <2>4
  <1>21. CASE FreeDisk \/ UNCHANGED vars
    <2>1. /\ UNCHANGED <<csv, jsonl, csvBuf, fills, faults, cur, pc>>
          /\ diskFull' = diskFull \/ ~diskFull'
      BY <1>21 DEF FreeDisk, DiskFreed, vars, writerVars, runVars
    <2>2. Exposed' \subseteq Exposed /\ Torn' = Torn
      BY <2>1 DEF Exposed, Recorded, Told, Torn
    <2>3. Stray' = Stray \/ (Stray # 0 /\ Stray' = 0) \/ (Stray = 2 /\ Stray' = 1)
      BY <1>1, <2>1 DEF Stray, One
    <2>4. Exposes(0) /\ Pays(0, Torn, Stray) /\ Pays(0, Torn, 0) /\ (Stray = 2 => Pays(0, Torn, 1))
      BY <1>4, <2>1, <2>2 DEF Exposes, Pays
    <2> QED
      BY <1>3, <1>4, <2>2, <2>3, <2>4
  <1> QED
    BY <1>6, <1>7, <1>8, <1>9, <1>10, <1>11, <1>12, <1>13, <1>14, <1>15, <1>16, <1>17,
       <1>18, <1>19, <1>20, <1>21
    DEF Next, MainStep, WorkerStep

\* The account of lost audit lines is balanced throughout a campaign.
THEOREM AuditInvariance == Spec => []AuditInv
  BY InvInit, InvStep, AuditInit, AuditStep, PTL DEF Spec

\* An interrupt or a kill costs at most one audit line, a full disk four.
THEOREM AuditLossIsBounded == Spec => []AuditLossBounded
  <1>1. TypeOK /\ AuditInv => AuditLossBounded
    <2> SUFFICES ASSUME TypeOK, AuditInv
                 PROVE  AuditLossBounded
      OBVIOUS
    <2>1. Unaudited \subseteq Exposed /\ Exposed \in SUBSET Hosts /\ Unaudited \in SUBSET Hosts
      BY DEF Unaudited, Exposed, Recorded
    <2>2. Cardinality(Unaudited) <= Cardinality(Exposed)
      BY <2>1, FewHosts, FS_Subset
    <2>3. Cardinality(Unaudited) \in Nat /\ Cardinality(Exposed) \in Nat
      BY <2>1, FewHosts
    <2>4. Torn \in 0..2 /\ Stray \in 0..2 /\ faults \in Nat /\ fills \in Nat
      BY DEF Torn, Stray, One, TypeOK, WriterTypeOK
    <2> HIDE DEF Torn, Stray
    <2> QED
      BY <2>2, <2>3, <2>4 DEF AuditInv, AuditLossBounded
  <1> QED
    BY <1>1, AuditInvariance, TypeCorrect, PTL

-----------------------------------------------------------------------------
(* Repeated lines.                                                         *)

\* How a step may change the account of the lines of h: its line is written or
\* given up, or a row comes first.
Books(h) ==
    \/ /\ jsonl'.lines[h] = jsonl.lines[h] /\ (Due(h)' => Due(h))
       /\ csv'.keyed[h] \in {csv.keyed[h], csv.keyed[h] + 1}
    \/ /\ jsonl'.lines[h] \in {jsonl.lines[h], jsonl.lines[h] + 1}
       /\ Due(h) /\ ~Due(h)'
       /\ csv'.keyed[h] = csv.keyed[h]
    \/ /\ jsonl'.lines[h] = jsonl.lines[h] /\ Due(h)'
       /\ csv'.keyed[h] = csv.keyed[h] + 1

\* Such a step keeps the account in balance.
LEMMA LineLedger ==
    ASSUME TypeOK, NEW h \in Hosts, Books(h), jsonl.lines[h] + One(Due(h)) <= csv.keyed[h]
    PROVE  jsonl'.lines[h] + One(Due(h)') <= csv'.keyed[h]
  <1>1. jsonl.lines[h] \in Nat /\ csv.keyed[h] \in Nat
    <2>1. jsonl.lines \in [Hosts -> Nat] /\ csv.keyed \in [Hosts -> Nat]
      BY DEF TypeOK, WriterTypeOK
    <2> QED
      BY <2>1
  <1>2. SUFFICES ASSUME NEW l, NEW d, NEW k, l = jsonl'.lines[h], d = One(Due(h)'),
                        k = csv'.keyed[h]
                 PROVE  l + d <= k
    BY ONLY <1>2, Zenon
  <1>3. PICK e \in {0, 1} : e = One(Due(h))
    BY DEF One
  <1>4. /\ d \in {0, 1}
        /\ \/ l = jsonl.lines[h] /\ d \in {0, e} /\ k \in {csv.keyed[h], csv.keyed[h] + 1}
           \/ /\ l \in {jsonl.lines[h], jsonl.lines[h] + 1}
              /\ e = 1 /\ d = 0 /\ k = csv.keyed[h]
           \/ l = jsonl.lines[h] /\ k = csv.keyed[h] + 1
    <2>1. d = (IF Due(h)' THEN 1 ELSE 0) /\ e = IF Due(h) THEN 1 ELSE 0
      BY ONLY <1>2, <1>3, Zenon DEF One
    <2>2. d \in {0, 1} /\ (d = 1 <=> Due(h)') /\ (e = 1 <=> Due(h)) /\ (e = 0 <=> ~Due(h))
          /\ (d = 0 <=> ~Due(h)')
      BY ONLY <2>1
    <2> QED
      BY ONLY <1>2, <2>2, Books(h), Zenon DEF Books
  <1>5. jsonl.lines[h] + e <= csv.keyed[h]
    BY ONLY <1>3, jsonl.lines[h] + One(Due(h)) <= csv.keyed[h], Zenon
  <1> QED
    BY ONLY <1>1, <1>4, <1>5, e \in {0, 1}

\* There are no lines at the start.
LEMMA LinesInit == Init => LinesInv
  <1> SUFFICES ASSUME Init
               PROVE  LinesInv
    OBVIOUS
  <1>1. /\ \A h \in Hosts : jsonl.lines[h] = 0 /\ csv.keyed[h] = 0
        /\ jsonlBuf.row = NoRow /\ pc = "down"
    BY EmptyTypes DEF Init, WriterInit
  <1>2. \A h \in Hosts : One(Due(h)) = 0
    BY <1>1 DEF Due, One
  <1> QED
    BY <1>1, <1>2, InHandInit DEF LinesInv

\* As long as every invocation resumes and the disk has not been full, each
\* step keeps the account of the lines of every host in balance.
LEMMA LinesStep ==
    ASSUME \A i \in Invocations : i.resume, CampaignInv, LinesInv, [Next]_vars
    PROVE  LinesInv'
  <1>0. TypeOK /\ TypeOK' /\ InHand /\ InHand' /\ WriterTypeOK
    BY TypeStep, InHandStep DEF CampaignInv, LinesInv, TypeOK
  <1>1. /\ csv.keyed \in [Hosts -> Nat] /\ jsonl.lines \in [Hosts -> Nat]
        /\ cur \in Hosts \cup {NoRow} /\ csvBuf.row \in Hosts \cup {NoRow}
        /\ jsonlBuf.row \in Hosts \cup {NoRow} /\ fills \in Nat /\ diskFull \in BOOLEAN
    BY <1>0 DEF TypeOK, WriterTypeOK
  <1> USE DEF Goto
  <1>2. pc' # "down" => resume'
    <2>1. ASSUME NEW i \in Invocations, Launch(i)
          PROVE  resume'
      BY <2>1 DEF Launch
    <2>2. \/ UNCHANGED resume /\ (pc' = "down" \/ pc # "down")
          \/ \E i \in Invocations : Launch(i)
      <3>1. CASE WorkerStep \/ FreeDisk \/ UNCHANGED vars
        BY <3>1 DEF WorkerStep, WorkerStarts, WorkerFinishes, FreeDisk, vars, runVars
      <3>2. CASE Interrupt \/ Kill
        BY <3>2 DEF Interrupt, Kill, Fault, Pooling, Writing
      <3>3. CASE MainStep
        <4>1. CASE \E g \in Hosts : SubmitNext(g) \/ TakeResult(g)
          BY <4>1 DEF SubmitNext, TakeResult, runVars
        <4>2. CASE ~ \E g \in Hosts : SubmitNext(g) \/ TakeResult(g)
          BY <3>3, <4>2 DEF MainStep, OpenCsvFile, OpenJsonlFile, PoolRefused, SubmitDone,
             WriteRow, FlushCsv, WriteLine, FlushJsonl, WriteFails, PoolExit, CloseCsv,
             CloseJsonl, CloseFails, Exit
        <4> QED
          BY <4>1, <4>2
      <3> QED
        BY <3>1, <3>2, <3>3 DEF Next
    <2> QED
      BY <2>1, <2>2 DEF LinesInv
  <1>3. SUFFICES ASSUME NEW h \in Hosts, fills' = 0
                 PROVE  fills = 0 /\ Books(h)
    <2>1. ASSUME fills' = 0, NEW h \in Hosts
          PROVE  jsonl'.lines[h] + One(Due(h)') <= csv'.keyed[h]
      <3>1. fills = 0 /\ Books(h)
        BY <1>3, <2>1
      <3>2. jsonl.lines[h] + One(Due(h)) <= csv.keyed[h]
        BY <3>1 DEF LinesInv
      <3> QED
        BY <1>0, <3>1, <3>2, LineLedger
    <2> QED
      BY <1>0, <1>2, <2>1 DEF LinesInv
  <1>4. ASSUME UNCHANGED <<csv, jsonl, fills>>,
               jsonlBuf'.row = h => jsonlBuf.row = h,
               pc' = "jsonl_row" => pc = "jsonl_row" /\ cur' = cur
        PROVE  fills = 0 /\ Books(h)
    <2>1. Due(h)' => Due(h)
      BY <1>4 DEF Due
    <2> QED
      BY <1>3, <1>4, <2>1 DEF Books
  <1>5. ASSUME NEW i \in Invocations, Launch(i)
        PROVE  fills = 0 /\ Books(h)
    BY <1>4, <1>5 DEF Launch, writerVars
  <1>6. CASE OpenCsvFile \/ OpenJsonlFile
    <2>1. resume
      BY <1>6 DEF LinesInv, OpenCsvFile, OpenJsonlFile
    <2> QED
      BY <1>4, <1>6, <2>1 DEF OpenCsvFile, OpenJsonlFile, OpenCsv, OpenJsonl
  <1>7. ASSUME NEW g \in Hosts, \/ SubmitNext(g) \/ TakeResult(g)
                                \/ WorkerStarts(g) \/ WorkerFinishes(g)
        PROVE  fills = 0 /\ Books(h)
    BY <1>4, <1>7 DEF SubmitNext, TakeResult, WorkerStarts, WorkerFinishes, writerVars, runVars
  <1>8. CASE SubmitDone \/ PoolExit \/ PoolRefused \/ Exit
    BY <1>4, <1>8 DEF SubmitDone, PoolExit, PoolRefused, Exit, writerVars
  <1>9. CASE WriteRow
    BY <1>4, <1>9 DEF WriteRow, BufferRow
  <1>10. CASE WriteLine
    <2>1. /\ UNCHANGED <<csv, jsonl, fills>> /\ jsonlBuf'.row = cur
          /\ pc = "jsonl_row" /\ pc' = "jsonl_flush" /\ jsonlBuf.row = NoRow
      BY <1>0, <1>10 DEF WriteLine, BufferLine, InHand, WriterTypeOK
    <2>2. Due(h)' => Due(h)
      BY <2>1 DEF Due
    <2> QED
      BY <1>3, <2>1, <2>2 DEF Books
  \* While the disk has not been full no line is unfinished.
  <1>11. fills = 0 => csv.tail = "none" /\ csv.last = NoRow /\ ~jsonl.torn /\ jsonl.last = NoRow
    BY <1>0 DEF CampaignInv, WriterTypeOK, LastCounted
  <1>12. CASE FlushCsv
    <2>1. /\ csvBuf.row = cur /\ cur \in Hosts /\ csvBuf.row # NoRow /\ ~csvBuf.rest
          /\ jsonlBuf.row = NoRow
          /\ FlushRow /\ pc = "csv_flush" /\ pc' = "jsonl_row" /\ cur' = cur
      BY <1>0, <1>12 DEF FlushCsv, InHand, CampaignInv, RecordInHand
    <2>2. fills = 0 /\ jsonl' = jsonl /\ jsonlBuf' = jsonlBuf
      BY <1>0, <1>3, <2>1, RowFlushed
    <2>3. csv'.keyed = Recount(csv.keyed, cur, NoRow)
      BY <1>0, <1>11, <2>1, <2>2, RowFlushed
    <2>4. csv'.keyed[h] = IF h = cur THEN csv.keyed[h] + 1 ELSE csv.keyed[h]
      BY <1>1, <2>1, <2>3, RecountOne
    <2>5. Due(h)' <=> h = cur
      BY <2>1, <2>2 DEF Due
    <2> QED
      BY <2>2, <2>4, <2>5 DEF Books
  <1>13. CASE FlushJsonl \/ (CloseJsonl /\ FlushLine)
    <2>1. /\ FlushLine /\ pc \in {"jsonl_flush", "close_jsonl"} /\ pc' \in {"wait", "exit"}
      BY <1>13 DEF FlushJsonl, CloseJsonl
    <2>2. /\ fills = 0 /\ csv' = csv /\ jsonlBuf'.row = NoRow
          /\ jsonlBuf.row = NoRow => jsonl' = jsonl
          /\ jsonlBuf.row # NoRow => jsonl'.lines = Recount(jsonl.lines, jsonlBuf.row, NoRow)
      BY <1>0, <1>3, <1>11, <2>1, LineFlushed, EmptyTypes
    <2>3. jsonlBuf.row = h => Due(h)
      BY DEF Due
    <2>4. ~Due(h)'
      BY <2>1, <2>2 DEF Due
    <2>5. jsonl'.lines[h] = IF h = jsonlBuf.row THEN jsonl.lines[h] + 1 ELSE jsonl.lines[h]
      <3>1. CASE jsonlBuf.row = NoRow
        BY <2>2, <3>1
      <3>2. CASE jsonlBuf.row # NoRow
        <4>1. jsonl'.lines = Recount(jsonl.lines, jsonlBuf.row, NoRow)
          BY <2>2, <3>2
        <4>2. Recount(jsonl.lines, jsonlBuf.row, NoRow)[h] =
                 IF h = jsonlBuf.row THEN jsonl.lines[h] + 1 ELSE jsonl.lines[h]
          BY ONLY <1>1, RecountOne, h \in Hosts
        <4> QED
          BY <4>1, <4>2
      <3> QED
        BY <3>1, <3>2
    <2> QED
      BY <2>2, <2>3, <2>4, <2>5 DEF Books
  <1>14. CASE CloseJsonl /\ LoseJsonlBuf
    BY <1>4, <1>14 DEF CloseJsonl, LoseJsonlBuf, EmptyJsonlBuf
  <1>15. CASE WriteFails \/ CloseFails
    <2>1. FlushRowFails \/ FlushLineFails
      BY <1>15 DEF WriteFails, CloseFails
    <2>2. fills' # 0
      BY <1>0, <1>1, <2>1 DEF FlushRowFails, FlushLineFails, DiskRefuses, CampaignInv
    <2> QED
      BY <1>3, <2>2
  <1>16. CASE CloseCsv
    <2>1. /\ UNCHANGED <<jsonl, jsonlBuf, fills>> /\ cur' = cur
          /\ pc = "close_csv" /\ pc' = "close_jsonl"
          /\ FlushRow \/ LoseCsvBuf
      BY <1>16 DEF CloseCsv, FlushRow, LoseCsvBuf
    <2>2. csv'.keyed[h] \in {csv.keyed[h], csv.keyed[h] + 1}
      <3>1. CASE FlushRow /\ csvBuf.row # NoRow
        <4>1. PICK read \in Hosts \cup {NoRow} : csv'.keyed = Recount(csv.keyed, read, NoRow)
          BY <1>0, <1>3, <1>11, <2>1, <3>1, RowFlushed
        <4>2. Recount(csv.keyed, read, NoRow)[h] \in {csv.keyed[h], csv.keyed[h] + 1}
          BY ONLY <1>1, <4>1, RecountOne, h \in Hosts
        <4> QED
          BY <4>1, <4>2
      <3>2. CASE FlushRow /\ csvBuf.row = NoRow
        BY <1>0, <3>2, HeaderFlushed
      <3>3. CASE LoseCsvBuf
        BY <3>3 DEF LoseCsvBuf
      <3> QED
        BY <2>1, <3>1, <3>2, <3>3
    <2>3. Due(h)' => Due(h)
      BY <2>1 DEF Due
    <2> QED
      BY <1>3, <2>1, <2>2, <2>3 DEF Books
  <1>17. CASE Interrupt
    BY <1>4, <1>17 DEF Interrupt, Fault, Pooling, Writing, writerVars
  <1>18. CASE Kill
    BY <1>4, <1>18 DEF Kill, LoseBuffers, EmptyJsonlBuf
  <1>19. CASE FreeDisk \/ UNCHANGED vars
    BY <1>4, <1>19 DEF FreeDisk, DiskFreed, vars, writerVars, runVars
  <1>20. CloseJsonl => FlushLine \/ LoseJsonlBuf
    BY DEF CloseJsonl
  <1> QED
    BY <1>5, <1>6, <1>7, <1>8, <1>9, <1>10, <1>12, <1>13, <1>14, <1>15, <1>16,
       <1>17, <1>18, <1>19, <1>20
    DEF Next, MainStep, WorkerStep

\* Campaigns that are only ever resumed keep the account of the lines balanced
\* until the disk is full,
THEOREM LinesInvariance ==
    ASSUME \A i \in Invocations : i.resume
    PROVE  Spec => []LinesInv
  <1>1. CampaignInv /\ LinesInv /\ [Next]_vars => LinesInv'
    BY LinesStep
  <1> QED
    BY <1>1, InvInit, InvStep, LinesInit, PTL DEF Spec

\* so their audit file has one line per host, whatever is interrupted or killed.
THEOREM AuditLinesAreUnique ==
    ASSUME \A i \in Invocations : i.resume
    PROVE  Spec => []AuditLinesUnique
  <1>1. CampaignInv /\ LinesInv => AuditLinesUnique
    <2> SUFFICES ASSUME CampaignInv, LinesInv, fills = 0, NEW h \in Hosts
                 PROVE  jsonl.lines[h] <= 1
      BY DEF AuditLinesUnique
    <2>1. jsonl.lines \in [Hosts -> Nat] /\ csv.keyed \in [Hosts -> Nat]
      BY DEF CampaignInv, TypeOK, WriterTypeOK
    <2>2. csv.keyed[h] <= 1 + 0
      BY BalanceLeft
    <2>3. jsonl.lines[h] + One(Due(h)) <= csv.keyed[h] /\ One(Due(h)) \in {0, 1}
      BY DEF LinesInv, One
    <2>4. jsonl.lines[h] \in Nat /\ csv.keyed[h] \in Nat
      BY <2>1
    <2> QED
      BY ONLY <2>2, <2>3, <2>4
  <1>2. Spec => []LinesInv
    BY LinesInvariance
  <1> QED
    BY <1>1, <1>2, Invariance, PTL

=============================================================================
