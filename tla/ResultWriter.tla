---------------------------- MODULE ResultWriter ----------------------------
(***************************************************************************)
(* storage/writer.py: the append-only CSV and JSONL files of a run, their  *)
(* buffers, and completed_hostnames, which --resume uses to decide what is *)
(* done.  The files outlive processes; the buffers do not.                 *)
(*                                                                         *)
(* A file is described by what a reader gets out of it:                    *)
(*   csv.headers   - header lines                                          *)
(*   csv.keyed[h]  - records whose hostname column reads h                 *)
(*   csv.intact[h] - records that are the complete row of h                *)
(*   csv.tail      - the reader's state at the end of the file: "none"     *)
(*                   between two records, inside an open quote ("quoted"), *)
(*                   or where the unfinished last line stops: in or right  *)
(*                   behind its domain column, in or at the end of its     *)
(*                   hostname column, further on ("record"), inside its    *)
(*                   line end ("end")                                      *)
(*   csv.last      - the host whose name the unfinished hostname reads     *)
(*   jsonl.lines[h] - parseable lines about h                              *)
(*   jsonl.torn     - the last line is unfinished                          *)
(*   jsonl.last     - the host of a last line that only lacks its end      *)
(* An unfinished line only arises when the disk is full: a flush then      *)
(* persists a prefix and raises OSError, and the rest stays in the buffer. *)
(* The reader is not told.  It glues the next row to the unfinished line,  *)
(* where part of a name may look like any other name, and takes the rows   *)
(* behind an open quote for the quoted text, up to the next quote.         *)
(***************************************************************************)
EXTENDS Population

CONSTANT
    MaxFills     \* bound: how often the disk may become full

ASSUME WriterAssumption == MaxFills \in Nat

NoRow == 0
Cuts == {"domain", "hostname", "record", "quoted", "end"}

VARIABLES
    csv, jsonl,          \* what is on disk
    csvBuf, jsonlBuf,    \* what the open file objects still hold
    diskFull,            \* writes currently fail with ENOSPC
    fills                \* how often the disk became full (bounded)

writerVars == <<csv, jsonl, csvBuf, jsonlBuf, diskFull, fills>>

Zero == [h \in Hosts |-> 0]

EmptyCsv ==
    [headers |-> 0, keyed |-> Zero, intact |-> Zero, tail |-> "none", last |-> NoRow]

EmptyJsonl == [lines |-> Zero, torn |-> FALSE, last |-> NoRow]

\* `row' is the buffered row, `rest' says only its remainder is still there.
EmptyCsvBuf == [header |-> FALSE, row |-> NoRow, rest |-> FALSE]

EmptyJsonlBuf == [row |-> NoRow, rest |-> FALSE]

WriterInit ==
    /\ csv = EmptyCsv
    /\ jsonl = EmptyJsonl
    /\ csvBuf = EmptyCsvBuf
    /\ jsonlBuf = EmptyJsonlBuf
    /\ diskFull = FALSE
    /\ fills = 0

\* What an unfinished line reads has been counted.
LastCounted ==
    /\ csv.last # NoRow => csv.tail = "hostname" /\ csv.keyed[csv.last] > 0
    /\ jsonl.last # NoRow => jsonl.torn /\ jsonl.lines[jsonl.last] > 0

WriterTypeOK ==
    /\ csv \in [headers : Nat, keyed : [Hosts -> Nat], intact : [Hosts -> Nat],
                tail : Cuts \cup {"none"}, last : Hosts \cup {NoRow}]
    /\ jsonl \in [lines : [Hosts -> Nat], torn : BOOLEAN, last : Hosts \cup {NoRow}]
    /\ csvBuf \in [header : BOOLEAN, row : Hosts \cup {NoRow}, rest : BOOLEAN]
    /\ jsonlBuf \in [row : Hosts \cup {NoRow}, rest : BOOLEAN]
    /\ diskFull \in BOOLEAN
    /\ fills \in 0..MaxFills
    /\ LastCounted

-----------------------------------------------------------------------------
(* Contents.                                                               *)

\* The --resume filter finds nothing.
CompletedHostnames_Empty == {}

\* Everything up to the last host that has a row counts as done.
CompletedHostnames_Prefix ==
    {h \in Hosts : \E g \in Hosts : g >= h /\ csv.keyed[g] > 0}

\* completed_hostnames: the hostname column of a DictReader, whose column
\* names are the first line of the file.
CompletedHostnames ==
    IF csv.headers = 0 THEN {} ELSE {h \in Hosts : csv.keyed[h] > 0}

One(yes) == IF yes THEN 1 ELSE 0

\* One more about host h, if it is one, and one less about host g.
Recount(f, h, g) == [k \in Hosts |-> f[k] + One(k = h) - One(k = g)]

\* The hosts that may be read in the hostname column once the buffered row is
\* in the file.  The rest of a row completes its own hostname; a whole row has
\* its own on a line of its own, any or none when the glued line has another
\* column there, and none behind the hostname of the unfinished line.
Readings ==
    {read \in Hosts \cup {NoRow} :
        IF csv.tail \in {"domain", "hostname"}
        THEN csvBuf.rest => read = csvBuf.row
        ELSE read = IF csvBuf.rest \/ csv.tail \in {"record", "quoted"}
                    THEN NoRow ELSE csvBuf.row}

Headers == csv.headers + One(csvBuf.header)

\* The CSV once everything in the buffer has reached the disk.  A row without a
\* quote of its own does not end an open one.
CsvAfterFlush(read, quotes) ==
    LET h == csvBuf.row
        own == IF csvBuf.rest THEN csv.tail # "end" ELSE csv.tail \in {"none", "end"}
    IN  IF h = NoRow THEN [csv EXCEPT !.headers = Headers]
        ELSE [headers |-> Headers,
              keyed   |-> Recount(csv.keyed, read, csv.last),
              intact  |-> Recount(csv.intact, IF own THEN h ELSE NoRow, NoRow),
              tail    |-> IF csv.tail = "quoted" /\ ~csvBuf.rest /\ ~quotes
                          THEN "quoted" ELSE "none",
              last    |-> NoRow]

\* The CSV when only a prefix of the buffered row reached it; `name' is what an
\* unfinished hostname happens to read.  (Bound: a header that is still buffered
\* in front of the row lies whole in that prefix.)
CsvAfterCut(cut, name) ==
    LET h == csvBuf.row
        read == CASE cut = "domain" -> NoRow
                  [] cut = "hostname" -> name
                  [] cut \in {"record", "quoted", "end"} -> h
    IN  [headers |-> Headers,
         keyed   |-> Recount(csv.keyed, read, NoRow),
         intact  |-> Recount(csv.intact, IF cut = "end" THEN h ELSE NoRow, NoRow),
         tail    |-> cut,
         last    |-> IF cut = "hostname" THEN name ELSE NoRow]

\* A line glued to an unfinished one makes neither parseable, also when the
\* unfinished one was; the rest of a line completes it.
JsonlAfterFlush ==
    LET h == jsonlBuf.row
        rest == jsonlBuf.rest
    IN  IF h = NoRow THEN jsonl
        ELSE [lines |-> Recount(jsonl.lines,
                           IF rest \/ ~jsonl.torn THEN h ELSE NoRow, jsonl.last),
              torn  |-> FALSE,
              last  |-> NoRow]

-----------------------------------------------------------------------------
(* Operations.                                                             *)

\* Mode "a" whatever --resume says.
OpenCsv_Appends(resume) ==
    /\ csvBuf' = [EmptyCsvBuf EXCEPT !.header = (csv = EmptyCsv)]
    /\ UNCHANGED <<csv, jsonl, jsonlBuf, diskFull, fills>>

\* The header is written into every opened file.
OpenCsv_AlwaysHeader(resume) ==
    /\ csv' = IF resume THEN csv ELSE EmptyCsv
    /\ csvBuf' = [EmptyCsvBuf EXCEPT !.header = TRUE]
    /\ UNCHANGED <<jsonl, jsonlBuf, diskFull, fills>>

\* Mode "w" whatever --resume says.
OpenCsv_Truncates(resume) ==
    /\ csv' = EmptyCsv
    /\ csvBuf' = [EmptyCsvBuf EXCEPT !.header = TRUE]
    /\ UNCHANGED <<jsonl, jsonlBuf, diskFull, fills>>

\* __init__, first half: mode "a" or "w"; the header goes into the buffer of
\* a file that is truncated, missing or of size 0.
OpenCsv(resume) ==
    LET kept == IF resume THEN csv ELSE EmptyCsv
    IN  /\ csv' = kept
        /\ csvBuf' = [EmptyCsvBuf EXCEPT !.header = (kept = EmptyCsv)]
        /\ UNCHANGED <<jsonl, jsonlBuf, diskFull, fills>>

\* Mode "w" whatever --resume says.
OpenJsonl_Truncates(resume) ==
    /\ jsonl' = EmptyJsonl
    /\ UNCHANGED <<csv, csvBuf, jsonlBuf, diskFull, fills>>

\* __init__, second half.
OpenJsonl(resume) ==
    /\ jsonl' = IF resume THEN jsonl ELSE EmptyJsonl
    /\ UNCHANGED <<csv, csvBuf, jsonlBuf, diskFull, fills>>

\* write(): writerow fills the buffer ...
BufferRow(h) ==
    /\ csvBuf' = [csvBuf EXCEPT !.row = h]
    /\ UNCHANGED <<csv, jsonl, jsonlBuf, diskFull, fills>>

\* The flushed row stays in the buffer.
FlushRow_Keeps ==
    /\ diskFull => csvBuf = EmptyCsvBuf
    /\ \E read \in Readings, quotes \in BOOLEAN : csv' = CsvAfterFlush(read, quotes)
    /\ csvBuf' = [csvBuf EXCEPT !.header = FALSE]
    /\ UNCHANGED <<jsonl, jsonlBuf, diskFull, fills>>

\* ... and flush empties it,
FlushRow ==
    /\ diskFull => csvBuf = EmptyCsvBuf
    /\ \E read \in Readings, quotes \in BOOLEAN : csv' = CsvAfterFlush(read, quotes)
    /\ csvBuf' = EmptyCsvBuf
    /\ UNCHANGED <<jsonl, jsonlBuf, diskFull, fills>>

\* then the JSONL line goes the same way.
BufferLine(h) ==
    /\ jsonlBuf' = [jsonlBuf EXCEPT !.row = h]
    /\ UNCHANGED <<csv, jsonl, csvBuf, diskFull, fills>>

FlushLine ==
    /\ diskFull => jsonlBuf = EmptyJsonlBuf
    /\ jsonl' = JsonlAfterFlush
    /\ jsonlBuf' = EmptyJsonlBuf
    /\ UNCHANGED <<csv, csvBuf, diskFull, fills>>

\* A write meets a full disk, one that was full already or just became so.
DiskRefuses ==
    /\ diskFull \/ fills < MaxFills
    /\ diskFull' = TRUE
    /\ fills' = IF diskFull THEN fills ELSE fills + 1

\* The flush of a row raises OSError: nothing or a proper prefix of it got
\* through, behind an open quote up to a quote of its own.  (Bound: onto a line
\* that is itself unfinished nothing does.)
FlushRowFails ==
    /\ DiskRefuses
    /\ \/ UNCHANGED <<csv, csvBuf>>
       \/ /\ csv.tail = "none" /\ csvBuf.row # NoRow /\ ~csvBuf.rest
          /\ \E cut \in Cuts, name \in Hosts \cup {NoRow} : csv' = CsvAfterCut(cut, name)
          /\ csvBuf' = [csvBuf EXCEPT !.header = FALSE, !.rest = TRUE]
       \/ /\ csv.tail = "quoted" /\ csvBuf.row # NoRow /\ ~csvBuf.rest
          /\ csv' = [csv EXCEPT !.tail = "record"]
          /\ UNCHANGED csvBuf
    /\ UNCHANGED <<jsonl, jsonlBuf>>

\* A line that got through up to its line end can be parsed already.
FlushLineFails ==
    /\ DiskRefuses
    /\ \/ UNCHANGED <<jsonl, jsonlBuf>>
       \/ /\ ~jsonl.torn /\ jsonlBuf.row # NoRow /\ ~jsonlBuf.rest
          /\ \E name \in {jsonlBuf.row, NoRow} :
                jsonl' = [lines |-> Recount(jsonl.lines, name, NoRow),
                          torn |-> TRUE, last |-> name]
          /\ jsonlBuf' = [jsonlBuf EXCEPT !.rest = TRUE]
    /\ UNCHANGED <<csv, csvBuf>>

\* close() while the disk is still full: the buffer is gone with the file.
LoseCsvBuf ==
    /\ diskFull /\ csvBuf # EmptyCsvBuf
    /\ csvBuf' = EmptyCsvBuf
    /\ UNCHANGED <<csv, jsonl, jsonlBuf, diskFull, fills>>

LoseJsonlBuf ==
    /\ diskFull /\ jsonlBuf # EmptyJsonlBuf
    /\ jsonlBuf' = EmptyJsonlBuf
    /\ UNCHANGED <<csv, jsonl, csvBuf, diskFull, fills>>

DiskFreed ==
    /\ diskFull
    /\ diskFull' = FALSE
    /\ UNCHANGED <<csv, jsonl, csvBuf, jsonlBuf, fills>>

\* The process is killed: only what reached the files remains.
LoseBuffers ==
    /\ csvBuf' = EmptyCsvBuf
    /\ jsonlBuf' = EmptyJsonlBuf
    /\ UNCHANGED <<csv, jsonl, diskFull, fills>>

=============================================================================
