------------------------- MODULE CampaignProperties -------------------------
(***************************************************************************)
(* What a campaign guarantees, and what it is said to guarantee but does   *)
(* not.                                                                    *)
(***************************************************************************)
EXTENDS Campaign, Functions

\* Whatever mixture of fresh and resumed invocations, interrupts and kills, at
\* most one line of results.csv has the hostname of h (cli._cmd_run with
\* completed_hostnames; the row is flushed before the main thread takes the next
\* result).  Each full disk may add one: the line it left unfinished, or the row
\* glued to it, may be read as a host it is not about.
NoDuplicateRows == \A h \in Hosts : csv.keyed[h] <= 1 + fills

\* results.csv has at most one header, and never a row without one: a header
\* lost with the buffer leaves a file of size 0, so the next invocation writes
\* it again (ResultWriter.__init__, fresh_csv).
HeaderOnce ==
    /\ csv.headers <= 1
    /\ (\E h \in Hosts : csv.keyed[h] > 0) \/ csv.tail # "none" => csv.headers = 1

\* A host whose scan is pending or not yet recorded has no row, other than the
\* lines that full disks made look like one: --resume never spends a scan on a
\* host that is already in the table.
NoRescan ==
    \A h \in HostsIn("queued") \cup HostsIn("running") \cup HostsIn("finished") :
        csv.keyed[h] <= fills

-----------------------------------------------------------------------------
(* Why: the strengthening that is inductive.                               *)

FileOpen == pc \notin {"down", "open_csv"}

\* Without a header there is nothing in the file, and while the header is
\* still in the buffer there is not either.
HeaderFirst ==
    /\ csv.headers = 0 \/ csvBuf.header => csv = EmptyCsv
    /\ pc \in {"open_jsonl", "close_csv"} \cup Pooling
        => csvBuf.header \/ csv.headers = 1

\* Only hosts of the target list have futures, and only between the opening of
\* the files and the end of the process.
PoolScope ==
    \A h \in Hosts : fut[h] # "idle" => h \in targets /\ pc \in Pooling \cup Closing

\* The row of h itself is still to come: h is a target without a result, or its
\* row is in hand, or in the buffer and not readable yet.
RowAhead(h) ==
    \/ pc = "open_csv" /\ resume /\ h \in targets
    \/ FileOpen /\ h \in targets /\ fut[h] # "yielded"
    \/ pc \in {"csv_row", "csv_flush"} /\ h = cur
    \/ /\ FileOpen /\ csvBuf.row = h
       /\ csvBuf.rest => csv.tail \in {"domain", "hostname"} /\ csv.last # h

\* A line about another host may still be read as h.
Misreadable(h) == (diskFull \/ csv.tail # "none") /\ csv.last # h

\* The rows of h, the one that is still to come, and one for each full disk.
RowsBounded ==
    \A h \in Hosts : csv.keyed[h] + One(RowAhead(h)) + One(Misreadable(h)) <= 1 + fills

\* The record in hand is that of a target whose result was taken.
RecordInHand ==
    /\ pc \in {"csv_row", "csv_flush"} => cur \in Hosts /\ fut[cur] = "yielded"
    /\ FileOpen /\ csvBuf.row # NoRow => fut[csvBuf.row] = "yielded"

\* The inductive invariant behind the three properties above: what the files
\* and their buffers hold, for each point the main thread can be at.
CampaignInv ==
    /\ TypeOK
    /\ csv.headers <= 1
    /\ HeaderFirst
    /\ PoolScope
    /\ RecordInHand
    /\ RowsBounded
    /\ fills = 0 => ~diskFull /\ ~jsonl.torn /\ csv.tail = "none"

-----------------------------------------------------------------------------

\* The hosts that the one and the other file tell of.
Recorded == {h \in Hosts : csv.keyed[h] > 0}
Told == {h \in Hosts : jsonl.lines[h] > 0}

Missing == Asked(limit) \ Recorded
Lost == Missing \ Told

\* An invocation that ends normally leaves a row for every host it was asked
\* for, its own and those of the invocations it resumed.  After a full disk any
\* number of rows can be unreadable; but they have their audit lines, with two
\* exceptions, a host whose name the unfinished row ended with and one whose
\* line was glued to an unfinished one.
RunComplete ==
    outcome = "ok" =>
        IF fills = 0 THEN Missing = {} ELSE \E g, h \in Hosts \cup {NoRow} : Lost \subseteq {g, h}

\* Hosts with a row but no audit line, the one being written apart.
Unaudited == Recorded \ (Told \cup {cur})

\* The two files are not written atomically, and --resume only looks at the
\* CSV, so audit lines get lost for good; but an interrupt or a kill costs at
\* most one line, and a full disk at most four.
AuditLossBounded == Cardinality(Unaudited) <= faults + 4 * fills

\* When every invocation resumes, the audit file tells one story per host,
\* however many interrupts and kills there are.  (A full disk can make rows
\* unreadable, and their hosts are scanned and told of again.)
AuditLinesUnique == fills = 0 => \A h \in Hosts : jsonl.lines[h] <= 1

-----------------------------------------------------------------------------
(* Why: the strengthenings that are inductive.                             *)

\* The main thread is on its way out.
Unwinding == {"drain"} \cup Closing

\* Which buffers hold a row or a line, at each point of the main thread; only a
\* full disk leaves traces.
InHand ==
    /\ pc \in {"down", "open_csv", "open_jsonl", "submit", "wait"} => cur = NoRow
    /\ csvBuf.row # NoRow =>
        csvBuf.row = cur /\ pc \in {"csv_flush", "drain", "close_csv"}
    /\ csvBuf.rest => csvBuf.row # NoRow /\ pc # "csv_flush"
    /\ jsonlBuf.row # NoRow =>
        jsonlBuf.row = cur /\ pc \in {"jsonl_flush", "drain", "close_csv", "close_jsonl"}
    /\ jsonlBuf.rest => jsonlBuf.row # NoRow /\ pc # "jsonl_flush"
    /\ pc = "csv_flush" => csvBuf.row = cur
    /\ pc = "jsonl_flush" => jsonlBuf.row = cur
    /\ pc \in {"jsonl_row", "jsonl_flush"} => cur # NoRow /\ ~diskFull
    /\ pc = "open_jsonl" /\ ~resume => csv = EmptyCsv

\* Hosts without an audit line that will hardly get one any more.
Exposed ==
    {h \in Recorded \ Told : ~(h = cur /\ pc \in {"jsonl_row", "jsonl_flush"})}

\* The rows that may still reach the CSV without a line: the one in the buffer,
\* one of which a full disk lets a part through, and one that is misread.
Stray ==
    LET buffered == One(csvBuf.row # NoRow /\ ~csvBuf.rest /\ pc \in Unwinding)
    IN  CASE csv.tail = "none" -> IF diskFull THEN 2 ELSE buffered
          [] csv.tail = "end" -> IF diskFull THEN 1 ELSE buffered
          [] csv.tail \in {"domain", "hostname"} -> 1
          [] csv.tail \in {"record", "quoted"} -> 0

\* The lines that go with an unfinished one when the next is glued to it.
Torn == One(jsonl.torn) + One(jsonl.last # NoRow)

\* The inductive invariant behind AuditLossBounded: what is lost and what may
\* still be lost together stay within what the faults so far account for.
AuditInv == InHand /\ Cardinality(Exposed) + Torn + Stray <= faults + 4 * fills

\* The line of h is still to be written.
Due(h) == jsonlBuf.row = h \/ (pc = "jsonl_row" /\ cur = h)

\* The inductive invariant behind AuditLinesUnique: a host gets a line only for
\* a row.
LinesInv ==
    /\ InHand
    /\ pc # "down" => resume
    /\ fills = 0 => \A h \in Hosts : jsonl.lines[h] + One(Due(h)) <= csv.keyed[h]

-----------------------------------------------------------------------------
(* Why an invocation ends.                                                 *)

\* What a future still costs: its own steps, and five of the main thread.
FutureSteps(h) ==
    CASE fut[h] = "idle" -> IF h \in targets THEN 8 ELSE 0
      [] fut[h] = "queued" -> 7
      [] fut[h] = "running" -> 6
      [] fut[h] = "finished" -> 5
      [] fut[h] = "yielded" -> 0

\* How far the main thread is from the end when no more results arrive.
MainSteps ==
    CASE pc = "open_csv" -> 8
      [] pc = "open_jsonl" -> 7
      [] pc = "submit" -> 6
      [] pc = "csv_row" -> 9
      [] pc = "csv_flush" -> 8
      [] pc = "jsonl_row" -> 7
      [] pc = "jsonl_flush" -> 6
      [] pc = "wait" -> 5
      [] pc = "drain" -> 4
      [] pc = "close_csv" -> 3
      [] pc = "close_jsonl" -> 2
      [] pc = "exit" -> 1
      [] pc = "down" -> 0

PoolSteps == SumFunction([h \in Hosts |-> FutureSteps(h)])

StepsLeft == PoolSteps + MainSteps + (MaxFills - fills)

\* Every step of the program uses up some of what is left of an invocation, an
\* interrupt and a kill too: nothing is scanned, written or waited for again.
\* Only the operator adds to it, by another invocation; room on the disk alone
\* changes nothing.
StepsRunOut ==
    [][(\E i \in Invocations : Launch(i)) \/ FreeDisk \/ StepsLeft' < StepsLeft]_vars

\* The main thread waits for the pool.
Waiting ==
    \/ pc = "wait" /\ ~AllYielded(targets) /\ HostsIn("finished") = {}
    \/ pc \in {"drain", "exit"} /\ ~Drained

\* When it does a worker thread has a scan under way, or one to start on: a pool
\* without threads is never waited for, nor a host that was not submitted.
NeverStuck ==
    Waiting => HostsIn("running") # {} \/ (HostsIn("queued") # {} /\ workers > 0)

\* The inductive invariant behind it: only a pool with threads has futures, and
\* results are awaited once every target has one.
PoolAlive ==
    /\ (\E h \in Hosts : fut[h] # "idle") => workers > 0
    /\ pc \in {"wait"} \cup Writing => AllSubmitted(targets)

-----------------------------------------------------------------------------

\* The table implements the census.  Once the disk was full no session counts
\* as complete: rows that the reader cannot tell apart leave a run that ended
\* normally with hosts missing.
CampaignCensus == INSTANCE Census WITH
    rows     <- Recorded,
    torn     <- csv.tail # "none",
    goal     <- IF pc \in {"down", "open_csv"} THEN {} ELSE targets,
    open     <- pc \notin {"down", "open_csv"},
    complete <- outcome = "ok" /\ fills = 0

ImplementsCensus == CampaignCensus!Spec

\* An invocation ends, however it was interrupted and whatever the disk does.
RunTerminates == (pc # "down") ~> (pc = "down")

\* An operator who keeps repeating `run --resume' ends with a row for every
\* host, and it stays that way; the one exception is a row cut inside a quote
\* that no later row closes.
EventuallyAllRecorded ==
    \/ <>[](Recorded = Hosts)
    \/ <>[](csv.tail = "quoted")

-----------------------------------------------------------------------------
(* Said of the program, and refuted.                                       *)

\* docs/data-schema.md: "results.jsonl mirrors this": after an invocation that
\* ended normally, every host it was asked for that has a row has a line.
JsonlMirrorsCsv ==
    outcome = "ok" => Asked(limit) \cap Recorded \subseteq Told

\* docs/data-schema.md again: no host has more lines than rows, once an
\* invocation has ended normally.
NoStaleLines ==
    outcome = "ok" => \A h \in Asked(limit) : jsonl.lines[h] <= csv.keyed[h]

\* writer.py: "an interrupted long run can continue where it left off": when
\* the continuation ends normally, every host asked for has its whole row.
ContinuesWhereItLeftOff ==
    outcome = "ok" => \A h \in Asked(limit) : csv.intact[h] > 0

\* writer.py: "rows are appended as they complete": when a process ends, other
\* than by a kill, each host it finished scanning has its row.
CompletedAreAppended ==
    [][Exit => HostsIn("finished") \cup HostsIn("yielded") \subseteq Recorded]_vars

=============================================================================
