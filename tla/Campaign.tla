------------------------------ MODULE Campaign ------------------------------
(***************************************************************************)
(* cli.py `run': a measurement campaign is a series of invocations of      *)
(* `pqreadiness run' on one pair of result files.  Each invocation selects *)
(* its targets, opens the files, hands the targets to the thread pool and  *)
(* writes every result the pool yields.  It may be interrupted (Ctrl-C),   *)
(* killed, or meet a full disk, and may then be repeated, with or without  *)
(* --resume.                                                               *)
(***************************************************************************)
EXTENDS ScanPool, ResultWriter, Integers

CONSTANTS
    Invocations,   \* what the operator asks for: --resume, --limit, max_workers
    MaxFaults,     \* bound: interrupts and kills over the campaign
    MaxLines       \* bound: how often a host is told of before --resume is given up

\* Nothing checks the numbers of a command line or of PQR_MAX_WORKERS.
ASSUME CampaignAssumption ==
    /\ Invocations \subseteq [resume : BOOLEAN, limit : Int, workers : Int]
    /\ MaxFaults \in Nat
    /\ MaxLines \in Nat

VARIABLES
    pc,          \* what the main thread does next
    resume, limit, workers,
    targets,     \* what is left of the target list after --limit and --resume
    cur,         \* the record in the hands of the main thread, or NoRow
    outcome,     \* how the last invocation ended: "none" yet, "ok", "failed"
    faults

runVars == <<pc, resume, limit, workers, targets, cur, outcome, faults>>
vars == <<fut, writerVars, runVars>>

Writing == {"csv_row", "csv_flush", "jsonl_row", "jsonl_flush"}
Pooling == {"submit", "wait", "drain"} \cup Writing
Closing == {"close_csv", "close_jsonl", "exit"}

TypeOK ==
    /\ PoolTypeOK
    /\ WriterTypeOK
    /\ pc \in {"down", "open_csv", "open_jsonl"} \cup Pooling \cup Closing
    /\ resume \in BOOLEAN
    /\ limit \in Int
    /\ workers \in Int
    /\ targets \subseteq Hosts
    /\ cur \in Hosts \cup {NoRow}
    /\ outcome \in {"none", "ok", "failed"}
    /\ faults \in 0..MaxFaults

\* targets[:limit], unless it is 0; a negative one counts from the end.
Asked(lim) ==
    IF lim = 0 THEN Hosts
    ELSE {h \in Hosts : IF lim > 0 THEN h <= lim ELSE h <= N + lim}

Init ==
    /\ PoolInit
    /\ WriterInit
    /\ pc = "down"
    /\ resume = FALSE
    /\ limit = 0
    /\ workers = 0
    /\ targets = {}
    /\ cur = NoRow
    /\ outcome = "none"
    /\ faults = 0

\* The main thread proceeds from label l to label m.
Goto(l, m) ==
    /\ pc = l
    /\ pc' = m

-----------------------------------------------------------------------------
(* The main thread, in program order.                                      *)

\* --limit cuts the list before --resume filters it.  (Bound: while a quote is
\* open every --resume may scan and tell of the same hosts again.)
Launch(i) ==
    /\ Goto("down", "open_csv")
    /\ i.resume /\ csv.tail = "quoted" => \A h \in Hosts : jsonl.lines[h] < MaxLines
    /\ resume' = i.resume
    /\ limit' = i.limit
    /\ workers' = i.workers
    /\ targets' = Asked(i.limit) \ (IF i.resume THEN CompletedHostnames ELSE {})
    /\ outcome' = "none"
    /\ UNCHANGED <<fut, writerVars, cur, faults>>

OpenCsvFile ==
    /\ Goto("open_csv", "open_jsonl")
    /\ OpenCsv(resume)
    /\ UNCHANGED <<fut, resume, limit, workers, targets, cur, outcome, faults>>

OpenJsonlFile ==
    /\ Goto("open_jsonl", "submit")
    /\ OpenJsonl(resume)
    /\ UNCHANGED <<fut, resume, limit, workers, targets, cur, outcome, faults>>

\* ThreadPoolExecutor raises ValueError, with both files open already.
PoolRefused ==
    /\ Goto("submit", "close_csv")
    /\ workers <= 0
    /\ outcome' = "failed"
    /\ UNCHANGED <<fut, writerVars, resume, limit, workers, targets, cur, faults>>

SubmitNext(h) ==
    /\ Goto("submit", "submit") /\ workers > 0
    /\ Submit(h, targets)
    /\ UNCHANGED <<writerVars, runVars>>

\* Results are awaited before the list is submitted.
SubmitDone_Early ==
    /\ Goto("submit", "wait") /\ workers > 0
    /\ UNCHANGED <<fut, writerVars, resume, limit, workers, targets, cur, outcome, faults>>

SubmitDone ==
    /\ Goto("submit", "wait") /\ workers > 0
    /\ AllSubmitted(targets)
    /\ UNCHANGED <<fut, writerVars, resume, limit, workers, targets, cur, outcome, faults>>

TakeResult(h) ==
    /\ Goto("wait", "csv_row")
    /\ Yield(h)
    /\ cur' = h
    /\ UNCHANGED <<writerVars, resume, limit, workers, targets, outcome, faults>>

WriteRow ==
    /\ Goto("csv_row", "csv_flush")
    /\ BufferRow(cur)
    /\ UNCHANGED <<fut, resume, limit, workers, targets, cur, outcome, faults>>

FlushCsv ==
    /\ Goto("csv_flush", "jsonl_row")
    /\ FlushRow
    /\ UNCHANGED <<fut, resume, limit, workers, targets, cur, outcome, faults>>

WriteLine ==
    /\ Goto("jsonl_row", "jsonl_flush")
    /\ BufferLine(cur)
    /\ UNCHANGED <<fut, resume, limit, workers, targets, cur, outcome, faults>>

FlushJsonl ==
    /\ Goto("jsonl_flush", "wait")
    /\ FlushLine
    /\ cur' = NoRow
    /\ UNCHANGED <<fut, resume, limit, workers, targets, outcome, faults>>

\* The OSError of a write leaves the for loop, which closes the generator and
\* with it the executor.
WriteFails ==
    /\ \/ Goto("csv_flush", "drain") /\ FlushRowFails
       \/ Goto("jsonl_flush", "drain") /\ FlushLineFails
    /\ outcome' = "failed"
    /\ UNCHANGED <<fut, resume, limit, workers, targets, cur, faults>>

\* The pool is shut down once its queue is empty, after the last result or
\* after an exception; the writer's __exit__ follows.
PoolExit ==
    /\ \/ Goto("wait", "close_csv") /\ AllYielded(targets)
       \/ Goto("drain", "close_csv") /\ Drained
    /\ UNCHANGED <<fut, writerVars, resume, limit, workers, targets, cur, outcome, faults>>

\* close() flushes what is buffered.  If that fails the exception skips the
\* second close, and the JSONL file is closed when its object is finalized.
CloseCsv ==
    /\ Goto("close_csv", "close_jsonl")
    /\ \/ FlushRow /\ UNCHANGED outcome
       \/ LoseCsvBuf /\ outcome' = "failed"
    /\ UNCHANGED <<fut, resume, limit, workers, targets, cur, faults>>

CloseJsonl ==
    /\ Goto("close_jsonl", "exit")
    /\ \/ FlushLine /\ UNCHANGED outcome
       \/ LoseJsonlBuf /\ outcome' = "failed"
    /\ UNCHANGED <<fut, resume, limit, workers, targets, cur, faults>>

\* close() itself finds the disk full.
CloseFails ==
    /\ \/ pc = "close_csv" /\ csvBuf # EmptyCsvBuf /\ FlushRowFails
       \/ pc = "close_jsonl" /\ jsonlBuf # EmptyJsonlBuf /\ FlushLineFails
    /\ ~diskFull
    /\ outcome' = "failed"
    /\ UNCHANGED <<fut, pc, resume, limit, workers, targets, cur, faults>>

\* The exit status hides the exception.
Exit_AlwaysOk ==
    /\ Goto("exit", "down")
    /\ Drained
    /\ fut' = [h \in Hosts |-> "idle"]
    /\ targets' = {}
    /\ cur' = NoRow
    /\ outcome' = "ok"
    /\ UNCHANGED <<writerVars, resume, limit, workers, faults>>

\* The interpreter joins the worker threads before the process ends.
Exit ==
    /\ Goto("exit", "down")
    /\ Drained
    /\ fut' = [h \in Hosts |-> "idle"]
    /\ targets' = {}
    /\ cur' = NoRow
    /\ outcome' = IF outcome = "none" THEN "ok" ELSE outcome
    /\ UNCHANGED <<writerVars, resume, limit, workers, faults>>

-----------------------------------------------------------------------------
(* What the environment does to the process.                               *)

Fault ==
    /\ faults < MaxFaults
    /\ faults' = faults + 1
    /\ outcome' = "failed"

\* KeyboardInterrupt in the main thread.  While the pool exists its __exit__
\* waits for the queue to drain; a second Ctrl-C abandons that wait only.
Interrupt ==
    /\ Fault
    /\ \/ Goto("open_csv", "down")
       \/ Goto("open_jsonl", "close_csv")
       \/ pc \in Pooling \ {"drain"} /\ pc' = "drain"
       \/ Goto("drain", "close_csv")
    /\ UNCHANGED <<fut, writerVars, resume, limit, workers, targets, cur>>

Kill ==
    /\ Fault
    /\ pc # "down" /\ pc' = "down"
    /\ LoseBuffers
    /\ fut' = [h \in Hosts |-> "idle"]
    /\ targets' = {}
    /\ cur' = NoRow
    /\ UNCHANGED <<resume, limit, workers>>

FreeDisk ==
    /\ DiskFreed
    /\ UNCHANGED <<fut, runVars>>

WorkerStarts(h) ==
    /\ WorkerStart(h, workers)
    /\ UNCHANGED <<writerVars, runVars>>

WorkerFinishes(h) ==
    /\ WorkerFinish(h)
    /\ UNCHANGED <<writerVars, runVars>>

-----------------------------------------------------------------------------

MainStep ==
    \/ OpenCsvFile \/ OpenJsonlFile \/ PoolRefused
    \/ \E h \in Hosts : SubmitNext(h) \/ TakeResult(h)
    \/ SubmitDone
    \/ WriteRow \/ FlushCsv \/ WriteLine \/ FlushJsonl \/ WriteFails
    \/ PoolExit \/ CloseCsv \/ CloseJsonl \/ CloseFails \/ Exit

WorkerStep == \E h \in Hosts : WorkerStarts(h) \/ WorkerFinishes(h)

Next ==
    \/ \E i \in Invocations : Launch(i)
    \/ MainStep
    \/ WorkerStep
    \/ Interrupt \/ Kill \/ FreeDisk

Spec == Init /\ [][Next]_vars

\* The operating system schedules the main thread and every worker thread,
\* and a scan ends: openssl runs under a timeout, the resolver gives up.
Fairness ==
    /\ WF_vars(MainStep)
    /\ \A h \in Hosts : WF_vars(WorkerStarts(h)) /\ WF_vars(WorkerFinishes(h))

FairSpec == Spec /\ Fairness

\* The operator repeats the command and makes room on the disk.
OperatorSpec ==
    /\ FairSpec
    /\ WF_vars(\E i \in Invocations : Launch(i))
    /\ WF_vars(FreeDisk)

=============================================================================
