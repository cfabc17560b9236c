------------------------------ MODULE ScanPool ------------------------------
(***************************************************************************)
(* pipeline/concurrency.py: map_concurrent runs one function over many     *)
(* items in a ThreadPoolExecutor and yields results as they complete.      *)
(*                                                                         *)
(* The order on Hosts is the order of submission.  `fut[h]' is the life of *)
(* the future of host h in the current process:                            *)
(*   idle     - not submitted                                              *)
(*   queued   - in the executor's FIFO work queue                          *)
(*   running  - a worker thread is inside scan_target_safe                 *)
(*   finished - the result is set, the main thread has not taken it        *)
(*   yielded  - as_completed handed it to the consumer of the generator    *)
(* A future never carries an exception: scan_target_safe turns every one   *)
(* into a record, so `future.result()' always returns.                     *)
(***************************************************************************)
EXTENDS Population, FiniteSets

VARIABLE fut

FutureStates == {"idle", "queued", "running", "finished", "yielded"}

HostsIn(state) == {h \in Hosts : fut[h] = state}

IsFirst(h, S) == h \in S /\ \A g \in S : h <= g

Advance(h, from, to) ==
    /\ fut[h] = from
    /\ fut' = [fut EXCEPT ![h] = to]

PoolInit == fut = [h \in Hosts |-> "idle"]

PoolTypeOK == fut \in [Hosts -> FutureStates]

-----------------------------------------------------------------------------

\* pool.submit(func, item), in list order; workers may already be running.
Submit(h, targets) ==
    /\ IsFirst(h, targets \cap HostsIn("idle"))
    /\ Advance(h, "idle", "queued")

\* A worker slot is not given back when a scan returns.
WorkerStart_SlotLeak(h, workers) ==
    /\ Cardinality(HostsIn("running") \cup HostsIn("finished") \cup HostsIn("yielded"))
          < workers
    /\ IsFirst(h, HostsIn("queued"))
    /\ Advance(h, "queued", "running")

\* One of at most max_workers threads takes the oldest item of the queue.
WorkerStart(h, workers) ==
    /\ Cardinality(HostsIn("running")) < workers
    /\ IsFirst(h, HostsIn("queued"))
    /\ Advance(h, "queued", "running")

\* scan_target_safe returned its record.
WorkerFinish(h) == Advance(h, "running", "finished")

\* A yielded future stays among those still to be yielded.
Yield_Keeps(h) == fut[h] = "finished" /\ UNCHANGED fut

\* as_completed yields some finished future ("order is not preserved").
Yield(h) == Advance(h, "finished", "yielded")

AllSubmitted(targets) == targets \cap HostsIn("idle") = {}

\* The loop ends when the scans have, with results still to take.
AllYielded_AllScanned(targets) ==
    targets \cap (HostsIn("idle") \cup HostsIn("queued") \cup HostsIn("running")) = {}

AllYielded(targets) == targets \subseteq HostsIn("yielded")

\* Executor.__exit__ is shutdown(wait=True) without cancel_futures: it returns
\* only when the workers have emptied the queue.
Drained == HostsIn("queued") \cup HostsIn("running") = {}

=============================================================================
