# Formal models of pqreadiness

TLA+ models of the measurement pipeline in `src/pqreadiness`, TLC configurations
that check them on small instances, and TLAPS proofs of the results that matter
most. Paths below are relative to the package unless they start with `docs/`.

## 1. Inventory

`pqreadiness run` is one process: it reads a domain list, expands it into
hostnames, hands them to a pool of threads that each scan one host, and writes
every result to `results.csv` and `results.jsonl`. It may be interrupted, killed
or run out of disk, and be started again, with or without `--resume`.

| part | source | state it keeps | operations |
|---|---|---|---|
| run command | `cli.py` | target list, record in hand | select targets (`--limit`, `--resume`), write loop, exit status |
| result writer | `storage/writer.py`, `storage/schema.py` | two files, two buffers | open (`a`/`w`), header, row, line, flush, close, read back the completed hosts |
| thread pool | `pipeline/concurrency.py` | one future per target | submit, start, finish, yield, drain |
| target list | `ingest/targets.py` | `seen`, `targets` | expand, de-duplicate |
| scan of a target | `pipeline/runner.py`, `models.py` | the record | DNS, probes with retries, reachability, classification, certificate, hosting, note, catch-all |
| openssl probe | `probe/openssl.py`, `probe/profiles.py`, `utils/shell.py` | none | run under a timeout, parse group and error |
| certificate probe | `probe/certificate.py` | none | second connection, parse the leaf |
| classification | `classify/*` | registry (read-only) | group class, best class, certificate class |
| DNS | `resolve/dns.py` | the process's default socket timeout | save, set, look up, restore |
| hosting | `enrich/*` | directory, ASN database (read-only) | build the resolver, ASN, then CNAME chain |
| domain ingest | `ingest/dotgov.py`, `ingest/plainlist.py` | none | read one of two file formats, fold the spelling, skip blank and comment rows |
| configuration | `config.py` | the settings (read-only) | YAML, environment, defaults; nothing checks the values |
| aggregation | `analysis/aggregate.py` | none | endpoint, tier, hosting, domain and agency views |
| statistics | `analysis/statistics.py` | none | Wilson interval, McNemar's two tests |
| pqscan | `tools/pqscan.py` | none | the probes, classification and certificate of one host, once |
| report, figures, logging, scripts | `analysis/report.py`, `viz`, `utils/logging.py`, `scripts` | none | formatting, one-shot network queries |

How they interact: the main thread drives the writer from the generator of the
pool, so an exception in the write loop closes the generator, whose `with` block
waits for the pool before the writer's `__exit__` runs. The worker threads share
the read-only registry, and one thing that is not read-only, the default socket
timeout. One invocation talks to the next only through the two files.

What is hard: the files are two and are not written atomically; the buffers die with
the process; results arrive in completion order; `--resume` believes what it can read
back, and what it reads back from a row that a full disk cut may be another host, a
name no longer, or nothing up to the next quote; an endpoint may be several backends,
each connection sees one of them, and any of them may fail.

What makes it correct: a host is recorded once; a run that ends normally has recorded
everything it was asked for; a full disk changes that by a bounded number of misread
lines, and leaves a trace of every host but two; audit lines and rows do not drift
apart without bound; a record never claims more than the endpoint showed, nor forgets
a handshake that completed; every hostname of the list is a target, of one owner,
once; the published views add up, and the intervals and tests around them are the
ones they are named after.

`PROJECT.json` lists each hazard at its line, with the properties about it.

## 2. Modules

| module | models | state and actions |
|---|---|---|
| `Ingest` | `load_domains`, `_tier_for`, `load_plain_domains` | operators: a file is its columns and rows, a cell what the readers make of it; extends `Targets` |
| `Targets` | `build_targets`, `_hostnames` | `seen`, `targets` and the two loop counters `d`, `v`; `Expand` is one round of the inner loop, `NextDomain` of the outer one |
| `Population` | the result of the expansion | hosts are positions in the target list |
| `ScanPool` | `map_concurrent` | `fut[h]`, the state of each host's future; submission order, first-in-first-out start, at most the invocation's `workers` running |
| `ResultWriter` | `ResultWriter`, `completed_hostnames` | the two files, described by what a reader gets out of them, and their buffers |
| `Campaign` | `_cmd_run`, composing the two above | `pc` of the main thread; one action per statement that changes state; `resume`, `limit` and `workers` are chosen anew by each invocation, unchecked as in the code (`PoolRefused` is the pool without threads); interrupts, kills and a disk that fills are the environment's actions |
| `Census` | abstract specification | a session has a goal and adds one row at a time; a complete session reached its goal; a row may be torn, and the torn row and the one that mends it may be misread |
| `CampaignProperties`, `MCCampaign` | properties and instances | |
| `OpensslProbe` | `probe`, `_extract_group`, `_error_category`, `shell.run` | operators: an output is a record of what the parser can find in it |
| `Hosting` | `resolve`'s choice of address, `build_resolver`, `lookup`, `enrich_hosting` | operators over addresses |
| `ScanTarget` | `pqscan.main`, `Scanner.scan_target`, `_probe_with_retry`, `scan_target_safe`, `classify_*`, `fetch_certificate` | the record under construction; one action per stage, per probe attempt and per round of the classification loop; `Raise` is the catch-all. `tool` says which of the two programs runs: pqscan skips DNS, retries, hosting and the note, and an exception ends it |
| `ScanTargetProperties`, `MCScanTarget` | properties and instances | `answered` and `blips`, declared in `ScanTarget`, are history variables |
| `DnsTimeout` | `resolve` in all the worker threads | the default timeout, `previous_timeout` and the progress of each lookup; `workers` threads |
| `Rollups` | `aggregate.py` over a growing table | extends `Ingest`: from a `file` through the expansion to the views; `Record` adds the row of any target not yet recorded |
| `MCTargets` | instances of `Ingest`, `Targets` and `Rollups` | |
| `Statistics` | `wilson_interval`, `mcnemar_exact_p`, `mcnemar` | the four cells of a paired comparison; one step compares one more target |
| `CampaignProofs`, `CensusProofs`, `ScanTargetProofs`, `ScanRecordProofs`, `TargetsProofs`, `DnsTimeoutProofs`, `StatisticsProofs` | proofs (section 4) | |
| `Induction` | nothing of the code: lemmas about loops and sums | |

Definitions that end in a suffix after an underscore (`OpenCsv_Appends`,
`Better_FirstWins`, ...) are deliberate faults: each replaces its namesake to show
that a property notices. No specification uses them.

### Abstractions

* A CSV file is the number of headers, for each host the number of records whose
  hostname column reads it and of whole rows, and the state in which a reader
  reaches its end. A JSONL file is the number of parseable lines about each host,
  and whether the last is unfinished.
* Unfinished rows and lines arise only when a flush meets a full disk: the kernel
  takes one small write whole. `Cuts` are the places where a row may end, by what
  the reader behind `completed_hostnames` makes of it:

  | cut | read from the unfinished row | with the next row glued to it |
  |---|---|---|
  | in the domain cell or right behind its comma | no hostname | any cell may stand in the hostname column: any host, or none |
  | in the hostname cell or at its end | a prefix of the name: that host, another one, or none | the name runs on into the next row: any host or none, and the one read before is no longer read |
  | further on | its host | its host; the next row is part of the record and lost |
  | inside a quoted cell (`cert_chain_signature_algorithms` is JSON, an agency may hold a comma) | its host | the same, but the reader stays inside the quote and swallows every row until one that has a quote of its own |
  | inside the line end | its host, the row is whole | nothing is lost |

  Which names a prefix or two glued cells look like depends on the population, so
  any host is allowed (`www.` glued to a row about `beta.gov` does read
  `www.beta.gov`). Whether a row holds a quote is a choice of every flush. The
  table was compared with Python's `csv` module over all cut positions of generated
  rows, with one and with two rows behind the cut.
* Bounds of this: onto a row that is itself unfinished a second full disk lets
  nothing more through, unless it is a quote that closes an open one; and a header
  still in the buffer when the disk fills is taken to be written whole. The reader's
  limit on the length of a field (131072 characters, reached by some hundreds of
  swallowed rows) is not modelled.
* While a quote is open every `--resume` may scan and tell of the same hosts again,
  without end. `MaxLines` bounds how often an operator repeats it: `Launch` does not
  resume onto an open quote once some host has that many audit lines.
* What survives a power loss is not modelled: a crash is the end of the process.
* One output of openssl is the six facts its parser reads. `Answer` and `ProbeOnce`
  say which outputs a connection may produce: they include builds that do not print
  the group, handshakes that complete after the timeout, refusals whose text
  contains `alert protocol version`, and resets in the middle of a handshake.
* In `ScanTarget` any stage with an external call may raise. For pqscan the profiles
  `Offers` stand for its fixed pair of group lists.
* An address is its family and the system that announces it; the name's `alias` is
  the CDN whose suffix occurs on its CNAME chain, seen only when `dig` answers. The
  order in which `getaddrinfo` lists addresses is a choice.
* A certificate chain is the sequence of the classes of its certificates, the
  leaf first.
* A cell of a domain file is what the readers make of it: a name in some spelling,
  a blank, a comment mark; a type by the two tests of `_tier_for` it passes.
* `Statistics` keeps each float as the integers it is a quotient of: z^2 is a
  fraction, as the square of a float is, an interval is the set of rates inside it, a
  p-value is multiplied by 2^n. Rounding is left out, and so is the interval of an
  empty table, which the code defines as [0, 0].
* `Rollups` keeps a rate as its two counts. A blank agency is what pandas reads as
  a missing value and `groupby` drops.

## 3. Runs

| run | question | bounds |
|---|---|---|
| `campaign` | no duplicate row, one header, no wasted scan, completeness, bounded loss of audit lines, both inductive invariants (`CampaignInv`, with the type, and `AuditInv`); no step is repeated and no idle pool waited for; the campaign implements `Census` | 3 hosts, 2 workers or a pool of 0, limits 0, 2 and -2, 2 interrupts or kills, 1 full disk, `MaxLines` 2, any series of fresh, limited and resumed invocations |
| `resume` | audit lines and their inductive invariant, termination, eventual coverage under an operator who repeats `--resume` | 3 hosts, 1 fault, 1 full disk, `MaxLines` 2 |
| `scan` | truth of the record and of its hosting tag, best class, retries, end of the scan; the inductive invariant, with the type | `run` and pqscan, the two shipped profiles, 3 groups (one not in the registry), 2 retries, 2 autonomous systems, with and without a database; endpoints of one backend with any groups and leaf, and of two backends, one IPv4 and one IPv6, outside, inside or half behind a CDN |
| `dns` | the shared default timeout | 5 hosts in 1 or 2 threads |
| `targets` | rows covered, targets distinct, complete, of one owner; the views over them add up, agree and never shrink; the inductive invariant, with the types | every registry of at most 3 rows of `x`, `X` and `www.x` with 2 types and 2 agencies; files with blank, short, comment and ownerless rows under each set of columns and either format; 4 scan results, rows in every order |
| `statistics` | interval and tests against their definitions | z^2 = 23/6 (the code's is 3.8415; TLC's integers have 32 bits), 20 steps of the rate, 28 discordant and 4 concordant targets |
| `mirror`, `stale_lines`, `continues`, `appended`, `any_probe`, `gap_note` | statements of the documentation that the code does not meet | the counterexamples need 2 or 3 hosts |

Why the bounds are enough. Two workers and three hosts give a result that overtakes
another and a host still queued while one runs and one is being written. Two faults
give a fault of the run that repairs the first; one full disk leaves one unfinished
row, cut anywhere, and one unfinished line, and each invocation of a series of any
length can find them. Two audit lines about a host are one repetition of a scan
behind an open quote; more repeat it. A third retry or profile adds rounds of the
same loops. Three rows are the least in which a domain is repeated and collides with
another. 28 discordant targets reach both sides of the 25 at which `mcnemar` changes
its note. For one thread and for two the timeout behaves differently; what holds for
two holds for more by `LeakStays`.

### What the runs show

`RunComplete` and `ImplementsCensus` are the core: whatever was interrupted, an
invocation that ends normally leaves a row for every host it was asked for. After
a full disk it need not. Behind an open quote any number of rows can be unreadable
and the run still ends in success; what holds is that all these hosts but two have
an audit line. The two are a host whose name an unfinished row ended with, skipped
as completed and then glued to the next row, and one whose line was glued to an
unfinished one. So the refinement counts no session as complete once the disk was
full, and lets the torn row and the one that mends it be misread; everything else
in the table stays.

The same misreading is the `fills` in `NoDuplicateRows` and `NoRescan`: a glued line
may look like a second row of a host, once per full disk. `AuditLossBounded`
measures the price of two files: one audit line per fault, at most four per full
disk (two lines glued, the row the disk let through, a misread one).
`AuditLinesUnique` is about campaigns whose disk never fills: behind an open quote
each `--resume` scans the swallowed hosts once more and writes a further line for
each. For the same reason `EventuallyAllRecorded` has a second outcome, a quote
that no later row closes.

`NeverStuck` and `StepsRunOut` are what an end of every invocation takes: the main
thread waits only where a thread has or can start work, and a bounded number of steps
is used up one by one, by faults too. `ReachabilityIsTrue` says that what the parser
makes of text is what the handshake was. `MomentaryTimeoutForgiven` and
`TransientIsExhausted` are the two directions of the retry policy; a connection reset
in the middle of a handshake is recorded as `handshake_failed`, which the code does
not retry, so the first excepts it. `GapNoteIsTrue` is deliberately weak for an
endpoint of several backends: the note may combine the key exchange of one with the
certificate of another. `HostingTagIsTrue` has the same limit: the tag is of the
address resolved first, and a probe may reach another; what holds is that a CDN is
one of the endpoint's own, and that with a database "origin" needs an IPv4 address
outside every CDN.

`RestoredWhenQuiet` and `LeakIsPermanent` describe the shared DNS timeout, they do
not rule the leak out: with two threads it is what the code does. `CaseBlindDistinct`
holds only because the loaders fold what `build_targets` compares as it is;
`RowsCovered` follows a row of the file to its targets, past blanks, comments and
repetitions. `IntervalIsScoreTest` compares the algebra of `wilson_interval` with the
test it inverts, in exact arithmetic, `ExactIsTwoSided` the doubled tail with the
two-sided one, and `TestsAgree` and `EvidenceCounts` say that the two numbers of a
comparison rank splits alike and follow the evidence.

Six runs refute statements of the documentation; `PROJECT.json` quotes each one.
In short: the JSONL does not mirror the CSV after a kill between the two flushes,
nor after one between the two truncations; a run does not continue where a full
disk left it; after Ctrl-C the pool scans everything still queued and the results
are dropped; `reachable` forgets handshakes when a later step raises; the gap
note leaves out post-quantum endpoints whose certificate was not obtained.

### Fairness

`FairSpec` of `Campaign`: weak fairness of the main thread, and of each start and
end of a worker's scan. The operating system runs every runnable thread, and a
scan ends because every command runs under `subprocess` timeouts and the resolver
gives up. `OperatorSpec` adds an operator who starts the command again and frees
the disk: that is what "eventually every host has a row" depends on, and it is
stated as such. Faults are not fair and are bounded by `MaxFaults` and
`MaxFills`. `FairSpec` of `ScanTarget` is weak fairness of its only thread.
Deadlock is checked in `campaign`, where the operator can always start another
invocation; in `resume` the only invocation there is may be one that `MaxLines`
forbids. A single scan, the lookups and the expansion of a list do end.

## 4. Proofs

Every safety invariant and every action property that a passing run checks is also
a theorem, for every value of the constants, from their named assumptions only;
where a theorem needs more, its hypothesis says so. `PROJECT.json` lists them. An
invariant that strengthens another to an inductive one is itself checked by a run,
or is a conjunct of one that is.

### The campaign

* `CampaignProofs`: `TypeCorrect`, `Invariance`, `NoDuplicates`, `OneHeader`,
  `NoScanWasted`. How many rows a host has is not inductive: it depends on what is
  still to be written. `RowsBounded` keeps a balance for each host: the rows that
  read it, the one that is still to come (`RowAhead`: a target without a result, a
  row in hand or in the buffer), and the chance that a line about another host is
  misread as it (`Misreadable`) never exceed 1 + fills. The full disk that opens the
  chance pays for it, and a glued line that uses it closes it. The delicate case is
  the remainder of a cut row: it is in the buffer although its hostname may be on
  disk already, and completes a name that may have been read as another. One lemma
  per component (`PoolTypes`, `WriterTypes`, `FlushRowInv`, `FlushRowFailsInv`)
  carries the effect of its operations into the step lemmas.
* `StepsAreSpent` is a termination measure. `StepsLeft` adds what each future still
  costs, what the main thread is from its end, and how often the disk may still
  fill; taking a result costs the pool 5 and gives the main thread 4 back. The cost
  of the pool is a sum over all hosts, of which one summand falls (`PoolSpends`, from
  `SumDrops`). `WaitsForSomething` rests on `PoolAlive`: a pool without threads has
  no futures, and when results are awaited every target has one. With fairness the
  two give `RunTerminates`; that last step is TLC's.
* `CensusProofs`, the table: `CompleteRuns` and `Refinement`. `CompleteInv` follows a
  run that nothing has gone wrong in. What it may still owe is a host of
  `Asked(limit)` that `--resume` dropped and whose row is gone since (`Skipped`), a
  target whose result was taken and that has no line (`Untold`), and one that has no
  row (`Rowless`). Without a full disk `Skipped` and `Rowless` stay empty. With one
  `Rowless` may grow at will, but `Skipped` and `Untold` have at most one host each:
  only the first row of a process can end an unfinished row, and only its first line
  can be glued to an unfinished line. The refinement maps a flush that completes a
  hostname to `Census`'s `Record`, a cut to `Tear`, the flush behind it to `Mend`,
  and everything else to a stutter or to the opening and the end of a session
  (`CensusStep`).
* `CensusProofs`, the audit file: `AuditLossIsBounded`, from `AuditInv`. It keeps a
  ledger. `Exposed` are the hosts that have a row and will hardly get a line any more;
  `Torn` and `Stray` are what may still be lost without a further fault: the line
  that goes with an unfinished one and the unfinished one itself, and rows that may
  still reach the table without a line, one let through and one misread. All
  together never exceed faults + 4 * fills (`Ledger`): a fault exposes the one record
  in hand, a full disk opens the four. `AuditLinesAreUnique`, from `LinesInv`, needs
  less: while the disk is never full the lines of a host and the one still due stay
  within its rows, of which there is one. It is proved, as it is checked, for
  campaigns in which every invocation resumes; `stale_lines` shows that it fails for
  others.

### The scan

* `ScanTargetProofs`: `ScanInvariance`, `CapabilityReal`. A group on its way from
  an output to the record (`last`, `record.probes`, `best`, `record.group`) is
  always one that a backend negotiates with some profile, and `best.class` is the
  class of `best.group`. It rests on `ExtractFacts`, that extraction returns the
  negotiated group or nothing. `ProbeAssumption` excludes groups named `ECDH`,
  `DH` or `none`, which the parser could not tell from its own markers.
* `ScanRecordProofs`: `ScanTypeCorrect`, `GapNoteTrue`; `ReachabilityTrue`, from
  `ReachInv`, which ties `answered` to the outcomes on their way to the record;
  `BestClassRecorded`, from `FoldInv`, that `best` is the best of the probes folded
  so far; `RetriesExhausted`, from `RetryInv`, that counts the disturbances of the
  finished profiles and those of the one under way apart; `MomentaryForgiven`, from
  `AcceptInv`, that an accepting endpoint fails only by a disturbance, a reset or a
  lookup; `HostingTrue`, from `TagInv`, that the address kept is one of the
  endpoint's, an IPv4 one when it has any; `ScanStepsRunOut`, that profiles times
  attempts, rounds and stages bound a scan (`ScanLeft`), from `LoopBounds`. No run
  checks that one: `ScanEnds` is the same question put to TLC.

### The domain list and the views

`TargetsProofs` follows a name from its row in a file to the published counts.

* `TargetsInvariance`, `DistinctHosts`, `EverythingExpanded`, `SingleOwner`: one owner
  per domain needs that a target comes from the first listing of its domain, and that
  in turn that whatever the loops went through is in `seen` (`Covered`), so that a
  repeated listing adds nothing.
* `ExpansionImplemented` shows that the whole path of `Rollups` implements the
  expansion, so that these theorems hold of it. `RollupsInv` adds that the list is
  what was loaded, that targets are variants of its domains and that rows are of
  targets, one each.
* The readers are folds over rows. `KeptRun` describes what any such fold keeps
  after each row; `LoadFacts` follows, that the list has exactly the names of the
  rows that are read. From it `NoRowLost` and, with `FoldAssumption`, `OneSpelling`:
  lowering a name twice is lowering it once, it leaves a name, and `www.` before a
  lowered name is lowered already. Python's `str.lower` and an ASCII prefix do that.
* `EndpointsAddUp` and `AgenciesPartition`: a view groups rows by one key, so its
  counts are those of a partition (`SumOverGroups`); for agencies the partition is of
  domains, which is where `SingleOwner` is needed. `ViewsAgree` compares the two ways
  to count, `PartialTablesUnderstate` says that every count is of a set that grows.

### The rest

* `DnsTimeoutProofs`: `DnsTypeCorrect`; `SingleWorkerRestores`, for one thread, where
  a lookup under way excludes every other (`OneWorker`, by counting); `LeakStays`,
  for any number: once leaked, the timeout is what every later lookup saves.
* `StatisticsProofs`: `WilsonInverts` and `IntervalCorrect`, that the two
  inequalities differ by a positive factor, for every count, every rational rate and
  every z whose square is rational, the code's float among them. `CombCounts`:
  `math.comb` as modelled multiplies and divides in turn; that each division is exact
  and Pascal's rule are shown together (`PascalHolds`, `ExactHolds`), by induction on
  the row, and the rounds then count the subsets of each size. The rows of the
  triangle are symmetric and add up to 2^n (`WholeRow`), so that a tail has a mirror
  image (`UpperTail`) and twice the smaller one is the two-sided probability, capped
  where both share the middle (`TwoSided`, `ExactPCorrect`). With one more target a
  tail is the sum of two tails of the row before (`TailOfNextRow`), which compares
  the p-values (`LeadGrows`, `LeadShrinks`, hence `EvidenceFollowed`); splits of one
  sample are ranked by their smaller side, by either test (`TestsRankAlike`, hence
  `TestsConsistent`).
* `Induction` holds what several of these need in place of a schema of induction:
  the least counterexample among numbers (`LeastNumber`, `EveryNumber`) and among
  finite sets (`LeastSet`), that a loop has a run (`LoopExists`), and sums over
  finite sets: what a sum is (`SumByParts`), how it grows (`SumAdds`, `SumOfUnion`),
  how two compare (`SumMonotone`, `SumDrops`), and that the sizes of groups add up
  (`SumOverGroups`).

Only model-checked: liveness (`RunTerminates`, `EventuallyAllRecorded`,
`ScanEnds`), which is out of the prover's reach, and the six statements the code
refutes.

## 5. Not modelled

Parsing of YAML, of the environment and of arguments; the text of errors and notes;
rounding of floats; the certificate fields that only describe (key type, size, the
rest of the chain); report, figures, logging, the scripts. What pandas makes of a
table damaged by a full disk, and the `_csv.Error` of a field that an open quote made
too long. Two registries: an agency that changed between a run and its `--resume`.
Two invocations at once on one pair of files: nothing in the code provides for it.
Power loss, and how long `getaddrinfo` takes: both are decided outside the program. A
missing openssl binary.

## 6. Plan

Done: the campaign, its refinement and its termination measure; the scan, hosting
included; the shared DNS timeout; domain files, targets and views; the statistics;
the proofs of all their safety properties. Left:

1. Composition of campaign and scan: a row that records a momentary fault
   (`internal_error`, `unreachable`) is never scanned again by `--resume`.
2. `analyze` on a table with an unfinished last line.
3. An abstract specification of a scan, of which a record's claims are the promise,
   with a refinement proof like that of `Census`.
