# graphcheck in TLA+

Specifications of graphcheck: what one call of the check engine does with its worker
threads, its deadline and its event stream; what the directory of published runs goes
through when several processes publish, prune, delete and read it; how concurrent
callers of one client share the classification of queries and the probe of the server;
how a command line ends and what it reports; how baselines, profiles and generated
suites reach the disk; and what the compiled queries, the evaluator and the comparison
of profiles compute. TLC checks them on small instances; TLAPS proves the most
important results for every value of the constants.

    tlc -config Pool.cfg MCEngine          # any run of PROJECT.json
    tlapm PartsProofs.tla                  # any module named ...Proofs

Paths below are relative to `src/src/graphcheck/`.

## 1. The system

`graphcheck run` loads suites of checks, opens a Neo4j client, lets the engine run
every check as read-only Cypher within a time budget, writes the resulting `Results`
document with its HTML report and summary into a directory of runs, and exits with a
code derived from the document. `profile` records a baseline of the graph, `diff`
compares two of them, `generate` has a language model propose checks, and each command
reports itself in one telemetry event if the user has agreed.

| Component | State it keeps | Operations | Interacts with | What is hard | What makes it correct |
|---|---|---|---|---|---|
| Check engine (`engine/runner.py`) | result slots, partial reasons and codes, deadline, per-check query counts | `Engine.run`: prepare, fail-fast loop, worker pool, batches, close | connector, event sink, baseline provider, progress callback | workers finishing in any order, the deadline passing between any two steps, a transaction failing after its members were evaluated, a callback raising | every check accounted for; exit code and reasons say why coverage was lost; nothing at work when the call ends |
| Result contract (`contracts/results.py`) | none | validation of a document, exit code | engine, reports | combinations no test enumerates | accepted exactly when gaps are declared |
| Scoring (`scoring.py`) | none | score, points lost per check | reports | rounding twice | deductions add up |
| Event stream (`telemetry/events.py`, `collector.py`) | events so far, queries counted, enabled flag | emit, reconcile | engine, delivery | the first inconsistent event silences the rest | one terminal event that agrees with the document |
| Published runs (`application/artifacts.py`, `reporting/history.py`) | `latest`, one directory per run, lock, staging, backup and trash directories | publish, prune, delete, list, open | any number of processes | crashes and errors between file-system steps, rendering outside the lock, retries, stale listings | chain of runs, whole sets, history immutable, `latest` never lost |
| Change comparison (`reporting/changes.py`) | none | load two runs, compare | published runs | reads while others publish | compares the linked run |
| Run orchestration (`application/run.py`) | the connection | `execute_run` | engine, connector, writer | which exception becomes which document; closing after a failure | closed before artifacts are written; published once |
| Neo4j connector (`neo4j_adapter.py`, `engine/executor.py`) | classification cache, probe result, edition, driver pool | classify, probe, verify credential, read, read bounded, close | engine workers, commands | single flight with failing leaders, close during a probe, stale edition | nothing but reads runs; what is cached was complete; nobody waits for ever |
| Baseline store (`baselines.py`, `engine/baseline.py`) | snapshots, pin, per-run cache | save, list, pin, resolve | profiler, diff, engine | colliding clocks, removal by hand, two workers asking first | a name keeps its meaning; a run sees one baseline |
| Profiler (`profiler.py`) | what the stages collected | staged queries under a budget | connector, baseline store | failing inside a stage while the graph is written to | a partial profile keeps what was measured and says it is partial |
| Telemetry delivery (`telemetry/posthog.py`, `runtime.py`) | bounded queue, sender thread, stop flag | capture, flush, close, send | collector, network | full queue, close racing the sender | the command ends; close says what happened |
| Consent (`telemetry/consent.py`, `policy.py`) | consent file, installation id | resolve, enable, disable, reset | command line | read-modify-write without a lock | a retired id is not taken up again |
| Compiler and packs (`engine/compiler.py`, `engine/*_pack.py`) | none | check to Cypher | engine | nulls, parallel edges, two queries per check | counting and evidence agree |
| Evaluation, sampling (`engine/evaluator.py`, `sampling.py`) | rows read so far | early stop, verdict, evidence, sample | connector, engine | deciding on part of a result | the verdict is that of the whole |
| Profile diff (`diff.py`) | none | compare, render | baseline store | listing less than drifted | drift exactly when something is listed |
| Check generation (`generation/`) | proposals retained, suite being written | disclose, propose, correct, write | language model, project files | documents edited meanwhile, clocks of two runs | nothing undisclosed is sent; whole suites only |
| Command line (`cli.py`) | what its handlers recorded | every command, boundary to exit | all of them | exceptions on many paths, one validator | one event per command, true to what happened |
| Redaction, HTML report, MCP server, health metrics | display only | | | | |

`PROJECT.json` lists each of them with its status, and the hazards, each at the line
where it bites.

## 2. Modules

    RunContract <- RunLedger <- Engine <- MCEngine
               ^               (INSTANCE)  ^ EngineProofs <- EngineReasonProofs
               +- Scoring <----------------+
    ReportStore <- MCReportStore           |
         ^ ReportStoreProofs               |
    ReadGuard   <- MCReadGuard             |
         ^ ReadGuardProofs                 |
    Probe       <- MCProbe                 |
         ^ ProbeProofs                     |
    Telemetry   <- MCServices -> Command   |
                       ^ ServicesProofs    |
    Competency, Baselines,                 |
    Generation, Profiler <-----------------+-- MCParts <- PartsProofs
    Algorithms <-------------------------------+   |
       |   ^ AlgorithmProofs <---------------------+
       +-> Evaluator, Sampling, Packs, Statistics, Diff
    PropertyGraph <- Packs, Statistics

(`<-` is EXTENDS, `->` an INSTANCE.) Operators whose comment says *Mutant*, or which a
comment at the end of the line describes as a deviation, are not part of the behaviour:
each is what a plausible mistake would make of the definition that follows it, and the
property paired with it in `PROJECT.json` fails when it takes that definition's place.


**RunContract** has the contract of a run as operators: which verdicts and skip
reasons there are, of `Results._consistency` the rule that lost coverage needs a partial
run (`Accepts`, lines 397-401; the consistency of the score is in Scoring), `exit_code`, and the score with its half-to-even rounding.
A `CheckResult` is reduced to what these rules and the engine tell apart: the
verdict, the skip reason, and whether an error is `engine.timeout`.

**RunLedger** is the abstract specification of a call of `Engine.run`: each check is
settled once, then the call returns a document that accounts for all of them and
that the contract accepts, or an empty failed one, or raises.

**Engine** is the call in detail. `main` is the main thread's position, `cursor` the
check it looks at, `group`/`pc`/`inflight`/`outcome`/`why` what the workers do,
`slot`/`reasons`/`status` the document in the making, `codes`, `sinkOpen`, `queries`,
`processed`, `terminal` the telemetry. Correspondence:

| Actions | Code (`engine/runner.py`) |
|---|---|
| `ProbeTarget`, `FailRun` | probe and the early `_failed_run` returns |
| `SkipGenerated`, `SkipUnsupported`, `SkipLate`, `SkipStopped` | `prepare` and the fail-fast loop's skips, each through `record_result` |
| `RunNext`, `RecordNext`, `CloseLoop` | the fail-fast loop |
| `Collect`, `SubmitGroups`, `StartGroup` | collection of tasks, batching by completeness key, pool submission |
| `BeginBatch`, `EndBatch`, `StartMember`, `BreakBatch`, `FailMember` | `_run_task_group`: the shared transaction, its measurement, its members, and the fan-out of a failure |
| `StartCheck`, `Compile`, `ReadBaseline`, `BeginQuery`, `EndQuery`, `Evaluate`, `FinishGroup` | `_run_check` and what it calls |
| `RecordMember`, `ClosePool`, `CollectReason`, `CloseReasons`, `CloseRun` | `record_group`, the joining of reasons in suite order, `_results`, `RunFinished` |
| `RaiseFault` | an exception leaving the pool's context, then `EngineFaulted` |
| `Expire` | the monotonic clock reaching the deadline |

A query is two steps, submission and answer, so that other workers and the deadline
fall between them. A check's `Kind` says which stages it has (token parameters,
sampling population, baseline drift, graph-model presence and node count); whether
an assertion holds, a query answers, fails or times out, or a baseline is there is a
choice. The event sink is modelled with the validators that decide whether an event
is accepted, because the first rejected one closes it.

**Scoring** adds the points attributed to each check, over lists of results that grow
one check at a time, empty and all-skipped ones and timeouts included. `Allowed` are the
statuses that the contract lets a list have, and `Exit` the exit code under one of them.

**ReportStore** is the runs directory. A place is `latest` or the directory of a run;
its content is the document (id, link, predecessor of its changes) and which of the
three files are there. Publishers follow `write_run_artifacts` and
`publish_run_directory`: bind under the lock, render without it, re-check under it,
write three files to a staging directory, swap history in, move `latest` aside, swap
the new one in, remove the backup. Prunings remove directories file by file;
deletions move them to a trash directory, repoint `latest`, then empty the trash;
readers list, and open later (`ReportRun.results`). Each file-system step can fail
(`"error"`) or be the last one of its process (`"crash"`), and a rename that should undo
what was done can fail in its turn (`"rollback"`): `PublishFails` puts `latest` back or
`RestoreFails` leaves it in the backup, `DeleteFails` moves back what was moved, in
reverse order, and `UndoFails` stops at any of these. Such an actor ends *stranded*: it
releases the lock with what it took away still hidden. A pruning undoes nothing; what it
had begun to remove stays torn. A run is named by its rank
by `finished_at`, which the store sorts by; runs may be published in another order.

**ReadGuard** is the cache of read classifications of one client
(`_ReadClassificationCache.ensure_read`, `close`, and the calls around it). A call looks
its key up under the lock: it is cached (`Hit`), in flight (`Join`, then `Wake` and
look again), nobody's (`Lead`), or the client is closed and the call classifies on its
own account (`MissClosed`). Whoever classifies submits the `EXPLAIN` without the lock
(`Submit`) and comes back with a read (`Classified`) or with anything else (`Fail`).
`Expire` is a call's deadline passing, `Close` the client's, each at any moment. The
event that others wait for is named by the call that created it, so a waiter knows a
stale one from the current one. The hit and miss counts are kept, and reset by `Close`
as in the code. In `Run` the submission of a session's query is refused once its
deadline has passed, while a transaction's timeout is the server's. Which keys the
server classifies as reads is a constant; the rows a query returns are outside.

**Probe** is the client's other single flight: `probe` with `_probe_live`, and the
credential check that follows it. A caller finds the cached result (`AnswerFromCache`),
becomes the owner (`Own`) or waits (`Await`, `LookAgain`). The owner's probe is one
action per request of `_probe_live`, each with the answers that stage tells apart: an
error is a denial, a failed query or a lost connection, and a stage either takes it for
an answer or lets it out (`ProbeFails`). `Answer` fills the cache; the `finally` is two
steps, `ForgetDurations` and `Release`, because a close and a second owner fit between
them. `Verify` is `verify_read_only_credential`, `Shut` is `close`, `OutOfTime` a
caller's deadline. The server, its edition, grants and roles, is chosen at the start.

**Telemetry** is several processes of one user. The consent file is read and written
without a lock, so `enable`, `disable` and `reset` are separate steps (`Before`, `Read`,
`Write`, `After`) on the record that was read; `Resolved` is the order in which
`resolve_consent` asks the environment and the file. An ordinary command resolves its
consent and builds a runtime (`Command`, `StartRuntime`); delivery is `Capture` into the
bounded queue, `BeginClose`, `TimeUp`, `FlushEnds` and `Drain` on the main thread, and
`Take`, `Look`, `Send` on the sender. `Exit` forgets the memory of the process, so that
equal files give equal states.

**Command** is one invocation. `Steps` lists, for each command, what it does in order
and the exceptions each step may raise (what comes next is the least later step that
the options ask for); `Handle` gives what the command's handlers tell
the telemetry runtime about one and whether the command then ends, goes on, or lets it
reach the decorator. `run` has its own actions (`RunUnprepared`, `RunFails`,
`RunReturns`, `RunCloses`, `RunPublishes`, `RunUnprinted`), because `execute_run` turns
exceptions into failed documents that are published all the same. `Finish` builds the
one `CommandCompleted` event, which its own validator may refuse. An exception without
a decorator unwinds to the boundary in `cli`, which records it as unexpected unless
something else was recorded before (`AtBoundary`). The first step of `generate` is the
look at its optional packages (`_optional_attribute`).

**Competency** reads a query's rows one by one (`Read`, `Overflow`, `End`): after each,
`RefutedBy` and `AllPassEarly` are the incremental assertions of `CompetencyConsumption`,
and `Verdict` is what the evaluator says of the rows it is given, complete or not: pass,
fail, or, when an assertion fails and neither a row nor a parameter points at a graph
entity, the error `engine.evidence_missing`.
`AssertionsAreConsistent` is the contract of an `expect` block.

**Evaluator** is the rest of the evaluator as operators: the pointers a value has and
the cap on them (`Notice` is one pointer, `Collected` all of them), which conformance and drift summaries are refused, the verdict and the
evidence. **Sampling** is the sampling decision, Floyd's selection, the ranking hash and
the groups of near-duplicate names.

**PropertyGraph** is what the code uses of Neo4j: labels, relationships, and Cypher's
three truth values. On it, **Packs** gives the two queries each conformance or GraphRAG
check compiles to, the measurement that counts and the evidence query that lists, and
**Statistics** gives each drift metric twice: as the live query measures it and as the
profiler recorded it and the baseline provider finds it again. Values that are NaN are
left out of both. **Diff** is the comparison of two profiles and the lines its rendering
lists.

**Baselines** is the baseline directory. A writer stages, links under its time or the
next free one, and removes the staging file (`Stage`, `Link`, `Unstage`; `Die` between
any two); somebody may remove a snapshot (`RemoveByHand`). `baseline set` selects and
writes the pin, `diff` lists and then reads the pin, an engine run resolves references
from several workers under the provider's lock: `Resolve` chooses the path of a
reference once per run, `ReadSource` reads the file once, which may have gone in between
and then is unreadable for the rest of the run. `Fresh` forgets both. Times are `1..Horizon` and are drawn freely: clocks may be set back.

**Algorithms** brings the pure algorithms together and states what each promises of any
input (`EvidenceListsAll`, `VerdictFollows`, `DriftExplained`, `ValuesAreJudged`, `LinksAreJudged`, `HubsStandOut`,
`MajorityIsRight`, `GroupsAreConnected`, `ProfileAgrees`, `ListsWhatDrifted`): MCParts asks this of all small inputs, and
AlgorithmProofs proves it of all. `Summary` is the row an honest query answers with when
the elements of a check lie as a question says, which a verdict is then compared with.

**Profiler** is the staged collection, one action per read, over a graph that may
`Grow` between any two, within a budget that may be used up at any moment (`Exceed`).
The names still to be measured are a set, taken in order from the least.
What fails leaves a partial profile; the profile's own contract may still reject it.

**Generation** is one `generate`: what it reads (`LoadConfig`, `LoadBaseline`,
`LoadDocuments`), `Disclose`, the requests with each kind of answer (`Answered`,
`Garbled`, `Repeated` by the client, `Refused`), and the writer (`PickName`,
`StageFile`, `LinkSuite`, `Tidy`, `Reload`, `WriteFails`, `WithdrawalFails`, `Interrupt`),
while others
edit the documents, store profiles and publish suites (`Edit`, `Store`, `Rival`).

**MCEngine**, **MCReportStore**, **MCReadGuard**, **MCProbe** give TLC the instances.
**MCServices** (Telemetry, Command) and **MCParts** (Scoring, Competency, Baselines,
Profiler, Generation and the pure algorithms) put parts side by side that do not share
state: a behaviour explores one of them and leaves the others' variables idle, so their
state spaces add up instead of multiplying. A pure algorithm appears in MCParts as
*questions*: each of its small inputs is an initial state without a successor, and the
invariant compares the operator with a definition of what it should answer.

## 3. Runs

| Run | Instance | Shows |
|---|---|---|
| `pool` | five checks (drift, unsupported, sampled, plain, drift), two workers; 1.6 M states | the document is complete and accepted by its contract; the reasons are there exactly when coverage was lost, in suite order, and agree with the codes; a spent budget never counts as a hard failure |
| `batch` | a completeness batch of two and its overflow, two workers, callback may raise, fair | verdicts rest on a measurement; quiet exit; termination; refinement of RunLedger |
| `fail_fast` | six checks covering each way to pass, stop or be skipped | nothing starts after a hard result; the stop is a reason exactly when it lost coverage; no other gap is unexplained |
| `store_publish` | three runs, one redacted, a pruning, a reader, errors | chain of links; changes against the linked run; the reader opens the run it picked |
| `store_faults` | three publishers of two runs (one run twice), a pruning, a deletion, errors, failing rollbacks and crashes, fair; 2.5 M states | no partial set; history is never rewritten; `latest` is restored or repointed, or whole where it was hidden if the rollback failed too, and agrees with history; every publisher ends |
| `read_guard` | five calls, two queries, one of them with and without an allowance, cache of one, deadlines, a close, fair; 0.9 M states | only classified reads run; one preflight per key; nothing is cached after a close; nobody waits in vain; every call ends |
| `probe` | three callers, one with a deadline, four servers, a close, fair | probes take turns until the close; the cache is complete and earned; nobody goes on with more than a reader's credential; every probe ends |
| `services` | a job with telemetry switched on by its environment beside an enable, a disable and a reset; and each of the eleven commands; 0.5 M states | a retired installation id stays retired; close says what happened; every command ends, in one event that is true, with its connection closed |
| `parts` | see the bounds; 3.6 M states | a verdict given early is that of the whole result, or an error for want of evidence where that one fails; evidence is whole or says it is not; Floyd's draws and the ranks are fair and groups are components; a run sees one baseline and names keep their meaning; a profile hides nothing; nothing undisclosed is sent and suites are whole; measurement and evidence agree with each other and the profile with the live value; a diff lists what drifted; scores add up and exit codes flatter nobody |
| `batch_events`, `fault_events`, `store_crash` | | violated: see Findings |

**Bounds, and why they are enough.** Five checks on two workers let two groups race, a
third wait, and one that is never submitted lie between the reasons of two that are;
reasons, codes and counters of a check depend on no more than two others. Three
completeness checks with a batch size of two give a full batch, the boundary and a
group of one with the same key. `max_concurrency` 4 in the fail-fast run has no effect,
as in the code. Every kind of check occurs in a passing run. The store's hazards involve
at most a publisher, one that overtakes it and one that retries; three publishers with
one other actor contain each of these triples, and with `Keep = 1` pruning has something
to remove from two runs on. In the read guard a cache of one makes every second key an
eviction; three calls of one key give a leader, a waiter that takes over when it fails,
and one that waits for that. Three callers do the same for the probe, with a close
between the first owner and the second. A queue of two with three events overflows; four
processes contain each pair of control commands beside one that resolves its consent.

In `parts`: results of up to four checks; competency results of up to four rows over two
values, one more than the ceiling `Limit` of three, so that a read overflows, and three
of the same value exceed every bound an expectation states; two writers whose names
collide among three instants, two workers and the references "latest" and 2, of which
the former may become the latter; two labels and two types whose counts grow to two;
answers of up to three proposals over two ids when one or two are asked for, so that
duplicates, excess and a correction happen; rivals that take the first two names;
graphs of three nodes with up to two relationships, loops and parallel ones included;
vectors and name lists of up to four and three members; the ranking hash over the prime
5 with all of its coefficients.

**Fairness.** Engine: weak fairness of the main thread, of each group and of each check:
threads are scheduled, and every query is submitted with a timeout, so it is answered or
fails. Nothing is assumed about the deadline, which need not come. Store: weak fairness
of each publisher and of a pruning or deletion that has the lock. The lock is a polling
`FileLock` without a queue, so nothing stronger is assumed of acquiring it: publishers
end because only finitely many publications can overtake them. Crashes and errors are
never fair. Read guard and probe: weak fairness of each call's steps: threads are
scheduled and the server answers or the request fails; neither a deadline nor a close
need come. Telemetry: weak fairness of the main threads, time passing included, and
nothing of the sender: a network that never answers must not keep a command.

**Deadlock.** The engine runs check it (`Ended` is the explicit end). The other
instances stop when every call is over, or, in `parts`, when a question has been put, so
their configurations switch the check off; that nobody stops earlier is what
`EveryPublisherEnds`, `EveryCallEnds`, `EveryProbeEnds` and `ProcessesEnd` say.

## 4. Proofs

TLAPS checks the theorems below for every value of the constants that satisfies the
assumptions named; `PROJECT.json` lists each with what it establishes.

`EngineProofs` and `EngineReasonProofs`, for every number of checks, every kind, severity
and batch key, every pool width, batch size, mode and callback, under the module's three
assumptions (a completeness check is a conformance check with conditional evidence;
batch size and pool width are positive):

| Theorem | States | Argument |
|---|---|---|
| `TypeCorrect` | `[]TypeOK` | `TypeInv` = `TypeOK` with: the main thread awaits a check only in fail-fast mode, at a valid cursor (without it `slot[cursor]` may be outside its domain) |
| `NothingIsOmitted` | `[]NothingOmitted` | `LedgerInv` = `TypeInv`, `WorkInv` (only leaders hold a group, a finished group has settled every member, a settled check has a result of the contract) and `SlotInv` (which slots are filled at each position of the main thread: while it prepares, those before the cursor, except runnable checks left to the pool) |
| `EngineImplementsLedger` | `ImplementsLedger` | under `LedgerInv` each step settles one check, returns, fails, raises, or leaves the ledger alone |
| `QuietWhenDone` | `[]QuietOnExit` | `PoolInv` adds `QueryInv` (a query in flight belongs to a check at a query stage or to a batch that measures, and an active check to a running group) and `MainInv` (which groups may be at work at each position of the main thread) |
| `NeverRefused` | `[]ContractAccepts` | `ReasonInv` = `PoolInv`, `WhyInv` (a settled check whose coverage is lost carries a reason), `HeldInv` (what the main thread has taken over of a worker is still what the worker said) and `ShownInv` (once the main thread has come past such a check the reasons are not empty, and a returned document with a loss is partial) |
| `BudgetIsForgiven` | `[]BudgetIsNeverHard` | from `ReasonInv`: a check that timed out makes its run partial, and a partial run forgives it |
| `EveryVerdictIsMeasured` | `[]VerdictsAreMeasured` | `MeasureInv`: while events are accepted, a check past its measurement, or a group past its shared one, has a reported query behind it; `BatchInv`: only a real batch shares one |
| `StoppingIsExact` | `[]StopsAreExact` | `TellInv` = `ReasonInv`, `BatchInv`, `SaidInv` (which reason a worker may leave at each stage, and that a deadline it speaks of has passed), `ExplainInv` (where the main thread's account is whole, each gap so far has its own reason), and in a fail-fast run `StopInv` (one check at a time is at work, the one under the cursor; the check that stopped the run lies behind it and is hard) and `PassedInv` (the stop is reported exactly when a later check has been passed over) |
| `AccountsAreExact` | `[]ReasonsAreExact` | `AccountInv` = `TellInv`, `CodeInv` (codes against the reasons left aside; the deadline's only where the main thread has read the clock), `NotedInv` (the checks whose reason has been taken over) and `OrderInv` (a baseline reason in the list belongs to a check the current loop has passed, and to none behind the one that stopped the run) |

The last one corrected the property. Its first form wanted a baseline reason strictly
before the reasons of later checks; the step that stops a fail-fast run could not be
proved to keep it, and TLC showed why on a fail-fast suite with drift checks: a check
that has just lost its baseline may be the one that stops the run, and then both reasons
name it. `ReasonsInSuiteOrder` now says "not of an earlier check".

The key lemma of `NothingIsOmitted` and `EngineImplementsLedger` is that groups partition the runnable checks and
that each has exactly one leader, its least member (`OneLeader`, `HasLeader`), shown by a
least-element argument over the finite range of positions.

`ReportStoreProofs`, for every set of publishers, pruners, deleters, readers and runs,
every retention, and every choice of faults:

| Theorem | States | Argument |
|---|---|---|
| `StoreTyped` | `[]TypeOK` | with `RoleInv`: an actor's stage belongs to its kind |
| `LatestTellsHistory` | `[]LatestMatchesHistory` | `StoreInv` = `TypeOK`, `RoleInv`, `LockInv` (between the first and the last step of its critical section an actor holds the lock, and nobody else is in there), `DirInv` (a directory's link, its changes and its redaction fit together), `Agrees` (`latest` is whole and tells of its run what history tells) and, per actor, `Publishing`, `Pruning` and `Deleting`: what has been moved aside so far, and that putting it back gives a store that agrees again |
| `ChangesFitLink` | `[]ChangesAgainstPredecessor` | from `DirInv` |
| `HistoryKept` | `HistoryIsKept` | step by step from `StoreInv`: who writes holds the lock, and what is put back, or stays hidden, is what was taken |
| `LatestKept` | `LatestNeverLost` | from `StoreInv`: whoever lets go of the lock has put `latest` in place, or back, or left no run, or is stranded with what it hid untouched |
| `ReadersOpenSelected` | `ReaderOpensSelected`, when each publisher has a run of its own | `OwnInv`: every document in any directory, and every selection, is the one its publisher wrote |
| `RunsFormChain` | `[]ConcurrentRunsFormChain`, when each publisher has a run of its own, no fault is worse than an error that can be undone (`Faults \subseteq {"error"}`) and nobody deletes | `ChainInv`: the last run that became latest is in `latest`, or in the hands of the lock's holder who will put it back |

The conditions are those of the run `store_publish`, and each is needed. A crash between
two renames breaks the chain (`store_crash`, section 5), as does a rollback that fails,
and a deletion takes links out of it; a run that is published again keeps the link of its first publication; and after
a repeated publication a reader may hold another rendering of the run it selected.

`ReadGuardProofs`, for every set of calls, queries and reads, and every capacity, under
`GuardAssumption` (the constants have their types, the capacity is positive):

| Theorem | States | Argument |
|---|---|---|
| `GuardTypeCorrect` | `[]TypeOK`, with the bound on the cache | `MovedToEnd`: moving a key to the end lengthens the sequence only by a new key, and adds no other; `Inserted`: so an insertion stays within the capacity |
| `OnlyReadsAreAdmitted` | `[]AdmitsOnlyReads` | `CacheInv`: every cached key is a read, which a hit relies on |
| `ClosedClientsAreEmpty` | `[]NothingOutlivesClose` | inductive itself: `Lead` and the caching half of `Classified` test `closed` under the lock |
| `PreflightsAreShared` | `[]SharedPreflight` | `FlightInv` below: until the close, whoever classifies a key is the one in flight for it, and the key is not cached |
| `NobodyIsStranded` | `[]NobodyWaitsInVain` | `FlightInv` = `LeadersInv` (who is in flight is classifying that key, which is not cached, and has created an event), `OpenInv` (until the close, whoever classifies is in flight) and `WaitInv` (a waiter's event is set, or its leader is in flight for the waiter's key) |
| `GuardIsAlwaysSound` | `[]GuardIsSound` | the conjunction of three of them |

The probe, telemetry, and the parts of MCParts that keep state:

| Theorem | States, and for what | Argument |
|---|---|---|
| `ProbesStaySound` (`ProbeProofs`) | `[]ProbesAreSound`, for any callers, deadlines and servers whose edition is known (`ProbeAssumption`) | `TurnInv`: until the close, whoever owns the probe is the registered one and the list of durations is its own; `FindInv`: what a probe has found out by each of its stages, so that `Answer` caches only what is vetted; `VetInv` carries that to the cache and to who is ready |
| `TelemetryTyped` (`ServicesProofs`) | types, for any processes, roles, environments and sizes (`TelemetryAssumption`) | action by action |
| `RetiredForGood` | `RetiredIdsStayRetired` | `IdInv`: an active stored id is not retired, and an id a process may still mint is neither retired nor in the file nor in any record that was read; so a stale record written back never revives a retired id |
| `DeliveryStaysHonest` | `[]DeliveryIsHonest` | `DeliveryInv`, per process: until the stop, what is pending, unfinished, attempted and dropped adds up to what was offered, and `unfinished_tasks` is what is queued and in hand; afterwards at most one request is on its way |
| `CommandsStayInOrder` (`ServicesProofs`) | `[]CommandsEndInOrder`, for any set of the command line's commands (`ServicesAssumption`) | `ClientInv`: a connection is open only at steps that need one, artifacts are written from one step of `run` only, and one event is reported on the way from `finish` to `done`. It rests on `OrderOfSteps`: after a step comes the next one asked for, so nothing between a connection and its closing is left out |
| `RecordedOutcomesAreTrue` | `[]RecordedOutcomeIsOperational` | `RecordInv`: what the runtime has recorded is valid at every step, so that its validator accepts the event, and what it says of failure agrees with what has failed; for `run` the document may have failed before the runtime is told. The property leaves out `debug`, the commands without a decorator, and `generate` without its optional packages (section 5) |
| `RunsSeeOneBaseline` (`PartsProofs`) | `[]RunSeesOneBaseline`, for any writers, workers, references and horizon (`BaselinesAssumption`) | `RunInv`: an answer is the cached text, or error, of the cached path of its reference, and both are never changed in a run; who reads holds the provider's lock |
| `NamesAreKept` | `NamesKeepTheirMeaning`, for any writers, horizon, ids and answers | `StoreInv` for the snapshots; that the newest of a finite listing exists and another one is older is `MaxExists`, by well-foundedness of strict inclusion. `WriterInv` for the suites: the name the writer may withdraw carries its own suite |
| `ScoresStayHonest` | `ScoresAreHonest`, for lists of any length | `ScoreInv`: the two lists belong together. `TwoStatuses` and `ExitFacts`: a list is complete or partial, and what each exit code says of its results; `CodeKept`: what one more result does to it. `SharesAddUp`: the largest remainders hand out exactly what the divisions leave, since that is less than one point per check (`SumLinear`, `SumBelow`) and the ranks of a finite total order are the numbers below its size (`RanksAreApart`). `RoundingKeepsOrder`: rounding half to even is monotone, so more weight evaluated for the same weight passed never scores higher |
| `OnlyTheDisclosedIsSent` | `[]SentAsDisclosed`, for any ids, counts and answers | `TalkInv`: the context at each request is one that was told, and the number of requests is bounded by the attempt and by whether the client has repeated itself |
| `StoppingEarlyIsFinal` | `[]EarlyVerdictIsFinal`, for any rows, expectations a suite may declare, ceiling and length (`CompetencyAssumption`) | `ReadInv`: the rows are a prefix of the result, so a pointer among them is one of the result; a duplicate means a repetition, `missing` and `left` are what is wanted less what was seen. `RefutedForGood`: what refutes a prefix refutes every longer result; `PassedForGood`: what an early pass has established no further row can take away |
| `GeneratedSuiteIsExact` | `[]SuiteIsExact`, for any ids, numbers asked for and rounds (`GenerationAssumption`) | `SuiteInv`: what is retained so far is within what was asked for and without repetition, and a suite of ours on disk holds just that; `ProcessBatch` is a recursive function, so the step over a batch is an induction over its length |
| `ProfilesHideNothing` | `[]ProfileHidesNothing`, for any names, any growth of the graph, failures and budgets (`ProfilerAssumption`) | `ProfileInv`: what is measured at each stage is in what is collected or in the inventory, and its rows are in order and apart, so that the totals of a list and of the set it stands for agree |
| `EvidenceStaysWhole`, `QueriesFindWhatIsAsked`, `DiffsListWhatDrifted`, `SamplesStayFair`, `ProfilesStayTrue`, `GroupsStayComponents` | `[]EvidenceIsWhole`, `[]QueriesFindViolations`, `[]DiffListsWhatDrifted`, `[]SamplesAreFair`, `[]ProfileAgreesWithLive`, `[]GroupsAreComponents` | a question is never replaced (`QuestionInv`), every graph, profile, population, list of names, list of elements and measurement asked about meets the conditions of the theorems below, and these answer it. `PrimeAssumption`: the modulus of the hash is prime, as the code's 2^31 - 1 is (`engine/sampling.py:23`) |

`AlgorithmProofs`, for every input, however large:

| Theorem | States | Argument |
|---|---|---|
| `EvidenceListsEverything` | `EvidenceListsAll`, of any sequence of values, cap and count | an invariant of the pass over the sequence: what is listed is apart, retained, within the cap, and everything retained that came before unless the cap was hit |
| `VerdictsFollow` | `VerdictFollows`, of any elements, wherever the violations lie, for every kind of check, sampled or not, and any cap and sample size (the condition `AsksVerdict`) | `FoundIs`: what the sampling decision lets a query see. `MarkedIs`: picking marks the same places whatever lies there, so the candidates that match are the violations found. Per kind of check one lemma (`CoverageFollows`, `PlainFollows`, `ProvenanceFollows`, `SampledFollows`) carries the summary through to the verdict; `FoundIsNamed` and `CountsEvidence`: the evidence names all of them unless it says it is truncated; `BrokenRefused`: a row with more violations than elements is refused |
| `DriftsAreExplained` | `DriftExplained`, of any metric, two numbers and limits (`AsksDrift`) | `FailuresAre`: no failure means within every limit that is set; `ChangedIs`: what is added or removed between two inventories `1..m` and `1..n` is the numbers between them; `ListingCounts`: a listing of a finite set is as long as the set is large, by a bijection |
| `ProfilesMatchGraphs` | `ProfileAgrees`, of any finite graph, cap, labels and types | `BarsAddUp`: the bars of a histogram up to a degree are the nodes up to it, counted once; `PadRestores`: the pad of zeros gives back the histogram of all nodes. Of what is not recorded, either no path of the type exists, or the pair was dropped by the cap: a finite set can be sorted (`CanBeSorted`), so within the cap all of it is kept and the profile would say so. Rounding is off by half a unit at most (`CoveragesAgree`) |
| `SubsetsAreEquallyLikely` | `DrawsAreFair`, of any population and size | `EqualShares`: by induction over the draws, each prefix is spread evenly over the subsets it may have selected. Any member of a selection may have been the last one drawn (`LastDraw`), and each way in how many ways is the induction's |
| `RanksAreFourWiseIndependent` | `RanksAreIndependent`, of any prime and four values apart modulo it | the hash is a cubic modulo the prime (`HashIsCubic`); if two choices of coefficients gave one combination of ranks, their difference would have four roots, and `FourRoots` takes them out by divided differences, since a factor that is no multiple of the prime can be cancelled (`Cancelled`). So the ranks are apart and as many as the coefficients |
| `GroupsAreExact` | `GroupsAreConnected`, of any names, threshold and number of buckets | `BoundIsSound`: the overlap counts grams shared in either name, and those that are not shared fill at least the buckets of one mask that the other lacks. `RootsAreFound`: in a forest whose heights fall on the way up, the recursion finds the root. Each pair keeps a forest (`UnionIsForest`), joins only what similarity connects (`UnionConnects`: a set closed under similarity is a union of trees) and joins what is similar (`OneMorePair`); every pair has its turn (`EveryPairIsTaken`) |
| `DiffsListDrift` | `ListsWhatDrifted`, of any two profiles | extensionality, section by section: nothing added, removed or changed means equal functions |
| `ValueChecksAreExact` | `ValuesAreJudged`, of any finite graph and check | `NodePlanAgrees`: CASE WHEN and AND agree as soon as what violates is of the population, which is shown per check over the three truth values; `GroupsAddUp`: the violations of uniqueness, summed over the groups of equal values, are the nodes the evidence lists |
| `LinkChecksAreExact` | `LinksAreJudged`, of any finite graph, model and direction | degrees count relationships, and a degree is zero exactly when no relationship matches (`NoPaths`); a relationship looked at from its other end is the same one (`Reversed`) |
| `HubsAreExact` | `HubsStandOut`, of any finite graph and threshold | the squared comparison is monotone above the mean (`Products`) |
| `MajoritiesAreRight` | `MajorityIsRight`, of any finite set of vectors | the most frequent dimension exists and the least of them is taken (`MostExists`, `LeastExists`) |

A few lemmas carry these. No prover takes the library's induction theorems, which have an
operator as a parameter; `Induction` is the same principle for a set of numbers, shown
from the well-foundedness of `<`, and `StepsExist` gets from it that a recursive function
over a sequence satisfies its equation, which is what lets an invariant be carried along
it. Sums over finite sets are the fold of the community modules; `SumStep` says what one more
member adds, and `SetInduction`, induction over a finite set one member at a time, carries
it to the laws of sums (`SumLinear`, `SumGrows`, `SumCounts`, `SumBelow`).

Without their strengthening none of these invariants is inductive: the property speaks
of an end (a document, a cache, a verdict) and the invariant of what each stage on the
way there has already made sure of.

Every safety property of a passing run has a theorem. Only model-checked is termination, of
every kind (`Terminates`, `EveryPublisherEnds`, `EveryCallEnds`, `EveryProbeEnds`,
`ProcessesEnd`): liveness under fairness is outside the prover's reach.

## 5. Findings

* **A completeness batch can lose `RunFinished`** (`engine/runner.py:721`, run
  `batch_events`). The shared measurement is charged to the first member. A later member
  that passes without an evidence query is reported as completed with a query count of
  0, which `CheckProcessed` refuses (`telemetry/events.py:288`); the emitter disables
  itself and the normal return has no `RunFinished`.
* **A raising callback can lose `EngineFaulted`** (`engine/runner.py:1537`, run
  `fault_events`). Checks that have issued queries but are not recorded are reported as
  not run with a query count of 0, which the collector refuses.
* **A crash between two renames breaks the chain of runs**
  (`application/artifacts.py:202`, run `store_crash`). `latest` is moved aside before the
  new one takes its place; after a crash between the two, the next run is published
  without a link, although SPEC-01 says only the first one is.

Smaller observations that came with the modelling. They are not runs of their own; where
one limits a property, the property says so.

* `baseline set` without a name: its help says "defaults to the newest snapshot"
  (`cli.py:1159`), the code takes the one before it (`baselines.py:121`).
* `generate` without its optional packages exits with 2 and its event says success
  (`cli.py:56-67`, `805-811`), though a stage that was asked for did not operate
  (`docs/specifications/spec-10-telemetry-events.md:325-337`).
  `RecordedOutcomeIsOperational` leaves that exit out (`LacksPackages`).
* A competency query that stops early may turn a failure into the error
  `engine.evidence_missing` when the only rows that point at a graph entity are among
  those not read: `unique` over null, null, a node (`EarlyVerdictIsFinal` says so).
* A rename that should restore `latest`, or a deleted run, may fail in its turn
  (`artifacts.py:209`, `reporting/history.py:394`); what it was to restore then stays whole
  in a hidden directory that no listing shows (`LatestNeverLost`).
* A complete run whose only hard results are timeouts exits with 1; one more check that
  is a gap makes it partial, and it exits with 2 (`NeverFlatters` says so).
* `debug` ends with exit code 1 on an unexpected exception while its event says success:
  the handler records nothing. `RecordedOutcomeIsOperational` leaves it out.
* Two probes may be live after a `close` in the middle of one, and the first one's
  cleanup then frees the second's event. Nothing is stranded and nothing wrong is
  cached; `ProbesTakeTurns` therefore speaks of an open client.
* A drift check of property coverage with zero tolerance can fail on an unchanged graph:
  the profile keeps the percentage with two decimals and the live value is exact.
* A drift failure with no element to point at becomes an execution error,
  `engine.evidence_missing` (`DriftIsExplained` says when that is).
* A profile does not record the degrees of a label and type between which there is no
  relationship; a drift check of such a pair finds no baseline where the live value is 0
  (`ProfileAgreesWithLive` says so).

## 6. Not modelled

* **Redaction, HTML report, MCP server, health metrics**: they keep no state that other
  parts read, and what they say is wording and layout. That a redacted run stays
  redacted in `latest` and history is part of ReportStore.
* **Change comparison** (`reporting/changes.py`): a read-only comparison under the
  publication lock. Which run it is bound to is in ReportStore.
* **Inside the modelled parts**: durations and timings; the mapping of events to outbound
  telemetry and their HTTP form; the text of reasons and messages; result field presence
  and historical schemas; symbolic links and corrupt files in the runs directory;
  connection profiles, driver errors and the conversion of driver values; the selection
  and loading of suites; the patterns of the PII pack and the catalog; seeds, the
  order of equal ranks, the second hash that gates large populations and the Wilson
  interval (real arithmetic); prompts and the validation of one candidate;
  scaffolding of a project and rendering at the terminal.
* Reads and appends of one Python statement are one step, so the unlocked
  test-and-append of `_add_partial_code` (`engine/runner.py:1602`) is not split.
* Parts that share no state are explored side by side and not multiplied; the one
  composition that would add behaviour, the engine's queries as calls of ReadGuard, is in
  the plan.

## 7. Plan

1. **Engine over ReadGuard**: a query of Engine as a call of ReadGuard, with the engine's
   deadline as the deadline of the call.
2. **`load_changes`** as another reader of ReportStore.
