-------------------------------- MODULE Engine --------------------------------
(***************************************************************************)
(* One call of Engine.run (engine/runner.py): the main thread that         *)
(* prepares, hands out, records and closes; the pool workers that each     *)
(* take a group of checks through its queries; the monotonic deadline; and *)
(* the event stream checked by telemetry/collector.py.                     *)
(*                                                                         *)
(* A check is its position 1..NChecks in the selected universe.  A query   *)
(* is two steps, its submission (where the remaining budget is read) and   *)
(* its answer, so that the other workers and the deadline fall between.    *)
(***************************************************************************)
EXTENDS RunContract, Sequences, Functions

CONSTANTS
  NChecks,           \* number of selected checks
  Kind,              \* what each check makes the engine do
  Severity,          \* declared severity of each check
  Conditional,       \* checks whose plan has a conditional evidence query
  BatchKey,          \* (suite, label) of a built-in completeness check
  NoKey,             \* ... of every other check
  BatchSize,         \* COMPLETENESS_BATCH_SIZE
  MaxConcurrency,    \* EngineConfig.max_concurrency
  FailFast,          \* the fail_fast argument
  CallbackMayRaise   \* whether the progress callback can raise

Checks == 1..NChecks

Kinds == {"generated", "unsupported", "plain", "sampled", "tokens", "drift",
          "graphrag", "explosion"}

ASSUME CheckAssumption ==
  /\ NChecks \in Nat
  /\ Kind \in [Checks -> Kinds]
  /\ Severity \in [Checks -> Severities]
  /\ Conditional \subseteq Checks

(* A batch key belongs to a built-in completeness check: a conformance     *)
(* check with conditional evidence, never sampled nor a graphrag one.      *)
ASSUME BatchAssumption ==
  /\ DOMAIN BatchKey = Checks
  /\ \A i \in Checks : BatchKey[i] # NoKey => Kind[i] = "plain" /\ i \in Conditional
  /\ BatchSize \in Nat \ {0}

ASSUME ModeAssumption ==
  /\ MaxConcurrency \in Nat \ {0}
  /\ FailFast \in BOOLEAN
  /\ CallbackMayRaise \in BOOLEAN

VARIABLES
  main,       \* where the main thread is
  cursor,     \* the check the main thread looks at in its loops
  stop,       \* fail_fast_after: the check that stopped the run, or 0
  expired,    \* whether the monotonic clock has reached the deadline
  group,      \* progress of each group, kept at its first member
  pc,         \* stage each check has reached
  inflight,   \* checks with a query at the server
  outcome,    \* result a worker computed for each check
  why,        \* partial reason returned beside that outcome
  slot,       \* result_slots
  reasons,    \* partial_reasons
  status,     \* "running", then the run_status of the Results
  codes,      \* _telemetry_partial_codes
  sinkOpen,   \* EngineEventEmitter.enabled
  queries,    \* query events attributed to each check
  processed,  \* CheckProcessed accepted by the collector, by outcome
  terminal    \* terminal event accepted by the collector

control   == <<main, cursor, stop>>
work      == <<group, pc, inflight, outcome, why>>
document  == <<slot, reasons, status>>
telemetry == <<codes, sinkOpen, queries, processed, terminal>>
vars      == <<control, expired, work, document, telemetry>>

------------------------------------------------------------------------------
(* Reasons and results.                                                    *)

None == "none"

Reason(cause, i) == [cause |-> cause, check |-> i]

InputReason    == Reason("input", 0)
DeadlineReason == Reason("deadline", 0)
NoReason       == Reason(None, 0)

Causes == {None, "input", "deadline", "fail_fast", "unsupported",
           "baseline", "baseline_missing", "baseline_and_deadline"}
AllReasons == [cause : Causes, check : 0..NChecks]

Codes == {"input", "unsupported", "deadline", "baseline", "baseline_missing"}

(* _append_once                                                            *)
AppendOnce(s, r) == IF r \in Range(s) THEN s ELSE Append(s, r)

(* _is_hard_result *)
StopsFailFast(i, r) ==
  r = "fail" \/ (r = "errored" /\ Severity[i] = "error")

(* The deadline reason joins the one the check already carries.            *)
WithDeadline(i, r) ==
  IF r = NoReason THEN DeadlineReason ELSE Reason("baseline_and_deadline", i)

------------------------------------------------------------------------------
(* Groups of the worker pool: completeness checks of one suite and label   *)
(* share a group, BatchSize at a time, and every other check has its own.  *)

Runnable == {i \in Checks : Kind[i] \notin {"generated", "unsupported"}}

BatchRank(i) ==
  Cardinality({j \in Runnable : j < i /\ BatchKey[j] = BatchKey[i]}) \div BatchSize

GroupOf(i) ==
  IF FailFast \/ BatchKey[i] = NoKey THEN {i}
  ELSE {j \in Runnable : BatchKey[j] = BatchKey[i] /\ BatchRank(j) = BatchRank(i)}

IsLeader(g) == g \in Runnable /\ \A j \in GroupOf(g) : g <= j

Leaders == {g \in Runnable : IsLeader(g)}

IsBatch(g) == GroupOf(g) # {g}

Busy == {g \in Checks : group[g] \notin {"idle", "queued", "finished"}}

(* Members of a group run one after the other, in suite order.             *)
Turn(g, i) ==
  /\ i \in GroupOf(g)
  /\ pc[i] = "idle"
  /\ \A j \in GroupOf(g) : j < i => pc[j] = "settled"

GroupSettled(g) == \A i \in GroupOf(g) : pc[i] = "settled"

------------------------------------------------------------------------------
(* Event stream.  The first event that its model or the collector rejects  *)
(* disables the emitter for the rest of the run.                           *)

(* Processing outcome of a CheckProcessed event.                           *)
ProcessingOutcome(r) ==
  CASE r \in Measured -> "completed"
    [] r \in Errored  -> "engine_error"
    [] r = "model_absent" -> "unsupported"
    [] OTHER -> r

ProcessingOutcomes ==
  {"completed", "engine_error", "generated", "unsupported", "not_run"}

(* CheckProcessed's own validator with the collector's reconciliation: the *)
(* reported count is the engine's, n, and the collector has counted too.   *)
AcceptsProcessed(i, out, n) ==
  /\ processed[i] = None
  /\ n = queries[i]
  /\ out = "completed" => n > 0
  /\ out \notin {"completed", "engine_error"} => n = 0

EmitProcessed(i, r) ==
  LET out == ProcessingOutcome(r)
      ok  == sinkOpen /\ AcceptsProcessed(i, out, queries[i])
  IN  /\ processed' = IF ok THEN [processed EXCEPT ![i] = out] ELSE processed
      /\ sinkOpen' = ok

(* _emit_query: attributed to check i.                                     *)
EmitQuery(i) ==
  /\ queries' = IF sinkOpen THEN [queries EXCEPT ![i] = @ + 1] ELSE queries
  /\ sinkOpen' = (sinkOpen /\ processed[i] = None)
  /\ UNCHANGED <<processed, terminal>>

(* The model presence queries have the role target_probe, which no check   *)
(* owns.                                                                   *)
EmitFor(i) ==
  IF pc[i] \in {"presence", "nodecount"}
  THEN UNCHANGED <<queries, sinkOpen, processed, terminal>>
  ELSE EmitQuery(i)

(* _emit_unprocessed_as_not_run: in suite order, each with query_count 0.  *)
Unprocessed == {i \in Checks : processed[i] = None}
Unreconciled == {i \in Unprocessed : queries[i] > 0}

SweptAsNotRun ==
  [i \in Checks |->
     IF sinkOpen /\ i \in Unprocessed /\ \A j \in Unreconciled : i < j
     THEN "not_run" ELSE processed[i]]

(* RunFinished's counters against the CheckProcessed events.               *)
Reconciles(swept, counted) ==
  /\ \A i \in Checks : swept[i] # None
  /\ \A out \in ProcessingOutcomes :
       Cardinality({i \in Checks : swept[i] = out})
         = Cardinality({i \in Checks : counted[i] = out})

EmitTerminal(kind, ok) ==
  LET accepted == sinkOpen /\ Unreconciled = {} /\ ok
  IN  /\ processed' = SweptAsNotRun
      /\ sinkOpen' = accepted
      /\ terminal' = IF accepted THEN kind ELSE terminal
      /\ UNCHANGED queries

------------------------------------------------------------------------------
Init ==
  /\ main = "probe"
  /\ cursor = 1
  /\ stop = 0
  /\ expired = FALSE
  /\ group = [i \in Checks |-> "idle"]
  /\ pc = [i \in Checks |-> "idle"]
  /\ inflight = {}
  /\ outcome = [i \in Checks |-> None]
  /\ why = [i \in Checks |-> NoReason]
  /\ slot = [i \in Checks |-> None]
  /\ status = "running"
  (* An unreadable suite source or a missing suite taints the run at once. *)
  /\ \/ reasons = <<>> /\ codes = {}
     \/ reasons = <<InputReason>> /\ codes = {"input"}
  /\ sinkOpen = TRUE
  /\ queries = [i \in Checks |-> 0]
  /\ processed = [i \in Checks |-> None]
  /\ terminal = None

(* The monotonic clock reaches the deadline.                               *)
Expire ==
  /\ ~expired
  /\ main \notin {"returned", "raised"}
  /\ expired' = TRUE
  /\ UNCHANGED <<control, work, document, telemetry>>

------------------------------------------------------------------------------
(* The main thread before any check runs.                                  *)

ProbeTarget ==
  /\ main = "probe"
  /\ main' = "prepare"
  /\ UNCHANGED <<cursor, stop, expired, work, document, telemetry>>

(* _failed_run: duplicate suites, an unreachable target, a spent budget.   *)
FailRun ==
  /\ main = "probe"
  /\ main' = "returned"
  /\ status' = "failed"
  /\ EmitTerminal("finished",
       Reconciles(SweptAsNotRun, [i \in Checks |-> "not_run"]))
  /\ UNCHANGED <<cursor, stop, expired, work, slot, reasons, codes>>

(* record_result: the slot, the event, then the progress callback.         *)
RecordResult(i, r) ==
  /\ slot' = [slot EXCEPT ![i] = r]
  /\ EmitProcessed(i, r)
  /\ UNCHANGED <<queries, terminal, status>>

CallbackRaises ==
  /\ CallbackMayRaise
  /\ main' = "unwinding"
  /\ UNCHANGED <<cursor, stop, reasons, codes>>

AppendReason(s, r) == IF r = NoReason THEN s ELSE AppendOnce(s, r)

(* A check that prepare or the fail-fast loop settles without a worker.    *)
Skip(r, reason, code) ==
  /\ RecordResult(cursor, r)
  /\ \/ /\ cursor' = cursor + 1
        /\ reasons' = AppendReason(reasons, reason)
        /\ codes' = codes \cup code
        /\ UNCHANGED <<main, stop>>
     \/ CallbackRaises
  /\ UNCHANGED <<expired, work>>

Preparing == main = "prepare" /\ cursor \in Checks

SkipStopped ==
  /\ Preparing
  /\ stop # 0
  /\ Skip("not_run", Reason("fail_fast", stop), {})

SkipGenerated ==
  /\ Preparing
  /\ stop = 0
  /\ Kind[cursor] = "generated"
  /\ Skip("generated", NoReason, {})

(* Mutant: an unsupported check leaves no reason.                          *)
BugSkipUnsupported ==
  /\ Preparing
  /\ stop = 0
  /\ Kind[cursor] = "unsupported"
  /\ Skip("unsupported", NoReason, {})

SkipUnsupported ==
  /\ Preparing
  /\ stop = 0
  /\ Kind[cursor] = "unsupported"
  /\ Skip("unsupported", Reason("unsupported", cursor), {"unsupported"})

SkipLate ==
  /\ Preparing
  /\ FailFast
  /\ stop = 0
  /\ cursor \in Runnable
  /\ expired
  /\ Skip("not_run", DeadlineReason, {"deadline"})

(* Mutant: a runnable check runs although the run has been stopped.        *)
BugRunNext ==
  /\ Preparing
  /\ FailFast
  /\ cursor \in Runnable
  /\ ~expired
  /\ main' = "await"
  /\ group' = [group EXCEPT ![cursor] = "solo"]
  /\ UNCHANGED <<cursor, stop, expired, pc, inflight, outcome, why, document, telemetry>>

(* fail-fast runs the check on the main thread before it looks further.    *)
RunNext ==
  /\ Preparing
  /\ FailFast
  /\ stop = 0
  /\ cursor \in Runnable
  /\ ~expired
  /\ main' = "await"
  /\ group' = [group EXCEPT ![cursor] = "solo"]
  /\ UNCHANGED <<cursor, stop, expired, pc, inflight, outcome, why, document, telemetry>>

(* Otherwise every runnable check is collected first.                      *)
Collect ==
  /\ Preparing
  /\ ~FailFast
  /\ cursor \in Runnable
  /\ cursor' = cursor + 1
  /\ UNCHANGED <<main, stop, expired, work, document, telemetry>>

SubmitGroups ==
  /\ main = "prepare"
  /\ cursor > NChecks
  /\ ~FailFast
  /\ main' = "pool"
  /\ group' = [i \in Checks |-> IF IsLeader(i) THEN "queued" ELSE "idle"]
  /\ UNCHANGED <<cursor, stop, expired, pc, inflight, outcome, why, document, telemetry>>

------------------------------------------------------------------------------
(* Workers.  A group starts when one is free, in submission order; with    *)
(* max_concurrency 1 there is no pool and the main thread runs a group and *)
(* records it before the next.                                             *)

Pooled == MaxConcurrency > 1

GroupRecorded(g) == \A i \in GroupOf(g) : slot[i] # None

WorkerFree(g) ==
  IF Pooled
  THEN /\ Cardinality(Busy) < MaxConcurrency
       /\ \A h \in Leaders : h < g => group[h] # "queued"
  ELSE \A h \in Leaders : h < g => GroupRecorded(h)

StartGroup(g) ==
  /\ group[g] = "queued"
  /\ main = "pool" \/ (main = "unwinding" /\ Pooled)
  /\ WorkerFree(g)
  /\ group' = [group EXCEPT ![g] = IF IsBatch(g) /\ ~expired THEN "batch" ELSE "solo"]
  /\ UNCHANGED <<control, expired, pc, inflight, outcome, why, document, telemetry>>

(* Mutant: with the budget spent, the batch is taken as measured.          *)
BugBeginBatch(g) ==
  /\ group[g] = "batch"
  /\ g \notin inflight
  /\ IF expired
     THEN /\ group' = [group EXCEPT ![g] = "shared"]
          /\ UNCHANGED inflight
     ELSE /\ inflight' = inflight \cup {g}
          /\ UNCHANGED group
  /\ UNCHANGED <<control, expired, pc, outcome, why, document, telemetry>>

(* The shared transaction and its measurement, charged to the first member.*)
BeginBatch(g) ==
  /\ group[g] = "batch"
  /\ g \notin inflight
  /\ \/ /\ expired
        /\ group' = [group EXCEPT ![g] = "fan_timeout"]
        /\ UNCHANGED inflight
     \/ /\ group' = [group EXCEPT ![g] = "fan_error"]
        /\ UNCHANGED inflight
     \/ /\ ~expired
        /\ inflight' = inflight \cup {g}
        /\ UNCHANGED group
  /\ UNCHANGED <<control, expired, pc, outcome, why, document, telemetry>>

EndBatch(g) ==
  /\ group[g] = "batch"
  /\ g \in inflight
  /\ inflight' = inflight \ {g}
  /\ \E next \in {"shared", "fan_error", "fan_timeout"} :
       group' = [group EXCEPT ![g] = next]
  /\ EmitQuery(g)
  /\ UNCHANGED <<control, expired, pc, outcome, why, document, codes>>

(* The worker's result for check i.                                        *)
Settle(i, r, reason) ==
  /\ pc' = [pc EXCEPT ![i] = "settled"]
  /\ outcome' = [outcome EXCEPT ![i] = r]
  /\ why' = [why EXCEPT ![i] = reason]

(* _run_check's handler of a timeout: the clock, read now, tells the run's *)
(* own budget from any other.                                              *)
SettleTimeout(i) ==
  IF expired
  THEN /\ Settle(i, "timeout", WithDeadline(i, why[i]))
       /\ codes' = codes \cup {"deadline"}
  ELSE /\ Settle(i, "errored", why[i])
       /\ UNCHANGED codes

Advance(i, stage) ==
  /\ pc' = [pc EXCEPT ![i] = stage]
  /\ UNCHANGED <<outcome, why>>

(* _run_check_if_time for a check that shares nothing.                     *)
StartCheck(g, i) ==
  /\ group[g] = "solo"
  /\ Turn(g, i)
  /\ IF expired THEN Settle(i, "not_run", DeadlineReason)
     ELSE IF Kind[i] \in {"graphrag", "explosion"}
          THEN Advance(i, "presence") \/ Settle(i, "model_absent", NoReason)
          ELSE Advance(i, "compile")
  /\ UNCHANGED <<control, expired, group, inflight, document, telemetry>>

(* ... for a member of a batch, whose measurement is already there.        *)
StartMember(g, i) ==
  /\ group[g] = "shared"
  /\ Turn(g, i)
  /\ \E stage \in {"evidence", "evaluate"} : Advance(i, stage)
  /\ UNCHANGED <<control, expired, group, inflight, document, telemetry>>

(* ... and for a member of a batch that failed as a whole.                 *)
FailMember(g, i) ==
  /\ Turn(g, i)
  /\ \/ /\ group[g] = "fan_error"
        /\ Settle(i, "errored", why[i])
        /\ UNCHANGED codes
     \/ /\ group[g] = "fan_timeout"
        /\ SettleTimeout(i)
  /\ UNCHANGED <<control, expired, group, inflight, document,
                 sinkOpen, queries, processed, terminal>>

AfterCompile(i) ==
  CASE Kind[i] = "tokens"  -> "params"
    [] Kind[i] = "sampled" -> "population"
    [] Kind[i] = "drift"   -> "baseline"
    [] OTHER               -> "measure"

Compile(i) ==
  /\ pc[i] = "compile"
  /\ \/ Advance(i, AfterCompile(i))
     \/ Settle(i, "errored", NoReason)
  /\ UNCHANGED <<control, expired, group, inflight, document, telemetry>>

(* require_baseline: found, found in a partial snapshot, not collected by  *)
(* a partial snapshot, or missing.                                         *)
ReadBaseline(i) ==
  /\ pc[i] = "baseline"
  /\ \/ Advance(i, "measure") /\ UNCHANGED codes
     \/ /\ pc' = [pc EXCEPT ![i] = "measure"]
        /\ why' = [why EXCEPT ![i] = Reason("baseline", i)]
        /\ codes' = codes \cup {"baseline"}
        /\ UNCHANGED outcome
     \/ /\ Settle(i, "errored", Reason("baseline_missing", i))
        /\ codes' = codes \cup {"baseline_missing"}
     \/ Settle(i, "errored", NoReason) /\ UNCHANGED codes
  /\ UNCHANGED <<control, expired, group, inflight, document,
                 sinkOpen, queries, processed, terminal>>

QueryStages == {"presence", "nodecount", "params", "population", "measure", "evidence"}

(* _remaining: a spent budget raises instead of submitting.  Only the      *)
(* token resolver reports an event for that.                               *)
BeginQuery(i) ==
  /\ pc[i] \in QueryStages
  /\ i \notin inflight
  /\ IF expired
     THEN /\ SettleTimeout(i)
          /\ IF pc[i] = "params" THEN EmitQuery(i)
             ELSE UNCHANGED <<sinkOpen, queries, processed, terminal>>
          /\ UNCHANGED inflight
     ELSE /\ inflight' = inflight \cup {i}
          /\ UNCHANGED <<pc, outcome, why, telemetry>>
  /\ UNCHANGED <<control, expired, group, document>>

(* Stages that may follow a query whose answer is usable.                  *)
AfterQuery(i) ==
  CASE pc[i] = "presence" -> IF Kind[i] = "explosion" THEN {"nodecount"} ELSE {"compile"}
    [] pc[i] = "nodecount" -> {"compile"}
    [] pc[i] = "measure" -> {"evaluate"} \cup (IF i \in Conditional THEN {"evidence"} ELSE {})
    [] pc[i] = "evidence" -> {"evaluate"}
    [] OTHER -> {"measure"}

EndQuery(i) ==
  /\ pc[i] \in QueryStages
  /\ i \in inflight
  /\ inflight' = inflight \ {i}
  /\ EmitFor(i)
  /\ \/ (\E stage \in AfterQuery(i) : Advance(i, stage)) /\ UNCHANGED codes
     \/ /\ pc[i] \in {"presence", "nodecount"}
        /\ Settle(i, "model_absent", NoReason)
        /\ UNCHANGED codes
     \/ Settle(i, "errored", why[i]) /\ UNCHANGED codes
     \/ SettleTimeout(i)
  /\ UNCHANGED <<control, expired, group, document>>

(* The evaluator's verdict, or its failure; a check's own read transaction *)
(* ends here and may fail to.                                              *)
Evaluate(g, i) ==
  /\ i \in GroupOf(g)
  /\ pc[i] = "evaluate"
  /\ \/ /\ \E passed \in BOOLEAN : Settle(i, VerdictOf(passed, Severity[i]), why[i])
        /\ UNCHANGED codes
     \/ Settle(i, "errored", why[i]) /\ UNCHANGED codes
     \/ i \in Conditional /\ group[g] = "solo" /\ SettleTimeout(i)
  /\ UNCHANGED <<control, expired, group, inflight, document,
                 sinkOpen, queries, processed, terminal>>

FinishGroup(g) ==
  /\ g \in Busy
  /\ group[g] # "batch"
  /\ GroupSettled(g)
  /\ group' = [group EXCEPT ![g] = "finished"]
  /\ UNCHANGED <<control, expired, pc, inflight, outcome, why, document, telemetry>>

(* Mutant: the members are run again on the measurement of the failed      *)
(* transaction.                                                            *)
BugBreakBatch(g) ==
  /\ group[g] = "shared"
  /\ GroupSettled(g)
  /\ pc' = [i \in Checks |-> IF i \in GroupOf(g) THEN "idle" ELSE pc[i]]
  /\ outcome' = [i \in Checks |-> IF i \in GroupOf(g) THEN None ELSE outcome[i]]
  /\ why' = [i \in Checks |-> IF i \in GroupOf(g) THEN NoReason ELSE why[i]]
  /\ UNCHANGED <<control, expired, group, inflight, document, telemetry>>

(* The shared transaction fails on its way out: every member runs again    *)
(* with that failure.                                                      *)
BreakBatch(g) ==
  /\ group[g] = "shared"
  /\ GroupSettled(g)
  /\ \E fan \in {"fan_error", "fan_timeout"} : group' = [group EXCEPT ![g] = fan]
  /\ pc' = [i \in Checks |-> IF i \in GroupOf(g) THEN "idle" ELSE pc[i]]
  /\ outcome' = [i \in Checks |-> IF i \in GroupOf(g) THEN None ELSE outcome[i]]
  /\ why' = [i \in Checks |-> IF i \in GroupOf(g) THEN NoReason ELSE why[i]]
  /\ UNCHANGED <<control, expired, inflight, document, telemetry>>

------------------------------------------------------------------------------
(* The main thread records and closes.                                     *)

(* record_group: one finished group at a time, its members in suite order. *)
MayRecord(g, i) ==
  /\ i \in GroupOf(g)
  /\ group[g] = "finished"
  /\ slot[i] = None
  /\ \A j \in GroupOf(g) : j < i => slot[j] # None
  /\ \A h \in Leaders \ {g} :
       GroupRecorded(h) \/ \A j \in GroupOf(h) : slot[j] = None

(* Mutant: reasons join as the groups complete.                            *)
BugRecordMember(g, i) ==
  /\ main = "pool"
  /\ MayRecord(g, i)
  /\ RecordResult(i, outcome[i])
  /\ \/ /\ reasons' = AppendReason(reasons, why[i])
        /\ UNCHANGED <<main, cursor, stop, codes>>
     \/ CallbackRaises
  /\ UNCHANGED <<expired, work>>

RecordMember(g, i) ==
  /\ main = "pool"
  /\ MayRecord(g, i)
  /\ RecordResult(i, outcome[i])
  /\ UNCHANGED <<main, cursor, stop, reasons, codes>> \/ CallbackRaises
  /\ UNCHANGED <<expired, work>>

(* Mutant: the run closes when the groups have finished, recorded or not.  *)
BugClosePool ==
  /\ main = "pool"
  /\ \A g \in Leaders : group[g] = "finished"
  /\ main' = "collect"
  /\ cursor' = 1
  /\ UNCHANGED <<stop, expired, work, document, telemetry>>

ClosePool ==
  /\ main = "pool"
  /\ \A g \in Leaders : GroupRecorded(g)
  /\ main' = "collect"
  /\ cursor' = 1
  /\ UNCHANGED <<stop, expired, work, document, telemetry>>

(* Outcome reasons join in suite order, whatever order the groups ended in.*)
CollectReason ==
  /\ main = "collect"
  /\ cursor \in Checks
  /\ reasons' = AppendReason(reasons, why[cursor])
  /\ cursor' = cursor + 1
  /\ UNCHANGED <<main, stop, expired, work, slot, status, telemetry>>

NoteDeadline(s, ran) ==
  IF ran /\ expired
  THEN /\ reasons' = AppendOnce(s, DeadlineReason)
       /\ codes' = codes \cup {"deadline"}
  ELSE /\ reasons' = s
       /\ UNCHANGED codes

CloseReasons ==
  /\ main = "collect"
  /\ cursor > NChecks
  /\ main' = "close"
  /\ NoteDeadline(reasons, Runnable # {})
  /\ UNCHANGED <<cursor, stop, expired, work, slot, status,
                 sinkOpen, queries, processed, terminal>>

(* fail-fast records each check before it looks at the next.               *)
RecordNext ==
  /\ main = "await"
  /\ group[cursor] = "finished"
  /\ RecordResult(cursor, outcome[cursor])
  /\ \/ /\ main' = "prepare"
        /\ cursor' = cursor + 1
        /\ stop' = IF StopsFailFast(cursor, outcome[cursor]) THEN cursor ELSE stop
        /\ NoteDeadline(AppendReason(reasons, why[cursor]), TRUE)
     \/ CallbackRaises
  /\ UNCHANGED <<expired, work>>

CloseLoop ==
  /\ main = "prepare"
  /\ cursor > NChecks
  /\ FailFast
  /\ main' = "close"
  /\ UNCHANGED <<cursor, stop, expired, work, document, telemetry>>

RunStatus == IF reasons = <<>> THEN "complete" ELSE "partial"

Recorded == {i \in Checks : slot[i] # None}

(* The Results document and RunFinished; a document its own contract       *)
(* refuses is an exception instead.                                        *)
CloseRun ==
  /\ main = "close"
  /\ IF Accepts(RunStatus, Recorded, slot)
     THEN /\ main' = "returned"
          /\ status' = RunStatus
          /\ EmitTerminal("finished",
               Reconciles(SweptAsNotRun, [i \in Checks |-> ProcessingOutcome(slot[i])]))
     ELSE /\ main' = "unwinding"
          /\ UNCHANGED <<status, sinkOpen, queries, processed, terminal>>
  /\ UNCHANGED <<cursor, stop, expired, work, slot, reasons, codes>>

(* Mutant: the pool is left without waiting.                               *)
BugPoolDrained == TRUE

(* Leaving the pool's context waits for every group, the ones still queued *)
(* included; then EngineFaulted, and the exception reaches the caller.     *)
PoolDrained ==
  \A g \in Checks : group[g] \in {"idle", "finished"} \/ (~Pooled /\ group[g] = "queued")

RaiseFault ==
  /\ main = "unwinding"
  /\ PoolDrained
  /\ main' = "raised"
  /\ EmitTerminal("faulted", TRUE)
  /\ UNCHANGED <<cursor, stop, expired, work, document, codes>>

Ended ==
  /\ main \in {"returned", "raised"}
  /\ UNCHANGED vars

------------------------------------------------------------------------------
MainStep ==
  \/ ProbeTarget \/ FailRun
  \/ SkipStopped \/ SkipGenerated \/ SkipUnsupported \/ SkipLate
  \/ RunNext \/ Collect \/ SubmitGroups
  \/ \E g, i \in Checks : RecordMember(g, i)
  \/ ClosePool \/ CollectReason \/ CloseReasons
  \/ RecordNext \/ CloseLoop
  \/ CloseRun \/ RaiseFault

CheckStep(g, i) ==
  \/ StartCheck(g, i) \/ StartMember(g, i) \/ FailMember(g, i)
  \/ Evaluate(g, i)

StageStep(i) == Compile(i) \/ ReadBaseline(i) \/ BeginQuery(i) \/ EndQuery(i)

GroupStep(g) ==
  \/ StartGroup(g) \/ BeginBatch(g) \/ EndBatch(g)
  \/ FinishGroup(g) \/ BreakBatch(g)

Next ==
  \/ Expire
  \/ MainStep
  \/ \E g, i \in Checks : CheckStep(g, i)
  \/ \E i \in Checks : StageStep(i)
  \/ \E g \in Checks : GroupStep(g)
  \/ Ended

(* The scheduler runs every thread, and every query is answered: each is   *)
(* submitted with a timeout.  The deadline itself need not come.           *)
Fairness ==
  /\ WF_vars(MainStep)
  /\ \A g \in Checks : WF_vars(GroupStep(g))
  /\ \A i \in Checks : WF_vars(StageStep(i))
  /\ \A g, i \in Checks : WF_vars(CheckStep(g, i))

Spec == Init /\ [][Next]_vars

FairSpec == Spec /\ Fairness

------------------------------------------------------------------------------
(* Correctness.                                                            *)

MainStates == {"probe", "prepare", "await", "pool", "collect", "close",
               "unwinding", "returned", "raised"}
GroupStates == {"idle", "queued", "solo", "batch", "shared",
                "fan_error", "fan_timeout", "finished"}
Stages == QueryStages \cup {"idle", "compile", "baseline", "evaluate", "settled"}

(* Every variable of Engine.run keeps its type.                            *)
TypeOK ==
  /\ main \in MainStates
  /\ cursor \in 1..(NChecks + 1)
  /\ stop \in 0..NChecks
  /\ expired \in BOOLEAN
  /\ group \in [Checks -> GroupStates]
  /\ pc \in [Checks -> Stages]
  /\ inflight \subseteq Checks
  /\ outcome \in [Checks -> Results \cup {None}]
  /\ why \in [Checks -> AllReasons]
  /\ slot \in [Checks -> Results \cup {None}]
  /\ reasons \in Seq(AllReasons)
  /\ status \in RunStatuses \cup {"running"}
  /\ codes \subseteq Codes
  /\ sinkOpen \in BOOLEAN
  /\ queries \in [Checks -> Nat]
  /\ processed \in [Checks -> ProcessingOutcomes \cup {None}]
  /\ terminal \in {None, "finished", "faulted"}

Returned == main = "returned"
Reported == Returned /\ status # "failed"
Exit == ExitCode(status, Recorded, slot, Severity)
Given(cause) == \E k \in DOMAIN reasons : reasons[k].cause = cause

(* Returned documents leave no check out (runner.py filters None slots out *)
(* silently), and nothing is still at work for them: no query in flight,   *)
(* no group unfinished, in a pool that raises as in one that returns       *)
(* (execute_run closes the client right after).                            *)
NothingOmitted == Reported => Recorded = Checks

QuietOnExit ==
  main \in {"returned", "raised"} => inflight = {} /\ Busy = {}

(* Each gap in coverage and each budget timeout is explained by a reason   *)
(* of the run: lost coverage is never silent.                              *)
Explained(i) ==
  CASE slot[i] = "unsupported" -> Reason("unsupported", i) \in Range(reasons)
    [] slot[i] = "not_run" ->
         \/ DeadlineReason \in Range(reasons)
         \/ \E j \in Checks : j < i /\ Reason("fail_fast", j) \in Range(reasons)
    [] slot[i] = "timeout" -> DeadlineReason \in Range(reasons)
    [] OTHER -> TRUE

GapsExplained == Reported => \A i \in Checks : Explained(i)

(* partial_reason reads in suite order whatever order the workers finished *)
(* in; the stop of a fail-fast run may name the check that has just lost   *)
(* its baseline.                                                           *)
ReasonsInSuiteOrder ==
  \A p, q \in DOMAIN reasons :
    /\ p < q
    /\ reasons[p].cause \in {"baseline", "baseline_missing", "baseline_and_deadline"}
    /\ reasons[q].check # 0
    => reasons[p].check <= reasons[q].check

(* The partial codes of RunFinished, gathered by workers as they go, say   *)
(* what partial_reason, gathered by the main thread afterwards, says.      *)
CodesMatchReasons ==
  Reported =>
    /\ "input" \in codes <=> Given("input")
    /\ "unsupported" \in codes <=> Given("unsupported")
    /\ "deadline" \in codes <=> Given("deadline")
    /\ "baseline" \in codes <=> Given("baseline") \/ Given("baseline_and_deadline")
    /\ "baseline_missing" \in codes <=> Given("baseline_missing")

(* Together: why a run is partial reads the same whatever order the workers*)
(* finished in, and the reasons and the codes never drift apart            *)
(* (runner.py:600-670, 1601).                                              *)
ReasonsAreExact == ReasonsInSuiteOrder /\ CodesMatchReasons

(* Exit 1 comes from a finding or from an error of a check, never from the *)
(* run's own budget (SPEC-04: a budget timeout exits 2).                   *)
BudgetIsNeverHard ==
  Reported /\ Exit = 1 =>
    \E i \in Checks : slot[i] = "fail" \/ (slot[i] = "errored" /\ Severity[i] = "error")

(* A verdict rests on a measurement that the events show: the check's own, *)
(* or the one its batch shares.                                            *)
Measurement(i) ==
  \E j \in GroupOf(i) : (\A k \in GroupOf(i) : j <= k) /\ queries[j] > 0

VerdictsAreMeasured ==
  sinkOpen => \A i \in Runnable : outcome[i] \in Measured => Measurement(i)

(* The contract never refuses the document the engine has built: a refusal *)
(* would turn a finished run into an exception.                            *)
ContractAccepts == main = "close" => Accepts(RunStatus, Recorded, slot)

(* After a hard result no later check of a fail-fast run is even started.  *)
FailFastStops ==
  FailFast =>
    \A i, j \in Checks :
      i < j /\ slot[i] # None /\ StopsFailFast(i, slot[i]) =>
        /\ pc[j] = "idle"
        /\ queries[j] = 0
        /\ slot[j] \in {None, "not_run"}

(* ... and stopping is reported exactly when it lost coverage: a hard      *)
(* result on the last check leaves no fail-fast reason.                    *)
StopReportedIffCoverageLost ==
  FailFast /\ Reported =>
    (Given("fail_fast") <=>
       \E i, j \in Checks : i < j /\ StopsFailFast(i, slot[i]) /\ slot[j] = "not_run")

(* Together: a fail-fast run stops at once, says so exactly when stopping  *)
(* lost something, and leaves no other gap unexplained                     *)
(* (runner.py:514-616).                                                    *)
StopsAreExact == FailFastStops /\ StopReportedIffCoverageLost /\ GapsExplained

(* A normal return has exactly one RunFinished, and it and the stream of   *)
(* CheckProcessed agree with the results (SPEC-10, invariants 3, 4, 11).   *)
ReturnHasRunFinished ==
  Returned =>
    /\ terminal = "finished"
    /\ status # "failed" => \A i \in Checks : processed[i] = ProcessingOutcome(slot[i])

(* An exception that leaves the engine is reported (SPEC-10, EngineFaulted)*)
(* after one CheckProcessed for every check.                               *)
FaultIsReported ==
  main = "raised" => terminal = "faulted" /\ \A i \in Checks : processed[i] # None

(* Every call ends.                                                        *)
Terminates == <>(main \in {"returned", "raised"})

(* Engine.run implements the ledger it promises.                           *)
Ledger == INSTANCE RunLedger WITH
  Checks <- Checks, Unsettled <- None, ledger <- slot, status <- status,
  call <- IF main \in {"returned", "raised"} THEN main ELSE "open"

ImplementsLedger == Ledger!Spec
==============================================================================
