--------------------------- MODULE EngineReasonProofs ---------------------------
(***************************************************************************)
(* Theorems about what a run of Engine tells: that a verdict rests on a    *)
(* measurement, that a fail-fast run stops at once and says so exactly     *)
(* when that lost something, that no gap is left unexplained, and that the *)
(* reasons and the codes of a partial run are the same account of it.      *)
(***************************************************************************)
EXTENDS EngineProofs

------------------------------------------------------------------------------
(* Measurements.                                                           *)

Batching == {"batch", "shared", "fan_error", "fan_timeout"}
Verdicts == {"evidence", "evaluate"}

(* A group shares a transaction only if it has several members, and such a *)
(* group runs its members on their own only when the budget is spent.      *)
BatchInv ==
  \A g \in Checks :
    /\ group[g] \in Batching => IsBatch(g)
    /\ group[g] = "solo" /\ IsBatch(g) => expired

(* While the stream is open, a shared measurement is charged to its        *)
(* leader, and nobody judges or has judged without one; a check that runs  *)
(* queries before its verdict shares with nobody.                          *)
MeasureInv ==
  /\ \A i \in Checks : pc[i] \notin {"idle", "settled"} \cup Verdicts => GroupOf(i) = {i}
  /\ sinkOpen => \A g \in Checks : group[g] = "shared" => queries[g] > 0
  /\ sinkOpen => \A i \in Checks :
       pc[i] \in Verdicts \/ outcome[i] \in Measured => Measurement(i)

LEMMA MeasureInit == Init => BatchInv /\ MeasureInv
BY DEF Init, BatchInv, MeasureInv, Batching, Verdicts, None, Measured

LEMMA GroupsOfChecks ==
  ASSUME NEW i \in Checks
  PROVE  GroupOf(i) \subseteq Checks
BY DEF GroupOf, Runnable

(* The stream never opens again, and its counts never fall.                *)
EventsGrow == (sinkOpen' => sinkOpen) /\ \A j \in Checks : queries[j] <= queries'[j]

LEMMA EmittedQuery ==
  ASSUME TypeOK, NEW i \in Checks, EmitQuery(i)
  PROVE  EventsGrow /\ (sinkOpen' => queries'[i] > 0)
BY DEF EmitQuery, EventsGrow, TypeOK

LEMMA QuietStream ==
  ASSUME TypeOK, UNCHANGED <<sinkOpen, queries>>
  PROVE  EventsGrow
BY DEF EventsGrow, TypeOK

LEMMA MeasurementLasts ==
  ASSUME TypeOK, TypeOK', EventsGrow, NEW i \in Checks, Measurement(i)
  PROVE  Measurement(i)'
<1>1. PICK j \in GroupOf(i) : (\A k \in GroupOf(i) : j <= k) /\ queries[j] > 0
  BY DEF Measurement
<1>2. j \in Checks
  BY GroupsOfChecks
<1>3. queries[j] \in Nat /\ queries'[j] \in Nat /\ queries[j] <= queries'[j]
  BY <1>2 DEF EventsGrow, TypeOK
<1> QED
  BY <1>1, <1>3 DEF Measurement

LEMMA OwnMeasurement ==
  ASSUME NEW i \in Checks, GroupOf(i) = {i}, queries[i] > 0
  PROVE  Measurement(i)
BY DEF Measurement, Checks

(* The measurement of a leader is one of every member of its group.        *)
LEMMA LeaderMeasurement ==
  ASSUME NEW g \in Leaders, NEW i \in GroupOf(g), queries[g] > 0
  PROVE  Measurement(i)
<1>1. GroupOf(i) = GroupOf(g) /\ g \in GroupOf(g)
  BY SameGroup, GroupMember DEF Leaders
<1> QED
  BY <1>1 DEF Measurement, Leaders, IsLeader

(* A group that is not batching and whose budget is not spent is a single. *)
LEMMA SoloIsSingle ==
  ASSUME BatchInv, NEW g \in Checks, group[g] = "solo", ~expired, NEW i \in GroupOf(g)
  PROVE  GroupOf(i) = {i}
<1>1. GroupOf(g) = {g}
  BY DEF BatchInv, IsBatch
<1>2. i = g
  BY <1>1
<1> QED
  BY <1>1, <1>2

LEMMA CheckStepMeasures ==
  ASSUME TypeOK, TypeOK', WorkInv, BatchInv, MeasureInv,
         NEW g \in Checks, NEW i \in Checks, CheckStep(g, i)
  PROVE  MeasureInv'
<1>1. UNCHANGED <<group, sinkOpen, queries, expired>>
  BY DEF CheckStep, StartCheck, StartMember, FailMember, Evaluate, document, telemetry
<1>2. \A j \in Checks : j # i => pc'[j] = pc[j] /\ outcome'[j] = outcome[j]
  BY DEF CheckStep, StartCheck, StartMember, FailMember, Evaluate, Settle, SettleTimeout,
         Advance, TypeOK
<1>3. pc'[i] \notin {"idle", "settled"} \cup Verdicts => GroupOf(i) = {i}
  <2>1. CASE StartCheck(g, i)
    <3>1. i \in GroupOf(g) /\ group[g] = "solo" /\ (expired => pc'[i] = "settled")
      BY <2>1 DEF StartCheck, Turn, Settle, TypeOK
    <3> QED
      BY <3>1, SoloIsSingle
  <2>2. CASE StartMember(g, i) \/ FailMember(g, i) \/ Evaluate(g, i)
    BY <2>2 DEF StartMember, FailMember, Evaluate, Advance, Settle, SettleTimeout, TypeOK,
                Verdicts
  <2> QED
    BY <2>1, <2>2 DEF CheckStep
<1>4. ASSUME sinkOpen, pc'[i] \in Verdicts \/ outcome'[i] \in Measured
      PROVE  Measurement(i)
  <2>1. CASE outcome'[i] = outcome[i] /\ pc'[i] \notin Verdicts
    BY <1>4, <2>1 DEF MeasureInv
  <2>2. CASE StartCheck(g, i) \/ FailMember(g, i)
    <3>1. /\ pc'[i] \notin Verdicts
          /\ outcome'[i] = outcome[i] \/ outcome'[i] \notin Measured
      BY <2>2 DEF StartCheck, FailMember, Settle, SettleTimeout, Advance, TypeOK, Verdicts,
                  Measured
    <3> QED
      BY <1>4, <2>1, <3>1
  <2>3. CASE StartMember(g, i)
    <3>1. g \in Leaders /\ i \in GroupOf(g) /\ queries[g] > 0
      BY <1>4, <2>3 DEF StartMember, Turn, WorkInv, MeasureInv
    <3> QED
      BY <3>1, LeaderMeasurement
  <2>4. CASE Evaluate(g, i)
    BY <1>4, <2>4 DEF Evaluate, MeasureInv, Verdicts
  <2> QED
    BY <2>2, <2>3, <2>4 DEF CheckStep
<1>5. ASSUME NEW j \in Checks, Measurement(j) PROVE Measurement(j)'
  BY <1>1, <1>5, MeasurementLasts, QuietStream
<1> QED
  BY <1>1, <1>2, <1>3, <1>4, <1>5 DEF MeasureInv

LEMMA StageStepMeasures ==
  ASSUME TypeOK, TypeOK', MeasureInv, NEW i \in Checks, StageStep(i)
  PROVE  MeasureInv'
<1>1. UNCHANGED group
  BY DEF StageStep, Compile, ReadBaseline, BeginQuery, EndQuery
<1>2. \A j \in Checks : j # i => pc'[j] = pc[j] /\ outcome'[j] = outcome[j]
  BY DEF StageStep, Compile, ReadBaseline, BeginQuery, EndQuery, Settle, SettleTimeout,
         Advance, TypeOK
<1>3. EventsGrow
  BY EmittedQuery, QuietStream
     DEF StageStep, Compile, ReadBaseline, BeginQuery, EndQuery, EmitFor, telemetry
<1>4. pc[i] \notin Verdicts => GroupOf(i) = {i}
  BY DEF StageStep, Compile, ReadBaseline, BeginQuery, EndQuery, QueryStages, Verdicts,
         MeasureInv
<1>5. pc[i] = "evidence" => pc'[i] \in Verdicts \cup {"settled"}
  BY DEF StageStep, Compile, ReadBaseline, BeginQuery, EndQuery, AfterQuery, Settle,
         SettleTimeout, Advance, TypeOK, Verdicts
<1>6. outcome'[i] = outcome[i] \/ outcome'[i] \notin Measured
  BY DEF StageStep, Compile, ReadBaseline, BeginQuery, EndQuery, Settle, SettleTimeout,
         Advance, TypeOK, Measured
<1>7. pc[i] \notin Verdicts /\ pc'[i] \in Verdicts /\ sinkOpen' => queries'[i] > 0
  <2>1. CASE EndQuery(i) /\ pc[i] \in {"params", "population", "measure"}
    BY <2>1, EmittedQuery DEF EndQuery, EmitFor
  <2>2. CASE EndQuery(i) /\ pc[i] \in {"presence", "nodecount"}
    BY <2>2 DEF EndQuery, AfterQuery, Settle, SettleTimeout, Advance, TypeOK, Verdicts
  <2>3. CASE Compile(i) \/ ReadBaseline(i) \/ BeginQuery(i)
    BY <2>3 DEF Compile, AfterCompile, ReadBaseline, BeginQuery, Settle, SettleTimeout,
                Advance, TypeOK, Verdicts
  <2> QED
    BY <2>1, <2>2, <2>3 DEF StageStep, EndQuery, QueryStages, Verdicts
<1>8. ASSUME NEW j \in Checks, Measurement(j) PROVE Measurement(j)'
  BY <1>3, <1>8, MeasurementLasts
<1>9. ASSUME sinkOpen', pc'[i] \in Verdicts \/ outcome'[i] \in Measured
      PROVE  Measurement(i)'
  <2>1. CASE pc[i] \in Verdicts \/ outcome[i] \in Measured
    BY <1>3, <1>8, <1>9, <2>1 DEF MeasureInv, EventsGrow
  <2>2. CASE pc[i] \notin Verdicts /\ outcome[i] \notin Measured
    <3>1. GroupOf(i) = {i} /\ queries'[i] > 0
      BY <1>4, <1>6, <1>7, <1>9, <2>2
    <3> QED
      BY <3>1 DEF Measurement, Checks
  <2> QED
    BY <2>1, <2>2
<1>10. pc'[i] \notin {"idle", "settled"} \cup Verdicts => GroupOf(i) = {i}
  <2>1. pc[i] \in Verdicts => pc[i] = "evidence"
    BY DEF StageStep, Compile, ReadBaseline, BeginQuery, EndQuery, QueryStages, Verdicts
  <2> QED
    BY <1>4, <1>5, <2>1
<1>11. ASSUME sinkOpen', NEW g \in Checks, group'[g] = "shared" PROVE queries'[g] > 0
  <2>1. queries[g] > 0 /\ queries[g] <= queries'[g]
    BY <1>1, <1>3, <1>11 DEF MeasureInv, EventsGrow
  <2> QED
    BY <2>1 DEF TypeOK
<1> QED
  BY <1>2, <1>3, <1>8, <1>9, <1>10, <1>11 DEF MeasureInv, EventsGrow

LEMMA GroupStepMeasures ==
  ASSUME TypeOK, TypeOK', MeasureInv, NEW g \in Checks, GroupStep(g)
  PROVE  MeasureInv'
<1>1. EventsGrow
  BY EmittedQuery, QuietStream
     DEF GroupStep, StartGroup, BeginBatch, EndBatch, FinishGroup, BreakBatch, telemetry
<1>2. \A i \in Checks : \/ pc'[i] = pc[i] /\ outcome'[i] = outcome[i]
                        \/ pc'[i] = "idle" /\ outcome'[i] \notin Measured
  BY DEF GroupStep, StartGroup, BeginBatch, EndBatch, FinishGroup, BreakBatch, Measured, None
<1>3. ASSUME NEW i \in Checks, Measurement(i) PROVE Measurement(i)'
  BY <1>1, <1>3, MeasurementLasts
<1>4. ASSUME sinkOpen', NEW h \in Checks, group'[h] = "shared" PROVE queries'[h] > 0
  <2>1. CASE group[h] = "shared"
    <3>1. queries[h] > 0 /\ queries[h] <= queries'[h]
      BY <1>1, <1>4, <2>1 DEF MeasureInv, EventsGrow
    <3> QED
      BY <3>1 DEF TypeOK
  <2>2. CASE group[h] # "shared"
    <3>1. h = g /\ EndBatch(g)
      BY <1>4, <2>2
         DEF GroupStep, StartGroup, BeginBatch, EndBatch, FinishGroup, BreakBatch, TypeOK
    <3> QED
      BY <1>4, <3>1, EmittedQuery DEF EndBatch
  <2> QED
    BY <2>1, <2>2
<1> QED
  BY <1>1, <1>2, <1>3, <1>4 DEF MeasureInv, EventsGrow, Verdicts

(* Only two actions of the main thread touch the groups.                   *)
LEMMA OtherMainSteps ==
  ASSUME MainStep
  PROVE  RunNext \/ SubmitGroups \/ UNCHANGED group
BY DEF MainStep, ProbeTarget, FailRun, SkipStopped, SkipGenerated, SkipUnsupported,
       SkipLate, Skip, Collect, RecordMember, ClosePool, CollectReason, CloseReasons,
       RecordNext, CloseLoop, CloseRun, RaiseFault, work

LEMMA MainStepsOfWork ==
  ASSUME MainStep
  PROVE  UNCHANGED <<expired, pc, inflight, outcome, why>>
BY DEF MainStep, ProbeTarget, FailRun, SkipStopped, SkipGenerated, SkipUnsupported,
       SkipLate, Skip, RunNext, Collect, SubmitGroups, RecordMember, ClosePool,
       CollectReason, CloseReasons, RecordNext, CloseLoop, CloseRun, RaiseFault, work

LEMMA MainStepsOfStream ==
  ASSUME MainStep
  PROVE  UNCHANGED queries /\ (sinkOpen' => sinkOpen)
<1>1. CASE SkipStopped \/ SkipGenerated \/ SkipUnsupported \/ SkipLate \/ RecordNext
           \/ \E g, i \in Checks : RecordMember(g, i)
  BY <1>1 DEF SkipStopped, SkipGenerated, SkipUnsupported, SkipLate, Skip, RecordMember,
              RecordNext, RecordResult, EmitProcessed
<1>2. CASE FailRun \/ CloseRun \/ RaiseFault
  BY <1>2 DEF FailRun, CloseRun, RaiseFault, EmitTerminal
<1>3. CASE UNCHANGED <<sinkOpen, queries>>
  BY <1>3
<1> QED
  BY <1>1, <1>2, <1>3
     DEF MainStep, ProbeTarget, RunNext, Collect, SubmitGroups, ClosePool, CollectReason,
         CloseReasons, CloseLoop, telemetry

LEMMA MainStepMeasures ==
  ASSUME TypeOK, TypeOK', MeasureInv, MainStep
  PROVE  MeasureInv'
<1>1. UNCHANGED <<pc, outcome, queries>> /\ (sinkOpen' => sinkOpen)
  BY MainStepsOfWork, MainStepsOfStream
<1>2. \A g \in Checks : group'[g] = "shared" => group[g] = "shared"
  <2>1. CASE RunNext \/ SubmitGroups
    BY <2>1 DEF RunNext, SubmitGroups, TypeOK
  <2> QED
    BY <2>1, OtherMainSteps
<1>3. ASSUME NEW i \in Checks, Measurement(i) PROVE Measurement(i)'
  BY <1>1, <1>3 DEF Measurement
<1> QED
  BY <1>1, <1>2, <1>3 DEF MeasureInv

(* Which groups batch is decided when they start.                          *)
LEMMA BatchStep ==
  ASSUME TypeInv, BatchInv, [Next]_vars
  PROVE  BatchInv'
<1>1. CASE UNCHANGED group /\ (expired => expired')
  BY <1>1 DEF BatchInv
<1>2. CASE RunNext
  <2>1. ~IsBatch(cursor) /\ cursor \in Checks
    BY <1>2 DEF RunNext, Preparing, IsBatch, GroupOf
  <2> QED
    BY <1>2, <2>1 DEF RunNext, BatchInv, TypeInv, TypeOK, Batching
<1>3. CASE SubmitGroups
  BY <1>3 DEF SubmitGroups, BatchInv, Batching
<1>4. ASSUME NEW g \in Checks, GroupStep(g) PROVE BatchInv'
  BY <1>4 DEF GroupStep, StartGroup, BeginBatch, EndBatch, FinishGroup, BreakBatch,
              BatchInv, Batching, TypeInv, TypeOK
<1>5. ASSUME NEW g \in Checks, NEW i \in Checks, CheckStep(g, i) \/ StageStep(i)
      PROVE  UNCHANGED <<group, expired>>
  BY <1>5 DEF CheckStep, StartCheck, StartMember, FailMember, Evaluate,
              StageStep, Compile, ReadBaseline, BeginQuery, EndQuery
<1> QED
  BY <1>1, <1>2, <1>3, <1>4, <1>5, OtherMainSteps, MainStepsOfWork
     DEF Next, Expire, Ended, vars, work

LEMMA MeasureStep ==
  ASSUME TypeInv, TypeInv', WorkInv, BatchInv, MeasureInv, [Next]_vars
  PROVE  MeasureInv'
<1>1. CASE MainStep
  BY <1>1, MainStepMeasures DEF TypeInv
<1>2. ASSUME NEW g \in Checks, NEW i \in Checks,
             CheckStep(g, i) \/ StageStep(i) \/ GroupStep(g)
      PROVE  MeasureInv'
  BY <1>2, CheckStepMeasures, StageStepMeasures, GroupStepMeasures DEF TypeInv
<1>3. CASE Expire \/ Ended \/ UNCHANGED vars
  <2>1. UNCHANGED <<group, pc, outcome, sinkOpen, queries>>
    BY <1>3 DEF Expire, Ended, vars, work, telemetry
  <2> QED
    BY <2>1 DEF MeasureInv, Measurement
<1> QED
  BY <1>1, <1>2, <1>3 DEF Next

(* As long as the event stream is accepted, no check has a verdict without *)
(* a query event that measured it: its own, or the one its batch has       *)
(* charged to the first member, also after the shared transaction has      *)
(* failed on its way out and its members were run again.                   *)
THEOREM EveryVerdictIsMeasured == Spec => []VerdictsAreMeasured
<1> DEFINE Inv == LedgerInv /\ BatchInv /\ MeasureInv
<1>1. Init => Inv
  BY TypeInit, LedgerInit, MeasureInit DEF LedgerInv
<1>2. Inv /\ [Next]_vars => Inv'
  <2> SUFFICES ASSUME Inv, [Next]_vars PROVE Inv'
    OBVIOUS
  <2>1. LedgerInv'
    BY LedgerStep
  <2> QED
    BY <2>1, BatchStep, MeasureStep DEF LedgerInv
<1>3. Inv => VerdictsAreMeasured
  BY DEF MeasureInv, VerdictsAreMeasured, Runnable
<1> QED
  BY <1>1, <1>2, <1>3, PTL DEF Spec

------------------------------------------------------------------------------
(* What a worker says of its check: the reason it leaves and when.         *)

Partly  == {"baseline", "baseline_and_deadline"}
Fetched == Partly \cup {"baseline_missing"}
Early   == {"idle", "presence", "nodecount", "compile", "params", "population", "baseline"}

(* A reason names the baseline of its own check, which is a drift check,   *)
(* or the deadline, which has passed; before the baseline is read there is *)
(* none; and coverage is lost to the deadline only.                        *)
Says(i) ==
  /\ why[i] \in {NoReason, DeadlineReason} \cup {Reason(c, i) : c \in Fetched}
  /\ pc[i] # "settled" => why[i] \in {NoReason, Reason("baseline", i)}
  /\ pc[i] \in Early => why[i] = NoReason
  /\ pc[i] = "baseline" \/ why[i].cause \in Fetched => Kind[i] = "drift"
  /\ why[i] # NoReason => i \in Runnable
  /\ why[i] = DeadlineReason => expired
  /\ outcome[i] # "unsupported"
  /\ outcome[i] \in {"not_run", "timeout"} => expired

SaidInv == \A i \in Checks : Says(i)

LEMMA ReasonFields ==
  /\ NoReason.cause = None
  /\ DeadlineReason.cause = "deadline" /\ DeadlineReason.check = 0
  /\ InputReason.cause = "input" /\ InputReason.check = 0
  /\ \A c, i : Reason(c, i).cause = c /\ Reason(c, i).check = i
BY DEF NoReason, DeadlineReason, InputReason, Reason

LEMMA SaidInit == Init => SaidInv
<1>1. None \notin Fetched /\ None \notin {"unsupported", "not_run", "timeout"}
      /\ "idle" # "baseline" /\ NoReason # DeadlineReason
  BY RealReasons DEF None, Fetched, Partly
<1> QED
  BY <1>1, ReasonFields DEF Init, SaidInv, Says

(* The check of a worker's step is runnable and in a group at work, and    *)
(* the main thread is where groups are at work.                            *)
LEMMA AtWork ==
  ASSUME TypeOK, WorkInv, QueryInv, MainInv, NEW g \in Checks, NEW i \in Checks,
         CheckStep(g, i) \/ StageStep(i)
  PROVE  /\ pc[i] # "settled"
         /\ i \in Runnable
         /\ main \in {"await", "pool", "unwinding"}
         /\ \E h \in Leaders : i \in GroupOf(h) /\ group[h] \in Measuring
<1>1. pc[i] # "settled" /\ (pc[i] = "idle" => i \in GroupOf(g) /\ group[g] \in Measuring)
  BY DEF CheckStep, StartCheck, StartMember, FailMember, Evaluate, Turn, Measuring,
         StageStep, Compile, ReadBaseline, BeginQuery, EndQuery, QueryStages
<1>2. \E h \in Checks : i \in GroupOf(h) /\ group[h] \in Measuring
  BY <1>1 DEF QueryInv, Active, Running, Measuring
<1>3. PICK h \in Checks : i \in GroupOf(h) /\ group[h] \in Measuring
  BY <1>2
<1>4. h \in Leaders /\ i \in Runnable
  BY <1>3, GroupMember DEF WorkInv, Measuring, Leaders
<1>5. main \in {"await", "pool", "unwinding"}
  BY <1>3 DEF MainInv, Measuring, Resting, TypeOK, MainStates
<1> QED
  BY <1>1, <1>3, <1>4, <1>5

(* Only the check of a worker's step changes.                              *)
LEMMA OnlyItsCheck ==
  ASSUME TypeOK, NEW g \in Checks, NEW i \in Checks, CheckStep(g, i) \/ StageStep(i)
  PROVE  /\ UNCHANGED <<group, expired>>
         /\ \A j \in Checks : j # i =>
              /\ pc'[j] = pc[j] /\ outcome'[j] = outcome[j] /\ why'[j] = why[j]
              /\ queries'[j] = queries[j]
<1>1. UNCHANGED <<group, expired>>
  BY DEF CheckStep, StartCheck, StartMember, FailMember, Evaluate,
         StageStep, Compile, ReadBaseline, BeginQuery, EndQuery
<1>2. \A j \in Checks : j # i => pc'[j] = pc[j] /\ outcome'[j] = outcome[j] /\ why'[j] = why[j]
  BY DEF CheckStep, StartCheck, StartMember, FailMember, Evaluate,
         StageStep, Compile, ReadBaseline, BeginQuery, EndQuery, Settle, SettleTimeout,
         Advance, TypeOK
<1>3. \A j \in Checks : j # i => queries'[j] = queries[j]
  BY DEF CheckStep, StartCheck, StartMember, FailMember, Evaluate,
         StageStep, Compile, ReadBaseline, BeginQuery, EndQuery, EmitFor, EmitQuery,
         telemetry, TypeOK
<1> QED
  BY <1>1, <1>2, <1>3

LEMMA SettledSays ==
  ASSUME TypeOK, NEW i \in Checks, Says(i), UNCHANGED expired, NEW r, NEW reason,
         Settle(i, r, reason), reason \in {why[i], NoReason},
         r \notin {"unsupported", "not_run", "timeout"}
  PROVE  Says(i)'
<1>1. pc'[i] = "settled" /\ outcome'[i] = r /\ why'[i] = reason
  BY DEF Settle, TypeOK
<1>2. None \notin Fetched /\ NoReason # DeadlineReason
  BY RealReasons DEF None, Fetched, Partly
<1> QED
  BY <1>1, <1>2, ReasonFields DEF Says, Early

LEMMA TimedOutSays ==
  ASSUME TypeOK, NEW i \in Checks, Says(i), UNCHANGED expired, i \in Runnable,
         pc[i] # "settled", SettleTimeout(i)
  PROVE  Says(i)'
<1>1. CASE ~expired
  BY <1>1, SettledSays DEF SettleTimeout
<1>2. CASE expired
  <2>1. pc'[i] = "settled" /\ outcome'[i] = "timeout" /\ why'[i] = WithDeadline(i, why[i])
    BY <1>2 DEF SettleTimeout, Settle, TypeOK
  <2>2. CASE why[i] = NoReason
    <3>1. why'[i] = DeadlineReason /\ DeadlineReason.cause \notin Fetched
      BY <2>1, <2>2, ReasonFields DEF WithDeadline, Fetched, Partly
    <3> QED
      BY <1>2, <2>1, <3>1 DEF Says, Early
  <2>3. CASE why[i] = Reason("baseline", i) /\ why[i] # NoReason
    <3>1. why'[i] = Reason("baseline_and_deadline", i) /\ Kind[i] = "drift"
      BY <2>1, <2>3, ReasonFields DEF WithDeadline, Fetched, Partly, Says
    <3> QED
      BY <1>2, <2>1, <3>1 DEF Says, Early, Fetched, Partly
  <2> QED
    BY <2>2, <2>3 DEF Says
<1> QED
  BY <1>1, <1>2

LEMMA AdvancedSays ==
  ASSUME TypeOK, NEW i \in Checks, Says(i), UNCHANGED expired, NEW stage,
         pc[i] # "settled", Advance(i, stage),
         stage \in Early => pc[i] \in Early, stage = "baseline" => Kind[i] = "drift"
  PROVE  Says(i)'
<1>1. pc'[i] = stage /\ outcome'[i] = outcome[i] /\ why'[i] = why[i]
  BY DEF Advance, TypeOK
<1> QED
  BY <1>1 DEF Says

LEMMA CheckStepSays ==
  ASSUME TypeOK, NEW g \in Checks, NEW i \in Checks, Says(i), i \in Runnable,
         CheckStep(g, i)
  PROVE  Says(i)'
<1>u. UNCHANGED expired
  BY OnlyItsCheck
<1>1. CASE StartCheck(g, i)
  <2>1. pc[i] = "idle" /\ pc[i] \in Early
    BY <1>1 DEF StartCheck, Turn, Early
  <2>2. CASE expired
    <3>1. pc'[i] = "settled" /\ outcome'[i] = "not_run" /\ why'[i] = DeadlineReason
      BY <1>1, <2>2 DEF StartCheck, Settle, TypeOK
    <3>2. DeadlineReason.cause \notin Fetched
      BY ReasonFields DEF Fetched, Partly
    <3> QED
      BY <1>u, <2>2, <3>1, <3>2 DEF Says, Early
  <2>3. CASE ~expired /\ Settle(i, "model_absent", NoReason)
    BY <1>u, <2>3, SettledSays
  <2>4. CASE Advance(i, "presence") \/ Advance(i, "compile")
    BY <1>u, <2>1, <2>4, AdvancedSays
  <2> QED
    BY <1>1, <2>2, <2>3, <2>4 DEF StartCheck
<1>2. CASE StartMember(g, i)
  BY <1>2, <1>u, AdvancedSays DEF StartMember, Turn, Early
<1>3. CASE FailMember(g, i)
  BY <1>3, <1>u, SettledSays, TimedOutSays DEF FailMember, Turn
<1>4. CASE Evaluate(g, i)
  <2>1. \A passed : VerdictOf(passed, Severity[i]) \notin {"unsupported", "not_run", "timeout"}
    BY DEF VerdictOf
  <2> QED
    BY <1>4, <1>u, <2>1, SettledSays, TimedOutSays DEF Evaluate
<1> QED
  BY <1>1, <1>2, <1>3, <1>4 DEF CheckStep

LEMMA StageStepSays ==
  ASSUME TypeOK, NEW i \in Checks, Says(i), i \in Runnable, StageStep(i)
  PROVE  Says(i)'
<1>u. UNCHANGED expired
  BY OnlyItsCheck
<1>1. CASE Compile(i)
  <2>1. pc[i] \in Early /\ pc[i] # "settled"
    BY <1>1 DEF Compile, Early
  <2>2. AfterCompile(i) = "baseline" => Kind[i] = "drift"
    BY DEF AfterCompile
  <2> QED
    BY <1>1, <1>u, <2>1, <2>2, AdvancedSays, SettledSays DEF Compile
<1>2. CASE ReadBaseline(i)
  <2>1. pc[i] = "baseline" /\ Kind[i] = "drift" /\ outcome[i] # "unsupported"
        /\ (outcome[i] \in {"not_run", "timeout"} => expired)
    BY <1>2 DEF ReadBaseline, Says
  <2>2. CASE Advance(i, "measure")
    BY <1>u, <2>1, <2>2, AdvancedSays DEF Early
  <2>3. CASE /\ pc' = [pc EXCEPT ![i] = "measure"]
             /\ why' = [why EXCEPT ![i] = Reason("baseline", i)]
             /\ UNCHANGED outcome
    <3>1. pc'[i] = "measure" /\ why'[i] = Reason("baseline", i) /\ outcome'[i] = outcome[i]
      BY <2>3 DEF TypeOK
    <3> QED
      BY <1>u, <2>1, <3>1, ReasonFields DEF Says, Early, Fetched, Partly
  <2>4. CASE Settle(i, "errored", Reason("baseline_missing", i))
    <3>1. /\ pc'[i] = "settled" /\ outcome'[i] = "errored"
          /\ why'[i] = Reason("baseline_missing", i)
      BY <2>4 DEF Settle, TypeOK
    <3> QED
      BY <1>u, <2>1, <3>1, ReasonFields DEF Says, Early, Fetched, Partly
  <2>5. CASE Settle(i, "errored", NoReason)
    BY <1>u, <2>5, SettledSays
  <2> QED
    BY <1>2, <2>2, <2>3, <2>4, <2>5 DEF ReadBaseline
<1>3. CASE BeginQuery(i)
  <2>1. pc[i] # "settled"
    BY <1>3 DEF BeginQuery, QueryStages
  <2>2. CASE UNCHANGED <<pc, outcome, why>>
    BY <1>u, <2>2 DEF Says
  <2>3. CASE SettleTimeout(i)
    BY <1>u, <2>1, <2>3, TimedOutSays
  <2> QED
    BY <1>3, <2>2, <2>3 DEF BeginQuery
<1>4. CASE EndQuery(i)
  <2>1. pc[i] # "settled"
    BY <1>4 DEF EndQuery, QueryStages
  <2>2. ASSUME NEW stage \in AfterQuery(i)
        PROVE  stage # "baseline" /\ (stage \in Early => pc[i] \in Early)
    BY DEF AfterQuery, Early
  <2> QED
    BY <1>4, <1>u, <2>1, <2>2, AdvancedSays, SettledSays, TimedOutSays DEF EndQuery
<1> QED
  BY <1>1, <1>2, <1>3, <1>4 DEF StageStep

(* The members of a batch are completeness checks, which have no baseline. *)
LEMMA BatchesAreDriftless ==
  ASSUME WorkInv, BatchInv, NEW g \in Checks, group[g] \in Batching, NEW i \in GroupOf(g)
  PROVE  i \in Checks /\ Kind[i] = "plain"
<1>1. g \in Leaders /\ GroupOf(g) # {g}
  BY DEF WorkInv, BatchInv, IsBatch, Batching
<1>2. BatchKey[g] # NoKey /\ BatchKey[i] = BatchKey[g] /\ i \in Runnable
  BY <1>1 DEF GroupOf, Leaders
<1> QED
  BY <1>2, BatchAssumption DEF Runnable

LEMMA SaidStep ==
  ASSUME TypeOK, WorkInv, QueryInv, MainInv, SaidInv, [Next]_vars
  PROVE  SaidInv'
<1>1. CASE UNCHANGED <<pc, outcome, why>> /\ (expired => expired')
  BY <1>1 DEF SaidInv, Says
<1>2. CASE MainStep
  BY <1>1, <1>2, MainStepsOfWork
<1>3. ASSUME NEW g \in Checks, NEW i \in Checks, CheckStep(g, i) \/ StageStep(i)
      PROVE  SaidInv'
  <2>1. Says(i)'
    BY <1>3, AtWork, CheckStepSays, StageStepSays DEF SaidInv
  <2>2. ASSUME NEW j \in Checks, j # i PROVE Says(j)'
    BY <1>3, <2>2, OnlyItsCheck DEF SaidInv, Says
  <2> QED
    BY <2>1, <2>2 DEF SaidInv
<1>4. ASSUME NEW g \in Checks, BreakBatch(g) PROVE SaidInv'
  <2>1. UNCHANGED expired
    BY <1>4 DEF BreakBatch
  <2>2. ASSUME NEW j \in Checks PROVE Says(j)'
    <3>1. CASE j \in GroupOf(g)
      <4>1. pc'[j] = "idle" /\ outcome'[j] = None /\ why'[j] = NoReason
        BY <1>4, <3>1 DEF BreakBatch
      <4>2. None \notin Fetched /\ None \notin {"unsupported", "not_run", "timeout"}
            /\ NoReason # DeadlineReason
        BY RealReasons DEF None, Fetched, Partly
      <4> QED
        BY <4>1, <4>2, ReasonFields DEF Says
    <3>2. CASE j \notin GroupOf(g)
      BY <1>4, <2>1, <3>2 DEF BreakBatch, SaidInv, Says
    <3> QED
      BY <3>1, <3>2
  <2> QED
    BY <2>2 DEF SaidInv
<1>5. ASSUME NEW g \in Checks, GroupStep(g), ~BreakBatch(g) PROVE SaidInv'
  BY <1>1, <1>5 DEF GroupStep, StartGroup, BeginBatch, EndBatch, FinishGroup
<1> QED
  BY <1>1, <1>2, <1>3, <1>4, <1>5 DEF Next, Expire, Ended, vars, work

------------------------------------------------------------------------------
(* The list of reasons.                                                    *)

LEMMA AppendedOnce ==
  ASSUME NEW s \in Seq(AllReasons), NEW r \in AllReasons
  PROVE  Range(AppendOnce(s, r)) = Range(s) \cup {r}
<1>1. CASE r \in Range(s)
  BY <1>1 DEF AppendOnce
<1>2. CASE r \notin Range(s)
  <2> DEFINE t == Append(s, r)
  <2>1. /\ DOMAIN s = 1..Len(s) /\ DOMAIN t = 1..(Len(s) + 1) /\ Len(s) \in Nat
        /\ \A k \in 1..Len(s) : t[k] = s[k]
        /\ t[Len(s) + 1] = r
    OBVIOUS
  <2>2. \A k : k \in 1..(Len(s) + 1) <=> k \in 1..Len(s) \/ k = Len(s) + 1
    BY <2>1
  <2>3. Range(t) = Range(s) \cup {r}
    <3> HIDE DEF t
    <3> QED
      BY <2>1, <2>2 DEF Range
  <2> QED
    BY <1>2, <2>3 DEF AppendOnce
<1> QED
  BY <1>1, <1>2

LEMMA AppendedReason ==
  ASSUME NEW s \in Seq(AllReasons), NEW r \in AllReasons
  PROVE  Range(AppendReason(s, r)) = Range(s) \cup ({r} \ {NoReason})
<1>1. CASE r = NoReason
  BY <1>1 DEF AppendReason
<1>2. CASE r # NoReason
  BY <1>2, AppendedOnce DEF AppendReason
<1> QED
  BY <1>1, <1>2

LEMMA NotedDeadline ==
  ASSUME NEW s \in Seq(AllReasons), NEW ran \in BOOLEAN, NoteDeadline(s, ran)
  PROVE  IF ran /\ expired
         THEN Range(reasons') = Range(s) \cup {DeadlineReason}
              /\ codes' = codes \cup {"deadline"}
         ELSE Range(reasons') = Range(s) /\ codes' = codes
BY AppendedOnce, FixedReasonTypes DEF NoteDeadline

LEMMA GivenInRange ==
  ASSUME NEW cause
  PROVE  Given(cause) <=> \E r \in Range(reasons) : r.cause = cause
BY DEF Given, Range

(* The reasons a worker leaves, and those of the main thread, are typed.   *)
LEMMA WorkerReasonTypes ==
  ASSUME TypeOK, NEW i \in Checks
  PROVE  /\ why[i] \in AllReasons
         /\ AppendReason(reasons, why[i]) \in Seq(AllReasons)
         /\ Range(AppendReason(reasons, why[i])) = Range(reasons) \cup ({why[i]} \ {NoReason})
<1>1. why[i] \in AllReasons /\ reasons \in Seq(AllReasons)
  BY DEF TypeOK
<1> QED
  BY <1>1, AppendReasonType, AppendedReason

(* What a step that passes the check under the cursor over does.           *)
Skips(r, reason, code) ==
  /\ Preparing /\ Skip(r, reason, code)
  /\ \/ stop # 0 /\ r = "not_run" /\ reason = Reason("fail_fast", stop) /\ code = {}
     \/ stop = 0 /\ r = "generated" /\ reason = NoReason /\ code = {}
     \/ /\ stop = 0 /\ r = "unsupported" /\ reason = Reason("unsupported", cursor)
        /\ code = {"unsupported"}
     \/ /\ stop = 0 /\ r = "not_run" /\ reason = DeadlineReason /\ code = {"deadline"}
        /\ expired /\ FailFast /\ cursor \in Runnable

Skipping == \E r \in Results, reason \in AllReasons, code \in SUBSET Codes : Skips(r, reason, code)

LEMMA EverySkip ==
  ASSUME TypeOK, SkipStopped \/ SkipGenerated \/ SkipUnsupported \/ SkipLate
  PROVE  Skipping
<1>r. {"not_run", "generated", "unsupported"} \subseteq Results
  BY DEF Results, Skipped, Gaps
<1>c. {{}, {"unsupported"}, {"deadline"}} \subseteq SUBSET Codes
  BY DEF Codes
<1>1. CASE SkipStopped
  <2>1. Reason("fail_fast", stop) \in AllReasons
    BY ReasonTypes DEF TypeOK, Causes
  <2>2. Skips("not_run", Reason("fail_fast", stop), {})
    BY <1>1 DEF SkipStopped, Skips
  <2> QED
    BY <1>r, <1>c, <2>1, <2>2 DEF Skipping
<1>2. CASE SkipGenerated
  <2>1. Skips("generated", NoReason, {})
    BY <1>2 DEF SkipGenerated, Skips
  <2> QED
    BY <1>r, <1>c, <2>1, FixedReasonTypes DEF Skipping
<1>3. CASE SkipUnsupported
  <2>1. Reason("unsupported", cursor) \in AllReasons
    BY <1>3, ReasonTypes DEF SkipUnsupported, Preparing, Causes, Checks
  <2>2. Skips("unsupported", Reason("unsupported", cursor), {"unsupported"})
    BY <1>3 DEF SkipUnsupported, Skips
  <2> QED
    BY <1>r, <1>c, <2>1, <2>2 DEF Skipping
<1>4. CASE SkipLate
  <2>1. Skips("not_run", DeadlineReason, {"deadline"})
    BY <1>4 DEF SkipLate, Skips
  <2> QED
    BY <1>r, <1>c, <2>1, FixedReasonTypes DEF Skipping
<1> QED
  BY <1>1, <1>2, <1>3, <1>4

(* ... and what it leaves in the document, unless the callback raises.     *)
LEMMA SkipRecords ==
  ASSUME TypeOK, NEW r \in Results, NEW reason \in AllReasons, NEW code,
         Skips(r, reason, code)
  PROVE  /\ main = "prepare" /\ cursor \in Checks
         /\ UNCHANGED <<stop, status, expired, group, pc, inflight, outcome, why, queries>>
         /\ slot' = [slot EXCEPT ![cursor] = r]
         /\ \/ /\ main' = "prepare" /\ cursor' = cursor + 1
               /\ codes' = codes \cup code
               /\ reasons' = AppendReason(reasons, reason)
               /\ Range(reasons') = Range(reasons) \cup ({reason} \ {NoReason})
            \/ main' = "unwinding" /\ UNCHANGED <<cursor, codes, reasons>>
<1>1. Range(AppendReason(reasons, reason)) = Range(reasons) \cup ({reason} \ {NoReason})
  BY AppendedReason DEF TypeOK
<1> QED
  BY <1>1 DEF Skips, Skip, RecordResult, CallbackRaises, Preparing, work

LEMMA NextRecords ==
  ASSUME TypeInv, WorkInv, RecordNext
  PROVE  /\ main = "await" /\ cursor \in Checks /\ FailFast /\ group[cursor] = "finished"
         /\ pc[cursor] = "settled" /\ outcome[cursor] \in Results
         /\ UNCHANGED <<status, expired, group, pc, inflight, outcome, why, queries>>
         /\ slot' = [slot EXCEPT ![cursor] = outcome[cursor]]
         /\ \/ /\ main' = "prepare" /\ cursor' = cursor + 1
               /\ stop' = IF StopsFailFast(cursor, outcome[cursor]) THEN cursor ELSE stop
               /\ NoteDeadline(AppendReason(reasons, why[cursor]), TRUE)
               /\ Range(reasons') = Range(reasons) \cup ({why[cursor]} \ {NoReason})
                                      \cup (IF expired THEN {DeadlineReason} ELSE {})
               /\ codes' = codes \cup (IF expired THEN {"deadline"} ELSE {})
            \/ main' = "unwinding" /\ UNCHANGED <<cursor, stop, reasons, codes>>
<1>1. /\ main = "await" /\ cursor \in Checks /\ FailFast /\ group[cursor] = "finished"
      /\ UNCHANGED <<status, expired, group, pc, inflight, outcome, why, queries>>
      /\ slot' = [slot EXCEPT ![cursor] = outcome[cursor]]
  BY DEF RecordNext, RecordResult, TypeInv, AwaitsOne, work
<1>2. pc[cursor] = "settled" /\ outcome[cursor] \in Results
  BY <1>1, GroupMember DEF WorkInv, GroupSettled, Leaders
<1>3. CASE CallbackRaises
  BY <1>1, <1>2, <1>3 DEF CallbackRaises
<1>4. CASE /\ main' = "prepare"
           /\ cursor' = cursor + 1
           /\ stop' = IF StopsFailFast(cursor, outcome[cursor]) THEN cursor ELSE stop
           /\ NoteDeadline(AppendReason(reasons, why[cursor]), TRUE)
  <2>1. /\ AppendReason(reasons, why[cursor]) \in Seq(AllReasons)
        /\ Range(AppendReason(reasons, why[cursor]))
             = Range(reasons) \cup ({why[cursor]} \ {NoReason})
    BY <1>1, WorkerReasonTypes DEF TypeInv
  <2>2. /\ Range(reasons') = Range(reasons) \cup ({why[cursor]} \ {NoReason})
                               \cup (IF expired THEN {DeadlineReason} ELSE {})
        /\ codes' = codes \cup (IF expired THEN {"deadline"} ELSE {})
    BY <1>4, <2>1, NotedDeadline
  <2> QED
    BY <1>1, <1>2, <1>4, <2>2
<1> QED
  BY <1>3, <1>4 DEF RecordNext

------------------------------------------------------------------------------
(* Fail-fast.                                                              *)

Hard(i) == StopsFailFast(i, slot[i])

(* Checks the loop has not come to.                                        *)
Ahead(j) == IF main = "await" THEN cursor < j ELSE cursor <= j

(* One check at a time is at work, and none after a hard result: the loop  *)
(* remembers the one that stopped it, which lies behind the cursor.        *)
StopInv ==
  /\ main \notin {"pool", "collect"}
  /\ \A g \in Checks : group[g] \notin Resting => main = "await" /\ g = cursor
  /\ main = "probe" => stop = 0
  /\ main \in {"prepare", "await"} /\ stop = 0 => \A i \in Checks : ~Hard(i)
  /\ main = "await" => stop = 0
  /\ main \in {"probe", "prepare", "await"} =>
       \A j \in Checks : Ahead(j) => pc[j] = "idle" /\ queries[j] = 0
  /\ main = "prepare" /\ stop # 0 => stop < cursor /\ Hard(stop)
  /\ FailFastStops

LEMMA NotHard == \A i : ~StopsFailFast(i, None)
BY DEF StopsFailFast, None

LEMMA StopInit == Init => StopInv
BY NotHard DEF Init, StopInv, Hard, Resting, FailFastStops

LEMMA SinglesOnly ==
  ASSUME FailFast
  PROVE  \A g : GroupOf(g) = {g} /\ ~IsBatch(g)
BY DEF GroupOf, IsBatch

(* In a fail-fast run the only check at work is the one under the cursor.  *)
LEMMA CursorAtWork ==
  ASSUME FailFast, TypeOK, WorkInv, QueryInv, MainInv, StopInv,
         NEW g \in Checks, NEW i \in Checks, CheckStep(g, i) \/ StageStep(i)
  PROVE  main = "await" /\ i = cursor /\ i \in Runnable
<1>1. PICK h \in Leaders : i \in GroupOf(h) /\ group[h] \in Measuring
  BY AtWork
<1>2. h \in Checks /\ i = h /\ i \in Runnable
  BY <1>1, SinglesOnly, AtWork DEF Leaders, Runnable
<1> QED
  BY <1>1, <1>2 DEF StopInv, Measuring, Resting

LEMMA CursorOfInt ==
  ASSUME TypeOK
  PROVE  cursor \in Int /\ NChecks \in Nat /\ \A i \in Checks : i \in Int /\ 1 <= i /\ i <= NChecks
BY CheckAssumption DEF TypeOK, Checks

LEMMA WorkersStop ==
  ASSUME FailFast, LedgerInv, QueryInv, MainInv, BatchInv, StopInv,
         NEW g \in Checks, NEW i \in Checks, CheckStep(g, i) \/ StageStep(i) \/ GroupStep(g)
  PROVE  StopInv'
<1> USE DEF LedgerInv, TypeInv
<1>1. UNCHANGED <<main, cursor, slot, stop>>
  BY WorkersLeaveDocument
<1>2. CASE CheckStep(g, i) \/ StageStep(i)
  <2>1. main = "await" /\ i = cursor /\ UNCHANGED group
    BY <1>2, CursorAtWork, OnlyItsCheck
  <2>2. \A j \in Checks : j # cursor => pc'[j] = pc[j] /\ queries'[j] = queries[j]
    BY <1>2, <2>1, OnlyItsCheck
  <2>3. \A j \in Checks : Ahead(j) => j # cursor
    BY <2>1, CursorOfInt DEF Ahead
  <2>4. \A j \in Checks : ~Hard(j)
    BY <2>1 DEF StopInv
  <2>5. FailFastStops'
    BY <1>1, <2>4 DEF FailFastStops, Hard
  <2> QED
    BY <1>1, <2>1, <2>2, <2>3, <2>5 DEF StopInv, Hard, Ahead
<1>3. CASE GroupStep(g)
  <2>1. FinishGroup(g)
    BY <1>3, SinglesOnly
       DEF GroupStep, StartGroup, BeginBatch, EndBatch, BreakBatch, BatchInv, Batching,
           StopInv, Resting
  <2>2. UNCHANGED <<pc, queries>> /\ group' = [group EXCEPT ![g] = "finished"]
    BY <2>1 DEF FinishGroup, telemetry
  <2>3. \A h \in Checks : group'[h] \notin Resting => group[h] \notin Resting
    BY <2>2 DEF Resting, TypeOK
  <2> QED
    BY <1>1, <2>2, <2>3 DEF StopInv, Hard, Ahead, FailFastStops
<1> QED
  BY <1>2, <1>3

(* The step that records the check under the cursor in a fail-fast run.    *)
LEMMA CursorStops ==
  ASSUME FailFast, TypeOK, SlotInv, StopInv, cursor \in Checks,
         main \in {"prepare", "await"}, \A g \in Checks : group[g] \in Resting,
         NEW r \in Results, stop # 0 => r = "not_run",
         slot' = [slot EXCEPT ![cursor] = r], UNCHANGED <<group, pc, queries>>,
         \/ /\ main' = "prepare" /\ cursor' = cursor + 1
            /\ stop' = IF StopsFailFast(cursor, r) THEN cursor ELSE stop
         \/ main' = "unwinding" /\ UNCHANGED <<cursor, stop>>
  PROVE  StopInv'
<1>1. \A i \in Checks : slot'[i] = IF i = cursor THEN r ELSE slot[i]
  BY DEF TypeOK
<1>2. slot[cursor] = None /\ \A j \in Checks : cursor < j => slot[j] = None
  BY CursorOfInt DEF SlotInv
<1>3. StopsFailFast(cursor, r) => stop = 0
  BY DEF StopsFailFast
<1>4. \A j \in Checks : cursor < j => pc[j] = "idle" /\ queries[j] = 0
  BY CursorOfInt DEF StopInv, Ahead
<1>5. stop = 0 => \A i \in Checks : ~Hard(i)
  BY DEF StopInv
<1>6. FailFastStops'
  <2> SUFFICES ASSUME NEW i \in Checks, NEW j \in Checks, i < j,
                      slot'[i] # None, StopsFailFast(i, slot'[i])
               PROVE  /\ pc[j] = "idle" /\ queries[j] = 0
                      /\ slot'[j] \in {None, "not_run"}
    BY DEF FailFastStops, StopsFailFast
  <2>1. CASE i = cursor
    BY <1>1, <1>2, <1>4, <2>1, CursorOfInt
  <2>2. CASE i # cursor
    <3>1. Hard(i) /\ stop # 0 /\ slot[i] # None
      BY <1>1, <1>5, <2>2 DEF Hard
    <3>2. pc[j] = "idle" /\ queries[j] = 0 /\ slot[j] \in {None, "not_run"}
      BY <3>1 DEF StopInv, FailFastStops, Hard
    <3> QED
      BY <1>1, <3>1, <3>2
  <2> QED
    BY <2>1, <2>2
<1>7. CASE main' = "unwinding" /\ UNCHANGED <<cursor, stop>>
  BY <1>6, <1>7 DEF StopInv
<1>8. CASE /\ main' = "prepare" /\ cursor' = cursor + 1
           /\ stop' = IF StopsFailFast(cursor, r) THEN cursor ELSE stop
  <2>1. stop' = 0 => \A i \in Checks : ~Hard(i)'
    <3>1. stop' = 0 => stop = 0 /\ ~StopsFailFast(cursor, r)
      BY <1>8, CursorOfInt
    <3> QED
      BY <1>1, <1>5, <3>1 DEF Hard
  <2>2. \A j \in Checks : cursor + 1 <= j => cursor < j
    BY CursorOfInt
  <2>3. stop' # 0 => stop' < cursor + 1 /\ Hard(stop)'
    <3>1. CASE StopsFailFast(cursor, r)
      BY <1>1, <1>8, <3>1, CursorOfInt DEF Hard
    <3>2. CASE ~StopsFailFast(cursor, r) /\ stop # 0
      <4>1. stop < cursor /\ Hard(stop) /\ stop \in Checks
        BY <3>2, CursorOfInt DEF StopInv, TypeOK, Checks
      <4>2. slot'[stop] = slot[stop] /\ stop < cursor + 1
        BY <1>1, <4>1, CursorOfInt
      <4> QED
        BY <1>8, <3>2, <4>1, <4>2 DEF Hard
    <3> QED
      BY <1>8, <3>1, <3>2
  <2>4. \A j \in Checks : Ahead(j)' => pc[j] = "idle" /\ queries[j] = 0
    BY <1>4, <1>8, <2>2 DEF Ahead
  <2> QED
    BY <1>6, <1>8, <2>1, <2>3, <2>4 DEF StopInv
<1> QED
  BY <1>7, <1>8

LEMMA MainStops ==
  ASSUME FailFast, LedgerInv, MainInv, StopInv, MainStep
  PROVE  StopInv'
<1> USE DEF LedgerInv, TypeInv
<1>1. CASE ProbeTarget
  <2>1. /\ main = "probe" /\ main' = "prepare" /\ stop = 0
        /\ UNCHANGED <<cursor, stop, group, pc, slot, queries>>
        /\ \A i \in Checks : ~Hard(i)
    BY <1>1, NotHard DEF ProbeTarget, work, document, telemetry, StopInv, SlotInv, Hard
  <2> QED
    BY <2>1 DEF StopInv, Hard, Ahead, FailFastStops
<1>2. CASE SkipStopped \/ SkipGenerated \/ SkipUnsupported \/ SkipLate
  <2>1. PICK r \in Results, reason \in AllReasons, code \in SUBSET Codes : Skips(r, reason, code)
    BY <1>2, EverySkip DEF Skipping
  <2>2. /\ main = "prepare" /\ cursor \in Checks
        /\ UNCHANGED <<stop, group, pc, queries>>
        /\ slot' = [slot EXCEPT ![cursor] = r]
        /\ \/ main' = "prepare" /\ cursor' = cursor + 1
           \/ main' = "unwinding" /\ UNCHANGED cursor
    BY <2>1, SkipRecords
  <2>3. (stop # 0 => r = "not_run") /\ ~StopsFailFast(cursor, r)
    BY <2>1 DEF Skips, StopsFailFast
  <2>4. \A g \in Checks : group[g] \in Resting
    BY <2>2 DEF MainInv
  <2> QED
    BY <2>2, <2>3, <2>4, CursorStops
<1>3. CASE RunNext
  <2>1. /\ main = "prepare" /\ main' = "await" /\ stop = 0 /\ cursor \in Checks
        /\ UNCHANGED <<cursor, stop, pc, slot, queries>>
        /\ group' = [group EXCEPT ![cursor] = "solo"]
    BY <1>3 DEF RunNext, Preparing, document, telemetry
  <2>2. \A g \in Checks : group'[g] \notin Resting => g = cursor
    BY <2>1 DEF MainInv, TypeOK
  <2>3. \A j \in Checks : Ahead(j)' => Ahead(j)
    BY <2>1, CursorOfInt DEF Ahead
  <2> QED
    BY <2>1, <2>2, <2>3 DEF StopInv, Hard, FailFastStops
<1>4. CASE Collect \/ SubmitGroups \/ ClosePool \/ CollectReason \/ CloseReasons
           \/ \E g, i \in Checks : RecordMember(g, i)
  BY <1>4 DEF Collect, SubmitGroups, ClosePool, CollectReason, CloseReasons, RecordMember,
              StopInv
<1>5. CASE RecordNext
  <2>1. stop = 0 /\ \A g \in Checks : group[g] \in Resting
    BY <1>5, NextRecords DEF StopInv, Resting
  <2> QED
    BY <1>5, <2>1, NextRecords, CursorStops
<1>6. CASE FailRun \/ CloseLoop \/ CloseRun \/ RaiseFault
  <2>1. /\ UNCHANGED <<stop, group, pc, slot, queries>>
        /\ main' \in {"returned", "close", "unwinding", "raised"}
        /\ main # "await"
    BY <1>6 DEF FailRun, CloseLoop, CloseRun, RaiseFault, EmitTerminal, work, document, telemetry
  <2> QED
    BY <2>1 DEF StopInv, FailFastStops
<1> QED
  BY <1>1, <1>2, <1>3, <1>4, <1>5, <1>6 DEF MainStep

(* Stopping has lost coverage: a check after a hard result did not run.    *)
Passed == \E i, j \in Checks : i < j /\ Hard(i) /\ slot[j] = "not_run"

(* Where the document is whole it says so exactly then.                    *)
PassedInv ==
  /\ Given("fail_fast") => Passed
  /\ main \in {"prepare", "await", "close"} \/ Reported => (Passed => Given("fail_fast"))

LEMMA PassedInit == Init => PassedInv
<1> SUFFICES ASSUME Init PROVE PassedInv
  OBVIOUS
<1>1. ~Given("fail_fast")
  BY ReasonFields DEF Init, Given
<1>2. ~Passed
  BY NotHard DEF Init, Passed, Hard
<1> QED
  BY <1>1, <1>2 DEF PassedInv

(* Recording a check that was not settled keeps what was passed before.    *)
LEMMA PassedLasts ==
  ASSUME TypeOK, Passed, NEW i \in Checks, slot[i] = None, NEW r,
         slot' = [slot EXCEPT ![i] = r]
  PROVE  Passed'
<1>1. PICK h \in Checks, j \in Checks : h < j /\ Hard(h) /\ slot[j] = "not_run"
  BY DEF Passed
<1>2. slot[h] # None /\ slot[j] # None
  BY <1>1, NotHard DEF Hard, None
<1>3. slot'[h] = slot[h] /\ slot'[j] = slot[j]
  BY <1>2 DEF TypeOK
<1>4. StopsFailFast(h, slot'[h])
  BY <1>1, <1>3 DEF Hard
<1> QED
  BY <1>1, <1>3, <1>4 DEF Passed, Hard

(* Nothing was passed as long as no result was hard, and recording the     *)
(* check under the cursor then passes nothing either.                      *)
LEMMA NothingPassed ==
  ASSUME TypeOK, SlotInv, main \in {"prepare", "await"}, cursor \in Checks,
         \A i \in Checks : ~Hard(i), NEW r, slot' = [slot EXCEPT ![cursor] = r]
  PROVE  ~Passed /\ ~Passed'
<1>1. ~Passed
  BY DEF Passed
<1>2. ASSUME NEW i \in Checks, NEW j \in Checks, i < j,
             StopsFailFast(i, slot'[i]), slot'[j] = "not_run"
      PROVE  FALSE
  <2>1. i = cursor
    BY <1>2 DEF Hard, TypeOK
  <2>2. slot'[j] = None
    BY <1>2, <2>1, CursorOfInt DEF SlotInv, TypeOK
  <2> QED
    BY <1>2, <2>2 DEF None
<1> QED
  BY <1>1, <1>2 DEF Passed, Hard

LEMMA MainPasses ==
  ASSUME FailFast, LedgerInv, SaidInv, StopInv, PassedInv, MainStep
  PROVE  PassedInv'
<1> USE DEF LedgerInv, TypeInv
<1>n. NoReason.cause # "fail_fast" /\ DeadlineReason.cause # "fail_fast"
  BY ReasonFields DEF None
<1>1. CASE ProbeTarget \/ RunNext \/ CloseLoop \/ CloseRun
  <2>1. UNCHANGED <<slot, reasons>>
    BY <1>1 DEF ProbeTarget, RunNext, CloseLoop, CloseRun, document
  <2>2. Passed' = Passed /\ Given("fail_fast")' = Given("fail_fast")
    BY <2>1 DEF Passed, Hard, Given
  <2>3. main = "probe" => ~Passed
    BY NotHard DEF SlotInv, Passed, Hard
  <2>4. main \in {"probe", "prepare", "close"}
    BY <1>1 DEF ProbeTarget, RunNext, Preparing, CloseLoop, CloseRun
  <2> QED
    BY <2>2, <2>3, <2>4 DEF PassedInv
<1>2. CASE SkipStopped \/ SkipGenerated \/ SkipUnsupported \/ SkipLate
  <2>1. PICK r \in Results, reason \in AllReasons, code \in SUBSET Codes : Skips(r, reason, code)
    BY <1>2, EverySkip DEF Skipping
  <2>2. /\ main = "prepare" /\ cursor \in Checks /\ slot' = [slot EXCEPT ![cursor] = r]
        /\ \/ /\ main' = "prepare"
              /\ Range(reasons') = Range(reasons) \cup ({reason} \ {NoReason})
           \/ main' = "unwinding" /\ UNCHANGED reasons
    BY <2>1, SkipRecords
  <2>3. slot[cursor] = None
    BY <2>2, CursorOfInt DEF SlotInv
  <2>4. CASE stop # 0
    <3>1. r = "not_run" /\ reason = Reason("fail_fast", stop)
      BY <2>1, <2>4 DEF Skips
    <3>2. Given("fail_fast") => Passed'
      BY <2>2, <2>3, PassedLasts DEF PassedInv
    <3>3. CASE main' = "unwinding" /\ UNCHANGED reasons
      <4>1. Given("fail_fast")' = Given("fail_fast")
        BY <3>3 DEF Given
      <4> QED
        BY <3>2, <3>3, <4>1 DEF PassedInv, Reported, Returned
    <3>4. CASE /\ main' = "prepare"
               /\ Range(reasons') = Range(reasons) \cup ({reason} \ {NoReason})
      <4>1. reason # NoReason /\ reason.cause = "fail_fast"
        BY <3>1, RealReasons, ReasonFields
      <4>2. \E x \in Range(reasons') : x.cause = "fail_fast"
        BY <3>4, <4>1
      <4>3. Given("fail_fast")'
        BY <4>2 DEF Given, Range
      <4>4. stop \in Checks /\ stop < cursor /\ Hard(stop)
        BY <2>2, <2>4, CursorOfInt DEF StopInv, TypeOK, Checks
      <4>5. StopsFailFast(stop, slot'[stop]) /\ slot'[cursor] = "not_run"
        BY <2>2, <3>1, <4>4, CursorOfInt DEF Hard, TypeOK
      <4>6. Passed'
        BY <2>2, <4>4, <4>5 DEF Passed, Hard
      <4> QED
        BY <4>3, <4>6 DEF PassedInv
    <3> QED
      BY <2>2, <3>3, <3>4
  <2>5. CASE stop = 0
    <3>1. ~Passed /\ ~Passed'
      BY <2>2, <2>5, NothingPassed DEF StopInv
    <3>2. reason.cause # "fail_fast"
      BY <2>1, <2>5, <1>n, ReasonFields DEF Skips
    <3>3. ~\E x \in Range(reasons) : x.cause = "fail_fast"
      BY <3>1, GivenInRange DEF PassedInv
    <3>4. ~\E x \in Range(reasons') : x.cause = "fail_fast"
      BY <2>2, <3>2, <3>3
    <3>5. ~Given("fail_fast")'
      BY <3>4 DEF Given, Range
    <3> QED
      BY <3>1, <3>5 DEF PassedInv
  <2> QED
    BY <2>4, <2>5
<1>3. CASE RecordNext
  <2>1. /\ main = "await" /\ cursor \in Checks /\ slot' = [slot EXCEPT ![cursor] = outcome[cursor]]
        /\ \/ /\ main' = "prepare"
              /\ Range(reasons') = Range(reasons) \cup ({why[cursor]} \ {NoReason})
                                      \cup (IF expired THEN {DeadlineReason} ELSE {})
           \/ main' = "unwinding" /\ UNCHANGED reasons
    BY <1>3, NextRecords
  <2>2. ~Passed /\ ~Passed'
    BY <2>1, NothingPassed DEF StopInv
  <2>3. why[cursor].cause # "fail_fast"
    BY <2>1, <1>n, ReasonFields DEF SaidInv, Says, Fetched, Partly
  <2>4. ~\E x \in Range(reasons) : x.cause = "fail_fast"
    BY <2>2, GivenInRange DEF PassedInv
  <2>5. ~\E x \in Range(reasons') : x.cause = "fail_fast"
    BY <2>1, <2>3, <2>4, <1>n
  <2>6. ~Given("fail_fast")'
    BY <2>5 DEF Given, Range
  <2> QED
    BY <2>2, <2>6 DEF PassedInv
<1>4. CASE FailRun \/ RaiseFault
  <2>1. /\ UNCHANGED <<slot, reasons>>
        /\ ~Reported' /\ main' \in {"returned", "raised"}
    BY <1>4 DEF FailRun, RaiseFault, document, Reported, Returned
  <2>2. Passed' = Passed /\ Given("fail_fast")' = Given("fail_fast")
    BY <2>1 DEF Passed, Hard, Given
  <2> QED
    BY <2>1, <2>2 DEF PassedInv
<1>5. CASE Collect \/ SubmitGroups \/ ClosePool \/ CollectReason \/ CloseReasons
           \/ \E g, i \in Checks : RecordMember(g, i)
  BY <1>5 DEF Collect, SubmitGroups, ClosePool, CollectReason, CloseReasons, RecordMember,
              StopInv
<1> QED
  BY <1>1, <1>2, <1>3, <1>4, <1>5 DEF MainStep

LEMMA StopStep ==
  ASSUME FailFast, LedgerInv, QueryInv, MainInv, BatchInv, SaidInv, StopInv, PassedInv,
         [Next]_vars
  PROVE  StopInv' /\ PassedInv'
<1>1. CASE MainStep
  BY <1>1, MainStops, MainPasses
<1>2. ASSUME NEW g \in Checks, NEW i \in Checks,
             CheckStep(g, i) \/ StageStep(i) \/ GroupStep(g)
      PROVE  StopInv' /\ PassedInv'
  <2>1. StopInv'
    BY <1>2, WorkersStop
  <2>2. UNCHANGED <<main, slot, reasons, status>>
    BY <1>2, WorkersLeaveDocument
  <2>3. PassedInv'
    BY <2>2 DEF PassedInv, Passed, Hard, Given, Reported, Returned
  <2> QED
    BY <2>1, <2>3
<1>3. CASE Expire \/ Ended \/ UNCHANGED vars
  <2>1. UNCHANGED <<main, cursor, stop, group, pc, queries, slot, reasons, status>>
    BY <1>3 DEF Expire, Ended, vars, control, work, document, telemetry
  <2>2. StopInv'
    BY <2>1 DEF StopInv, Hard, Ahead, FailFastStops
  <2>3. PassedInv'
    BY <2>1 DEF PassedInv, Passed, Hard, Given, Reported, Returned
  <2> QED
    BY <2>2, <2>3
<1> QED
  BY <1>1, <1>2, <1>3 DEF Next

------------------------------------------------------------------------------
(* Gaps.                                                                   *)

(* Every gap recorded so far has its reason, except that of a pooled check,*)
(* whose reason the main thread collects when the pool is done.            *)
ExplainInv ==
  /\ main \in {"prepare", "await", "close"} \/ Reported => \A i \in Checks : Explained(i)
  /\ main \in {"pool", "collect"} => \A i \in Checks \ Runnable : Explained(i)

LEMMA ExplainInit == Init => ExplainInv
BY DEF Init, ExplainInv, Reported, Returned

LEMMA NothingToExplain ==
  ASSUME NEW i, slot[i] \notin Lost
  PROVE  Explained(i)
BY DEF Explained, Lost, Gaps

LEMMA ExplainedLasts ==
  ASSUME NEW i \in Checks, Explained(i), slot'[i] = slot[i], Range(reasons) \subseteq Range(reasons')
  PROVE  Explained(i)'
<1>1. CASE slot[i] \notin Lost
  BY <1>1 DEF Explained, Lost, Gaps
<1>2. CASE slot[i] = "not_run"
  <2>1. \/ DeadlineReason \in Range(reasons')
        \/ \E j \in Checks : j < i /\ Reason("fail_fast", j) \in Range(reasons')
    BY <1>2 DEF Explained
  <2> QED
    BY <1>2, <2>1 DEF Explained
<1>3. CASE slot[i] \in {"unsupported", "timeout"}
  BY <1>3 DEF Explained
<1> QED
  BY <1>1, <1>2, <1>3 DEF Lost, Gaps

LEMMA MainExplains ==
  ASSUME LedgerInv, MainInv, HeldInv, SaidInv, FailFast => StopInv, ExplainInv, MainStep
  PROVE  ExplainInv'
<1> USE DEF LedgerInv, TypeInv
<1>1. CASE ProbeTarget
  <2>1. main' = "prepare" /\ \A i \in Checks : slot'[i] = None
    BY <1>1 DEF ProbeTarget, document, SlotInv
  <2>2. \A i \in Checks : Explained(i)'
    BY <2>1 DEF Explained, None
  <2> QED
    BY <2>1, <2>2 DEF ExplainInv, Reported, Returned
<1>2. CASE SkipStopped \/ SkipGenerated \/ SkipUnsupported \/ SkipLate
  <2>1. PICK r \in Results, reason \in AllReasons, code \in SUBSET Codes : Skips(r, reason, code)
    BY <1>2, EverySkip DEF Skipping
  <2>2. /\ main = "prepare" /\ cursor \in Checks /\ slot' = [slot EXCEPT ![cursor] = r]
        /\ \/ /\ main' = "prepare"
              /\ Range(reasons') = Range(reasons) \cup ({reason} \ {NoReason})
           \/ main' = "unwinding"
    BY <2>1, SkipRecords
  <2>3. CASE main' = "unwinding"
    BY <2>3 DEF ExplainInv, Reported, Returned
  <2>4. CASE /\ main' = "prepare"
             /\ Range(reasons') = Range(reasons) \cup ({reason} \ {NoReason})
    <3>c. PICK c \in Checks : c = cursor
      BY <2>2
    <3>1. slot'[c] = r /\ \A i \in Checks : i # c => slot'[i] = slot[i]
      BY <2>2, <3>c DEF TypeOK
    <3>2. Explained(c)'
      <4>1. CASE stop # 0 /\ r = "not_run" /\ reason = Reason("fail_fast", stop)
        <5>1. stop \in Checks /\ stop < c
          BY <2>2, <3>c, <4>1, CursorOfInt DEF MainInv, StopInv, TypeOK, Checks
        <5>2. Reason("fail_fast", stop) \in Range(reasons')
          BY <2>4, <4>1, RealReasons
        <5> QED
          BY <3>1, <4>1, <5>1, <5>2 DEF Explained
      <4>2. CASE r = "generated"
        BY <3>1, <4>2 DEF Explained
      <4>3. CASE r = "unsupported" /\ reason = Reason("unsupported", cursor)
        BY <2>4, <3>c, <3>1, <4>3, RealReasons DEF Explained
      <4>4. CASE r = "not_run" /\ reason = DeadlineReason
        BY <2>4, <3>1, <4>4, RealReasons DEF Explained
      <4> QED
        BY <2>1, <4>1, <4>2, <4>3, <4>4 DEF Skips
    <3>3. \A i \in Checks : i # c => Explained(i)'
      BY <2>2, <2>4, <3>1, ExplainedLasts DEF ExplainInv
    <3> QED
      BY <2>4, <3>2, <3>3 DEF ExplainInv, Reported, Returned
  <2> QED
    BY <2>2, <2>3, <2>4
<1>3. CASE RunNext \/ Collect \/ SubmitGroups \/ ClosePool \/ CloseLoop
  <2>1. /\ UNCHANGED <<slot, reasons>>
        /\ \/ main = "prepare" /\ main' \in {"await", "prepare", "pool", "close"}
           \/ main = "pool" /\ main' = "collect"
    BY <1>3 DEF RunNext, Collect, SubmitGroups, ClosePool, CloseLoop, Preparing, document
  <2>2. \A i \in Checks : Explained(i) => Explained(i)'
    BY <2>1, ExplainedLasts
  <2> QED
    BY <2>1, <2>2 DEF ExplainInv, Reported, Returned
<1>4. ASSUME NEW g \in Checks, NEW i \in Checks, RecordMember(g, i) PROVE ExplainInv'
  <2>1. /\ main = "pool" /\ main' \in {"pool", "unwinding"} /\ UNCHANGED reasons
        /\ slot' = [slot EXCEPT ![i] = outcome[i]]
    BY <1>4 DEF RecordMember, RecordResult, CallbackRaises
  <2>2. i \in Runnable
    BY <1>4, GroupMember DEF RecordMember, MayRecord, WorkInv, Leaders
  <2>3. \A j \in Checks \ Runnable : slot'[j] = slot[j]
    BY <2>1, <2>2 DEF TypeOK
  <2>4. \A j \in Checks \ Runnable : Explained(j)'
    BY <2>1, <2>3, ExplainedLasts DEF ExplainInv
  <2> QED
    BY <2>1, <2>4 DEF ExplainInv, Reported, Returned
<1>5. CASE CollectReason
  <2>1. /\ main = "collect" /\ main' = "collect" /\ UNCHANGED slot /\ cursor \in Checks
        /\ Range(reasons) \subseteq Range(reasons')
    BY <1>5, WorkerReasonTypes DEF CollectReason
  <2>2. \A j \in Checks \ Runnable : Explained(j)'
    BY <2>1, ExplainedLasts DEF ExplainInv
  <2> QED
    BY <2>1, <2>2 DEF ExplainInv, Reported, Returned
<1>6. CASE CloseReasons
  <2>1. main = "collect" /\ main' = "close" /\ UNCHANGED slot
    BY <1>6 DEF CloseReasons
  <2>2. IF Runnable # {} /\ expired
        THEN Range(reasons') = Range(reasons) \cup {DeadlineReason}
        ELSE Range(reasons') = Range(reasons)
    BY <1>6, NotedDeadline DEF CloseReasons, TypeOK
  <2>3. ASSUME NEW i \in Checks PROVE Explained(i)'
    <3>1. CASE i \in Runnable
      <4>1. slot[i] = outcome[i]
        BY <2>1, <3>1 DEF HeldInv, SlotInv
      <4>2. /\ slot'[i] # "unsupported"
            /\ slot'[i] \in {"not_run", "timeout"} => DeadlineReason \in Range(reasons')
        BY <2>1, <2>2, <3>1, <4>1 DEF SaidInv, Says
      <4> QED
        BY <4>2 DEF Explained
    <3>2. CASE i \notin Runnable
      BY <2>1, <2>2, <3>2, ExplainedLasts DEF ExplainInv
    <3> QED
      BY <3>1, <3>2
  <2> QED
    BY <2>1, <2>3 DEF ExplainInv, Reported, Returned
<1>7. CASE RecordNext
  <2>1. /\ main = "await" /\ cursor \in Checks /\ slot' = [slot EXCEPT ![cursor] = outcome[cursor]]
        /\ \/ /\ main' = "prepare"
              /\ Range(reasons') = Range(reasons) \cup ({why[cursor]} \ {NoReason})
                                      \cup (IF expired THEN {DeadlineReason} ELSE {})
           \/ main' = "unwinding"
    BY <1>7, NextRecords
  <2>2. CASE main' = "unwinding"
    BY <2>2 DEF ExplainInv, Reported, Returned
  <2>3. CASE /\ main' = "prepare"
             /\ Range(reasons') = Range(reasons) \cup ({why[cursor]} \ {NoReason})
                                      \cup (IF expired THEN {DeadlineReason} ELSE {})
    <3>c. PICK c \in Checks : c = cursor
      BY <2>1
    <3>1. slot'[c] = outcome[c] /\ \A i \in Checks : i # c => slot'[i] = slot[i]
      BY <2>1, <3>c DEF TypeOK
    <3>2. /\ slot'[c] # "unsupported"
          /\ slot'[c] \in {"not_run", "timeout"} => DeadlineReason \in Range(reasons')
      BY <2>1, <2>3, <3>1 DEF SaidInv, Says
    <3>3. Explained(c)'
      BY <3>2 DEF Explained
    <3>4. \A i \in Checks : i # c => Explained(i)'
      BY <2>1, <2>3, <3>1, ExplainedLasts DEF ExplainInv
    <3> QED
      BY <2>3, <3>3, <3>4 DEF ExplainInv, Reported, Returned
  <2> QED
    BY <2>1, <2>2, <2>3
<1>8. CASE CloseRun
  <2>1. /\ main = "close" /\ UNCHANGED <<slot, reasons>>
        /\ main' \in {"returned", "unwinding"}
    BY <1>8 DEF CloseRun
  <2>2. \A i \in Checks : Explained(i)'
    BY <2>1, ExplainedLasts DEF ExplainInv
  <2> QED
    BY <2>1, <2>2 DEF ExplainInv
<1>9. CASE FailRun \/ RaiseFault
  BY <1>9 DEF FailRun, RaiseFault, ExplainInv, Reported, Returned
<1> QED
  BY <1>1, <1>2, <1>3, <1>4, <1>5, <1>6, <1>7, <1>8, <1>9 DEF MainStep

LEMMA ExplainStep ==
  ASSUME LedgerInv, MainInv, HeldInv, SaidInv, FailFast => StopInv, ExplainInv, [Next]_vars
  PROVE  ExplainInv'
<1>1. CASE UNCHANGED <<main, slot, reasons, status>>
  BY <1>1 DEF ExplainInv, Explained, Reported, Returned
<1>2. CASE MainStep
  BY <1>2, MainExplains
<1> QED
  BY <1>1, <1>2, WorkersLeaveDocument DEF Next, Expire, Ended, vars, control, document

(* What a worker says, how a fail-fast run stops and how gaps are          *)
(* explained, on top of what was known of the pool and of lost coverage.   *)
TellInv ==
  /\ ReasonInv /\ BatchInv /\ SaidInv /\ ExplainInv
  /\ FailFast => StopInv /\ PassedInv

LEMMA TellInvariant == Spec => []TellInv
<1>1. Init => TellInv
  BY TypeInit, LedgerInit, PoolInit, ReasonInit, MeasureInit, SaidInit, ExplainInit,
     StopInit, PassedInit DEF TellInv, ReasonInv, PoolInv, LedgerInv
<1>2. TellInv /\ [Next]_vars => TellInv'
  <2> SUFFICES ASSUME TellInv, [Next]_vars PROVE TellInv'
    OBVIOUS
  <2> USE DEF TellInv, ReasonInv, PoolInv, LedgerInv, TypeInv
  <2>1. ReasonInv'
    BY ReasonStep
  <2>2. BatchInv' /\ SaidInv'
    BY BatchStep, SaidStep
  <2>3. ExplainInv'
    BY ExplainStep
  <2>4. FailFast => StopInv' /\ PassedInv'
    BY StopStep
  <2> QED
    BY <2>1, <2>2, <2>3, <2>4
<1> QED
  BY <1>1, <1>2, PTL DEF Spec

(* A fail-fast run starts nothing after a hard result, says that it        *)
(* stopped exactly when that lost the coverage of a later check, and in    *)
(* every mode each gap of a returned document has its own reason.          *)
THEOREM StoppingIsExact == Spec => []StopsAreExact
<1>1. TellInv => FailFastStops
  BY DEF TellInv, StopInv, FailFastStops
<1>2. TellInv => StopReportedIffCoverageLost
  BY DEF TellInv, PassedInv, Passed, Hard, StopReportedIffCoverageLost
<1>3. TellInv => GapsExplained
  BY DEF TellInv, ExplainInv, GapsExplained
<1>4. TellInv => StopsAreExact
  BY <1>1, <1>2, <1>3 DEF StopsAreExact
<1> QED
  BY <1>4, TellInvariant, PTL

------------------------------------------------------------------------------
(* The codes beside the reasons.                                           *)

(* What the codes and the reasons have in common while the run goes on.    *)
(* Workers add a code when they leave its reason aside; the deadline's may *)
(* come with neither, and is settled where the main thread reads the clock.*)
CodeInv ==
  /\ "input" \in codes <=> Given("input")
  /\ "unsupported" \in codes <=> Given("unsupported")
  /\ "baseline" \in codes <=> \E i \in Checks : why[i].cause \in Partly
  /\ "baseline_missing" \in codes <=> \E i \in Checks : why[i].cause = "baseline_missing"
  /\ "deadline" \in codes \/ Given("deadline") => expired /\ Runnable # {}
  /\ \A r \in Range(reasons) :
       /\ r.cause \in Partly => "baseline" \in codes
       /\ r.cause = "baseline_missing" => "baseline_missing" \in codes
  /\ main \in {"probe", "close"} \/ Reported \/ (main = "prepare" /\ FailFast) =>
       ("deadline" \in codes <=> Given("deadline"))

(* The checks whose reason the main thread has taken over.                 *)
Noted(i) == why[i] \in {NoReason} \cup Range(reasons)

NotedInv ==
  /\ main = "close" \/ Reported \/ (main = "prepare" /\ FailFast) => \A i \in Checks : Noted(i)
  /\ main = "await" => \A i \in Checks : i # cursor => Noted(i)
  /\ main = "collect" => \A i \in Checks : i < cursor => Noted(i)

LEMMA CodeInit == Init => CodeInv /\ NotedInv
<1> SUFFICES ASSUME Init PROVE CodeInv /\ NotedInv
  OBVIOUS
<1>1. main = "probe" /\ \A i \in Checks : why[i] = NoReason
  BY DEF Init
<1>2. None \notin Fetched
  BY DEF None, Fetched, Partly
<1>3. CASE reasons = <<>> /\ codes = {}
  <2>1. Range(reasons) = {}
    BY <1>3 DEF Range
  <2> QED
    BY <1>1, <1>2, <1>3, <2>1, ReasonFields, GivenInRange
       DEF CodeInv, NotedInv, Reported, Returned, Fetched
<1>4. CASE reasons = <<InputReason>> /\ codes = {"input"}
  <2>1. Range(reasons) = {InputReason}
    BY <1>4 DEF Range
  <2> QED
    BY <1>1, <1>2, <1>4, <2>1, ReasonFields, GivenInRange
       DEF CodeInv, NotedInv, Reported, Returned, Fetched, Partly
<1> QED
  BY <1>3, <1>4 DEF Init

(* How a worker's step at check i changes its reason and the codes.        *)
Accounts(i) ==
  \/ why'[i] = why[i] /\ codes' = codes
  \/ why[i] = NoReason /\ why'[i] = DeadlineReason /\ codes' = codes /\ expired
  \/ why[i] = NoReason /\ why'[i] = Reason("baseline", i) /\ codes' = codes \cup {"baseline"}
  \/ /\ why[i] = NoReason /\ why'[i] = Reason("baseline_missing", i)
     /\ codes' = codes \cup {"baseline_missing"}
  \/ /\ why[i] \in {NoReason, Reason("baseline", i)} /\ why'[i] = WithDeadline(i, why[i])
     /\ codes' = codes \cup {"deadline"} /\ expired

LEMMA TimedOutAccounts ==
  ASSUME TypeOK, NEW i \in Checks, Says(i), pc[i] # "settled", SettleTimeout(i)
  PROVE  Accounts(i)
BY DEF SettleTimeout, Settle, Accounts, Says, TypeOK

LEMMA CheckStepAccounts ==
  ASSUME TypeOK, NEW g \in Checks, NEW i \in Checks, Says(i), CheckStep(g, i)
  PROVE  Accounts(i)
<1>1. CASE StartCheck(g, i)
  <2>1. why[i] = NoReason /\ codes' = codes
    BY <1>1 DEF StartCheck, Turn, Says, Early, telemetry
  <2>2. why'[i] = NoReason \/ (expired /\ why'[i] = DeadlineReason)
    BY <1>1, <2>1 DEF StartCheck, Settle, Advance, TypeOK
  <2> QED
    BY <2>1, <2>2 DEF Accounts
<1>2. CASE StartMember(g, i)
  BY <1>2 DEF StartMember, Advance, Accounts, telemetry
<1>3. CASE FailMember(g, i)
  <2>1. pc[i] # "settled"
    BY <1>3 DEF FailMember, Turn
  <2>2. CASE Settle(i, "errored", why[i]) /\ UNCHANGED codes
    BY <2>2 DEF Settle, Accounts, TypeOK
  <2> QED
    BY <1>3, <2>1, <2>2, TimedOutAccounts DEF FailMember
<1>4. CASE Evaluate(g, i)
  <2>1. pc[i] # "settled"
    BY <1>4 DEF Evaluate
  <2>2. ASSUME NEW r, Settle(i, r, why[i]), UNCHANGED codes PROVE Accounts(i)
    BY <2>2 DEF Settle, Accounts, TypeOK
  <2> QED
    BY <1>4, <2>1, <2>2, TimedOutAccounts DEF Evaluate
<1> QED
  BY <1>1, <1>2, <1>3, <1>4 DEF CheckStep

LEMMA StageStepAccounts ==
  ASSUME TypeOK, NEW i \in Checks, Says(i), StageStep(i)
  PROVE  Accounts(i)
<1>s. ASSUME NEW r, NEW reason, reason = why[i], Settle(i, r, reason), UNCHANGED codes
      PROVE  Accounts(i)
  BY <1>s DEF Settle, Accounts, TypeOK
<1>1. CASE Compile(i)
  BY <1>1, <1>s DEF Compile, Advance, Accounts, Says, Early, telemetry
<1>2. CASE ReadBaseline(i)
  <2>1. why[i] = NoReason
    BY <1>2 DEF ReadBaseline, Says, Early
  <2> QED
    BY <1>2, <2>1 DEF ReadBaseline, Settle, Advance, Accounts, TypeOK
<1>3. CASE BeginQuery(i)
  <2>1. pc[i] # "settled"
    BY <1>3 DEF BeginQuery, QueryStages
  <2> QED
    BY <1>3, <2>1, TimedOutAccounts DEF BeginQuery, Accounts, telemetry
<1>4. CASE EndQuery(i)
  <2>1. pc[i] # "settled" /\ (pc[i] \in {"presence", "nodecount"} => why[i] = NoReason)
    BY <1>4 DEF EndQuery, QueryStages, Says, Early
  <2>2. CASE (\E stage \in AfterQuery(i) : Advance(i, stage)) /\ UNCHANGED codes
    BY <2>2 DEF Advance, Accounts
  <2> QED
    BY <1>4, <1>s, <2>1, <2>2, TimedOutAccounts DEF EndQuery
<1> QED
  BY <1>1, <1>2, <1>3, <1>4 DEF StageStep

LEMMA AccountsKeepCodes ==
  ASSUME CodeInv, NEW i \in Checks, i \in Runnable, Accounts(i),
         \A j \in Checks : j # i => why'[j] = why[j],
         UNCHANGED <<main, reasons, status, expired>>,
         main \in {"await", "pool", "unwinding"}
  PROVE  CodeInv'
<1>1. \A c : Given(c)' = Given(c)
  BY DEF Given
<1>2. None \notin Fetched /\ "deadline" \notin Fetched
  BY DEF None, Fetched, Partly
<1>3. /\ why[i].cause \in Partly => why'[i].cause \in Partly
      /\ why[i].cause = "baseline_missing" => why'[i].cause = "baseline_missing"
  BY <1>2, ReasonFields DEF Accounts, WithDeadline, Fetched, Partly
<1>4. /\ "baseline" \in codes' <=> "baseline" \in codes \/ why'[i].cause \in Partly
      /\ "baseline_missing" \in codes' <=>
           "baseline_missing" \in codes \/ why'[i].cause = "baseline_missing"
  BY <1>2, ReasonFields DEF Accounts, WithDeadline, Fetched, Partly, CodeInv
<1>5. /\ "input" \in codes' <=> "input" \in codes
      /\ "unsupported" \in codes' <=> "unsupported" \in codes
      /\ "deadline" \in codes' => "deadline" \in codes \/ expired
      /\ codes \subseteq codes'
  BY DEF Accounts
<1>6. "baseline" \in codes' <=> \E j \in Checks : why'[j].cause \in Partly
  BY <1>3, <1>4 DEF CodeInv
<1>7. "baseline_missing" \in codes' <=> \E j \in Checks : why'[j].cause = "baseline_missing"
  BY <1>3, <1>4 DEF CodeInv
<1>8. \A r \in Range(reasons') :
        /\ r.cause \in Partly => "baseline" \in codes'
        /\ r.cause = "baseline_missing" => "baseline_missing" \in codes'
  BY <1>5 DEF CodeInv
<1>9. ~(main' \in {"probe", "close", "returned", "prepare"})
  OBVIOUS
<1>10. "deadline" \in codes' \/ Given("deadline") => expired /\ Runnable # {}
  BY <1>5 DEF CodeInv
<1> QED
  BY <1>1, <1>5, <1>6, <1>7, <1>8, <1>9, <1>10 DEF CodeInv, Reported, Returned

(* What a step of the main thread adds: a reason with the code of its      *)
(* cause, if it has one.                                                   *)
LEMMA SkipKeepsCodes ==
  ASSUME TypeOK, MainInv, CodeInv, SkipStopped \/ SkipGenerated \/ SkipUnsupported \/ SkipLate
  PROVE  CodeInv'
<1>1. PICK r \in Results, reason \in AllReasons, code \in SUBSET Codes : Skips(r, reason, code)
  BY EverySkip DEF Skipping
<1>2. /\ main = "prepare" /\ UNCHANGED <<status, expired, why>>
      /\ \/ /\ main' = "prepare" /\ codes' = codes \cup code
            /\ Range(reasons') = Range(reasons) \cup ({reason} \ {NoReason})
         \/ main' = "unwinding" /\ UNCHANGED <<codes, reasons>>
  BY <1>1, SkipRecords
<1>3. CASE main' = "unwinding" /\ UNCHANGED <<codes, reasons>>
  BY <1>2, <1>3 DEF CodeInv, Given, Reported, Returned
<1>4. CASE /\ main' = "prepare" /\ codes' = codes \cup code
           /\ Range(reasons') = Range(reasons) \cup ({reason} \ {NoReason})
  <2>1. \A c : Given(c) <=> \E x \in Range(reasons) : x.cause = c
    BY GivenInRange
  <2>2. \A c : Given(c)' <=> \E x \in Range(reasons') : x.cause = c
    BY DEF Given, Range
  <2>3. \/ reason.cause = "fail_fast" /\ code = {}
        \/ reason = NoReason /\ code = {}
        \/ reason.cause = "unsupported" /\ code = {"unsupported"}
        \/ /\ reason.cause = "deadline" /\ code = {"deadline"}
           /\ expired /\ FailFast /\ cursor \in Runnable
    BY <1>1, ReasonFields DEF Skips
  <2>4. reason # NoReason => \A c : Given(c)' <=> Given(c) \/ c = reason.cause
    BY <1>4, <2>1, <2>2
  <2>5. reason = NoReason => \A c : Given(c)' <=> Given(c)
    BY <1>4, <2>1, <2>2
  <2>6. reason.cause \notin Fetched
    BY <2>3, ReasonFields DEF Fetched, Partly, None
  <2>7. NoReason.cause = None /\ None \notin {"fail_fast", "unsupported", "deadline"}
    BY ReasonFields DEF None
  <2>8. /\ "input" \in codes' <=> Given("input")'
        /\ "unsupported" \in codes' <=> Given("unsupported")'
    BY <1>4, <2>3, <2>4, <2>5, <2>7 DEF CodeInv
  <2>9. \/ "deadline" \in codes' \/ Given("deadline")' => expired /\ Runnable # {}
    BY <1>4, <2>3, <2>4, <2>5, <2>7 DEF CodeInv
  <2>10. FailFast => ("deadline" \in codes' <=> Given("deadline")')
    BY <1>2, <1>4, <2>3, <2>4, <2>5, <2>7 DEF CodeInv
  <2>11. /\ "baseline" \in codes' <=> "baseline" \in codes
         /\ "baseline_missing" \in codes' <=> "baseline_missing" \in codes
    BY <1>4, <2>3
  <2>12. \A x \in Range(reasons') :
           /\ x.cause \in Partly => "baseline" \in codes'
           /\ x.cause = "baseline_missing" => "baseline_missing" \in codes'
    BY <1>4, <2>6, <2>11 DEF CodeInv, Fetched
  <2> QED
    BY <1>2, <1>4, <2>8, <2>9, <2>10, <2>11, <2>12 DEF CodeInv, Reported, Returned
<1> QED
  BY <1>2, <1>3, <1>4

(* The main thread takes over a worker's reason r and, where it has read   *)
(* the clock, adds the deadline to both accounts if it has passed.         *)
LEMMA TakenOverKeepsCodes ==
  ASSUME CodeInv, SaidInv, NEW i \in Checks, NEW S \in SUBSET {NoReason, why[i]},
         NEW late \in BOOLEAN, late => expired /\ Runnable # {},
         Range(reasons') = Range(reasons) \cup (S \ {NoReason})
                             \cup (IF late THEN {DeadlineReason} ELSE {}),
         codes' = codes \cup (IF late THEN {"deadline"} ELSE {}),
         UNCHANGED <<why, expired>>,
         \/ main' = "collect"
         \/ main' \in {"close", "prepare"} /\ (expired /\ Runnable # {} => late)
  PROVE  CodeInv'
<1>1. \A c : Given(c) <=> \E x \in Range(reasons) : x.cause = c
  BY GivenInRange
<1>2. \A c : Given(c)' <=> \E x \in Range(reasons') : x.cause = c
  BY DEF Given, Range
<1>3. why[i].cause \in {None, "deadline"} \cup Fetched
  BY ReasonFields DEF SaidInv, Says
<1>4. why[i].cause = "deadline" => expired /\ Runnable # {}
  <2>1. why[i].cause = "deadline" => why[i] = DeadlineReason /\ why[i] # NoReason
    BY ReasonFields DEF SaidInv, Says, Fetched, Partly, None
  <2> QED
    BY <2>1 DEF SaidInv, Says
<1>5. \A c : Given(c) => Given(c)'
  BY <1>1, <1>2
<1>6. \A c \in {"input", "unsupported"} : Given(c)' <=> Given(c)
  <2>1. \A x \in Range(reasons') : x.cause \in {"input", "unsupported"} => x \in Range(reasons)
    BY <1>3, ReasonFields DEF Fetched, Partly, None
  <2> QED
    BY <1>1, <1>2, <2>1
<1>7. Given("deadline")' => Given("deadline") \/ late \/ (expired /\ Runnable # {})
  BY <1>1, <1>2, <1>4
<1>8. late => Given("deadline")'
  BY <1>2, ReasonFields
<1>9. \A x \in Range(reasons') :
        /\ x.cause \in Partly => "baseline" \in codes'
        /\ x.cause = "baseline_missing" => "baseline_missing" \in codes'
  <2>1. ASSUME NEW x \in Range(reasons')
        PROVE  x \in Range(reasons) \/ x = why[i] \/ x.cause = "deadline"
    BY <2>1, ReasonFields
  <2>2. /\ why[i].cause \in Partly => "baseline" \in codes
        /\ why[i].cause = "baseline_missing" => "baseline_missing" \in codes
    BY DEF CodeInv
  <2> QED
    BY <2>1, <2>2 DEF CodeInv, Partly
<1>10. /\ \A c \in {"input", "unsupported", "baseline", "baseline_missing"} : c \in codes' <=> c \in codes
       /\ "deadline" \in codes' <=> "deadline" \in codes \/ late
  OBVIOUS
<1>11. /\ "input" \in codes' <=> Given("input")'
       /\ "unsupported" \in codes' <=> Given("unsupported")'
       /\ "baseline" \in codes' <=> \E j \in Checks : why'[j].cause \in Partly
       /\ "baseline_missing" \in codes' <=> \E j \in Checks : why'[j].cause = "baseline_missing"
  BY <1>6, <1>10 DEF CodeInv
<1>12. "deadline" \in codes' \/ Given("deadline")' => expired' /\ Runnable # {}
  BY <1>7, <1>10 DEF CodeInv
<1>13. main' # "collect" => ("deadline" \in codes' <=> Given("deadline")')
  BY <1>7, <1>8, <1>10 DEF CodeInv
<1> QED
  BY <1>9, <1>11, <1>12, <1>13 DEF CodeInv, Reported, Returned

LEMMA MainKeepsCodes ==
  ASSUME TypeInv, WorkInv, MainInv, SaidInv, CodeInv, MainStep
  PROVE  CodeInv'
<1> USE DEF TypeInv
<1>1. CASE SkipStopped \/ SkipGenerated \/ SkipUnsupported \/ SkipLate
  BY <1>1, SkipKeepsCodes
<1>2. CASE CollectReason
  <2>1. /\ main = "collect" /\ main' = "collect" /\ cursor \in Checks
        /\ UNCHANGED <<why, codes, expired>>
        /\ Range(reasons') = Range(reasons) \cup ({why[cursor]} \ {NoReason})
    BY <1>2, WorkerReasonTypes DEF CollectReason, work, telemetry
  <2>2. /\ Range(reasons') = Range(reasons) \cup ({why[cursor]} \ {NoReason})
                               \cup (IF FALSE THEN {DeadlineReason} ELSE {})
        /\ codes' = codes \cup (IF FALSE THEN {"deadline"} ELSE {})
    BY <2>1
  <2> QED
    BY <2>1, <2>2, TakenOverKeepsCodes
<1>3. CASE CloseReasons
  <2>1. /\ main = "collect" /\ main' = "close" /\ cursor > NChecks
        /\ UNCHANGED <<why, expired, status>>
        /\ IF Runnable # {} /\ expired
           THEN Range(reasons') = Range(reasons) \cup {DeadlineReason}
                /\ codes' = codes \cup {"deadline"}
           ELSE Range(reasons') = Range(reasons) /\ codes' = codes
    BY <1>3, NotedDeadline DEF CloseReasons, TypeOK, work
  <2>2. CASE Runnable # {}
    <3>1. PICK i \in Checks : i \in Runnable
      BY <2>2 DEF Runnable
    <3>2. /\ Range(reasons') = Range(reasons) \cup ({} \ {NoReason})
                                 \cup (IF expired THEN {DeadlineReason} ELSE {})
          /\ codes' = codes \cup (IF expired THEN {"deadline"} ELSE {})
      BY <2>1, <2>2
    <3>3. expired \in BOOLEAN /\ {} \in SUBSET {NoReason, why[i]}
      BY DEF TypeOK
    <3> QED
      BY <2>1, <2>2, <3>2, <3>3, TakenOverKeepsCodes
  <2>3. CASE Runnable = {}
    <3>1. Range(reasons') = Range(reasons) /\ codes' = codes
      BY <2>1, <2>3
    <3>2. \A c : Given(c)' <=> Given(c)
      BY <3>1 DEF Given, Range
    <3> QED
      BY <2>1, <2>3, <3>1, <3>2 DEF CodeInv
  <2> QED
    BY <2>2, <2>3
<1>4. CASE RecordNext
  <2>1. /\ cursor \in Checks /\ UNCHANGED <<why, expired, status>>
        /\ \/ /\ main' = "prepare"
              /\ Range(reasons') = Range(reasons) \cup ({why[cursor]} \ {NoReason})
                                      \cup (IF expired THEN {DeadlineReason} ELSE {})
              /\ codes' = codes \cup (IF expired THEN {"deadline"} ELSE {})
           \/ main' = "unwinding" /\ UNCHANGED <<reasons, codes>>
    BY <1>4, NextRecords
  <2>2. Runnable # {} /\ expired \in BOOLEAN
    BY <1>4, <2>1, NextRecords DEF WorkInv, Leaders, TypeOK
  <2>3. CASE main' = "unwinding" /\ UNCHANGED <<reasons, codes>>
    BY <2>1, <2>3 DEF CodeInv, Given, Reported, Returned
  <2>4. CASE main' = "prepare"
    BY <2>1, <2>2, <2>4, TakenOverKeepsCodes
  <2> QED
    BY <2>1, <2>3, <2>4
<1>5. ASSUME UNCHANGED <<codes, reasons, why, expired>>,
             \/ main' \notin {"probe", "prepare", "close", "returned"}
             \/ main' = "prepare" /\ (main = "probe" \/ ~FailFast)
             \/ main' = "close" /\ main = "prepare" /\ FailFast
             \/ main' = "returned" /\ (status' = "failed" \/ main = "close")
      PROVE  CodeInv'
  <2>1. \A c : Given(c)' <=> Given(c)
    BY <1>5 DEF Given
  <2>2. main' \in {"probe", "close"} \/ Reported' \/ (main' = "prepare" /\ FailFast) =>
          main \in {"probe", "close"} \/ (main = "prepare" /\ FailFast)
    BY <1>5 DEF Reported, Returned
  <2> QED
    BY <1>5, <2>1, <2>2 DEF CodeInv
<1>6. CASE ProbeTarget \/ FailRun \/ RunNext \/ Collect \/ SubmitGroups \/ ClosePool
           \/ CloseLoop \/ CloseRun \/ RaiseFault
  <2>1. UNCHANGED <<codes, reasons, why, expired>>
    BY <1>6 DEF ProbeTarget, FailRun, RunNext, Collect, SubmitGroups, ClosePool, CloseLoop,
                CloseRun, RaiseFault, work, document, telemetry
  <2>2. \/ main' \notin {"probe", "prepare", "close", "returned"}
        \/ main' = "prepare" /\ (main = "probe" \/ ~FailFast)
        \/ main' = "close" /\ main = "prepare" /\ FailFast
        \/ main' = "returned" /\ (status' = "failed" \/ main = "close")
    BY <1>6 DEF ProbeTarget, FailRun, RunNext, Collect, Preparing, SubmitGroups, ClosePool,
                CloseLoop, CloseRun, RaiseFault
  <2> QED
    BY <1>5, <2>1, <2>2
<1>7. ASSUME NEW g \in Checks, NEW i \in Checks, RecordMember(g, i) PROVE CodeInv'
  <2>1. UNCHANGED <<codes, reasons, why, expired>> /\ main' \in {"pool", "unwinding"}
    BY <1>7 DEF RecordMember, RecordResult, CallbackRaises, work
  <2> QED
    BY <1>5, <2>1
<1> QED
  BY <1>1, <1>2, <1>3, <1>4, <1>6, <1>7 DEF MainStep

LEMMA CodeStep ==
  ASSUME TypeInv, WorkInv, QueryInv, MainInv, BatchInv, SaidInv, CodeInv, [Next]_vars
  PROVE  CodeInv'
<1> USE DEF TypeInv
<1>1. CASE MainStep
  BY <1>1, MainKeepsCodes
<1>2. ASSUME NEW g \in Checks, NEW i \in Checks, CheckStep(g, i) \/ StageStep(i)
      PROVE  CodeInv'
  <2>1. i \in Runnable /\ main \in {"await", "pool", "unwinding"} /\ Accounts(i)
    BY <1>2, AtWork, CheckStepAccounts, StageStepAccounts DEF SaidInv
  <2>2. UNCHANGED <<main, reasons, status, expired>>
    BY <1>2, OnlyItsCheck, WorkersLeaveDocument
  <2>3. \A j \in Checks : j # i => why'[j] = why[j]
    BY <1>2, OnlyItsCheck
  <2> QED
    BY <2>1, <2>2, <2>3, AccountsKeepCodes
<1>3. CASE UNCHANGED <<main, reasons, status, codes, why>> /\ (expired => expired')
  BY <1>3 DEF CodeInv, Given, Reported, Returned
<1>4. ASSUME NEW g \in Checks, BreakBatch(g) PROVE CodeInv'
  <2>1. UNCHANGED <<main, reasons, status, codes, expired>> /\ group[g] \in Batching
    BY <1>4 DEF BreakBatch, control, document, telemetry, Batching
  <2>2. ASSUME NEW i \in Checks
        PROVE  why'[i].cause \in Fetched \/ why[i].cause \in Fetched => why'[i] = why[i]
    <3>1. CASE i \in GroupOf(g)
      <4>1. Kind[i] # "drift" /\ why'[i] = NoReason
        BY <1>4, <2>1, <3>1, BatchesAreDriftless DEF BreakBatch
      <4> QED
        BY <4>1, ReasonFields DEF SaidInv, Says, Fetched, Partly, None
    <3>2. CASE i \notin GroupOf(g)
      BY <1>4, <3>2 DEF BreakBatch
    <3> QED
      BY <3>1, <3>2
  <2>3. /\ (\E i \in Checks : why'[i].cause \in Partly) <=> \E i \in Checks : why[i].cause \in Partly
        /\ (\E i \in Checks : why'[i].cause = "baseline_missing") <=>
             \E i \in Checks : why[i].cause = "baseline_missing"
    BY <2>2 DEF Fetched
  <2> QED
    BY <2>1, <2>3 DEF CodeInv, Given, Reported, Returned
<1>5. ASSUME NEW g \in Checks, GroupStep(g), ~BreakBatch(g) PROVE CodeInv'
  BY <1>3, <1>5 DEF GroupStep, StartGroup, BeginBatch, EndBatch, FinishGroup, control,
                    document, telemetry
<1> QED
  BY <1>1, <1>2, <1>3, <1>4, <1>5
     DEF Next, Expire, Ended, vars, control, work, document, telemetry

LEMMA NotedLasts ==
  ASSUME NEW i \in Checks, Noted(i), why'[i] = why[i], Range(reasons) \subseteq Range(reasons')
  PROVE  Noted(i)'
BY DEF Noted

LEMMA MainKeepsNoted ==
  ASSUME LedgerInv, SaidInv, FailFast => StopInv, NotedInv, MainStep
  PROVE  NotedInv'
<1> USE DEF LedgerInv, TypeInv
<1>w. UNCHANGED why
  BY MainStepsOfWork
<1>1. CASE ProbeTarget
  <2>1. main = "probe" /\ main' = "prepare" /\ cursor = 1
    BY <1>1 DEF ProbeTarget, SlotInv
  <2>2. FailFast => \A i \in Checks : pc[i] = "idle"
    BY <2>1, CursorOfInt DEF StopInv, Ahead
  <2>3. FailFast => \A i \in Checks : why[i] = NoReason
    BY <2>2 DEF SaidInv, Says, Early
  <2> QED
    BY <1>w, <2>1, <2>3 DEF NotedInv, Noted, Reported, Returned
<1>2. CASE SkipStopped \/ SkipGenerated \/ SkipUnsupported \/ SkipLate
  <2>1. /\ main = "prepare"
        /\ \/ main' = "prepare" /\ Range(reasons) \subseteq Range(reasons')
           \/ main' = "unwinding"
    <3>1. PICK r \in Results, reason \in AllReasons, code \in SUBSET Codes : Skips(r, reason, code)
      BY <1>2, EverySkip DEF Skipping
    <3> QED
      BY <3>1, SkipRecords
  <2> QED
    BY <1>w, <2>1, NotedLasts DEF NotedInv, Reported, Returned
<1>3. CASE RunNext \/ CloseLoop \/ CloseRun
  <2>1. /\ UNCHANGED reasons
        /\ \/ main = "prepare" /\ FailFast /\ main' \in {"await", "close"}
           \/ main = "close" /\ main' \in {"returned", "unwinding"}
    BY <1>3 DEF RunNext, CloseLoop, CloseRun, Preparing, document
  <2>2. \A i \in Checks : Noted(i)
    BY <2>1 DEF NotedInv
  <2>3. \A i \in Checks : Noted(i)'
    BY <1>w, <2>1, <2>2 DEF Noted
  <2> QED
    BY <2>1, <2>3 DEF NotedInv
<1>4. CASE Collect \/ SubmitGroups \/ FailRun \/ RaiseFault
           \/ \E g, i \in Checks : RecordMember(g, i)
  <2>1. \/ main' \in {"pool", "unwinding", "raised"}
        \/ main' = "prepare" /\ ~FailFast
        \/ main' = "returned" /\ status' = "failed"
    BY <1>4 DEF Collect, Preparing, SubmitGroups, FailRun, RaiseFault, RecordMember,
                RecordResult, CallbackRaises
  <2> QED
    BY <2>1 DEF NotedInv, Reported, Returned
<1>5. CASE ClosePool
  <2>1. main' = "collect" /\ cursor' = 1
    BY <1>5 DEF ClosePool
  <2>2. \A i \in Checks : ~(i < 1)
    BY CursorOfInt
  <2> QED
    BY <2>1, <2>2 DEF NotedInv, Reported, Returned
<1>6. CASE CollectReason
  <2>1. /\ main = "collect" /\ main' = "collect" /\ cursor \in Checks /\ cursor' = cursor + 1
        /\ Range(reasons') = Range(reasons) \cup ({why[cursor]} \ {NoReason})
    BY <1>6, WorkerReasonTypes DEF CollectReason
  <2>2. PICK c \in Checks : c = cursor
    BY <2>1
  <2>3. Noted(c)'
    BY <1>w, <2>1, <2>2 DEF Noted
  <2>4. ASSUME NEW i \in Checks, i < cursor + 1 PROVE Noted(i)'
    <3>1. CASE i = c
      BY <2>3, <3>1
    <3>2. CASE i # c
      <4>1. Noted(i)
        BY <2>1, <2>2, <2>4, <3>2, CursorOfInt DEF NotedInv
      <4> QED
        BY <1>w, <2>1, <4>1, NotedLasts
    <3> QED
      BY <3>1, <3>2
  <2> QED
    BY <2>1, <2>4 DEF NotedInv, Reported, Returned
<1>7. CASE CloseReasons
  <2>1. /\ main = "collect" /\ main' = "close" /\ cursor > NChecks
        /\ Range(reasons) \subseteq Range(reasons')
    BY <1>7, NotedDeadline DEF CloseReasons, TypeOK
  <2>2. \A i \in Checks : Noted(i)
    BY <2>1, CursorOfInt DEF NotedInv
  <2> QED
    BY <1>w, <2>1, <2>2, NotedLasts DEF NotedInv, Reported, Returned
<1>8. CASE RecordNext
  <2>1. /\ main = "await" /\ cursor \in Checks
        /\ \/ /\ main' = "prepare"
              /\ Range(reasons') = Range(reasons) \cup ({why[cursor]} \ {NoReason})
                                      \cup (IF expired THEN {DeadlineReason} ELSE {})
           \/ main' = "unwinding"
    BY <1>8, NextRecords
  <2>2. PICK c \in Checks : c = cursor
    BY <2>1
  <2>3. main' = "prepare" => \A i \in Checks : Noted(i)'
    <3>1. main' = "prepare" => Noted(c)'
      BY <1>w, <2>1, <2>2 DEF Noted
    <3>2. ASSUME NEW i \in Checks, i # c, main' = "prepare" PROVE Noted(i)'
      BY <1>w, <2>1, <2>2, <3>2, NotedLasts DEF NotedInv
    <3> QED
      BY <3>1, <3>2
  <2> QED
    BY <2>1, <2>3 DEF NotedInv, Reported, Returned
<1> QED
  BY <1>1, <1>2, <1>3, <1>4, <1>5, <1>6, <1>7, <1>8 DEF MainStep

LEMMA NotedStep ==
  ASSUME LedgerInv, QueryInv, MainInv, SaidInv, FailFast => StopInv, NotedInv, [Next]_vars
  PROVE  NotedInv'
<1> USE DEF LedgerInv, TypeInv
<1>1. CASE MainStep
  BY <1>1, MainKeepsNoted
<1>2. ASSUME NEW g \in Checks, NEW i \in Checks, CheckStep(g, i) \/ StageStep(i)
      PROVE  NotedInv'
  <2>1. UNCHANGED <<main, cursor, reasons>> /\ main \in {"await", "pool", "unwinding"}
    BY <1>2, WorkersLeaveDocument, AtWork
  <2>2. main = "await" => i = cursor
    BY <1>2, CursorAtWork DEF AwaitsOne
  <2>3. ASSUME NEW j \in Checks, j # i, Noted(j) PROVE Noted(j)'
    BY <1>2, <2>1, <2>3, OnlyItsCheck DEF Noted
  <2> QED
    BY <2>1, <2>2, <2>3 DEF NotedInv, Reported, Returned
<1>3. ASSUME UNCHANGED <<main, cursor, reasons, status>>,
             \A i \in Checks : why'[i] \in {why[i], NoReason}
      PROVE  NotedInv'
  BY <1>3 DEF NotedInv, Noted, Reported, Returned
<1>4. ASSUME NEW g \in Checks, GroupStep(g) PROVE NotedInv'
  <2>1. \A i \in Checks : why'[i] \in {why[i], NoReason}
    BY <1>4 DEF GroupStep, StartGroup, BeginBatch, EndBatch, FinishGroup, BreakBatch
  <2> QED
    BY <1>3, <1>4, <2>1, WorkersLeaveDocument
<1>5. CASE Expire \/ Ended \/ UNCHANGED vars
  BY <1>3, <1>5 DEF Expire, Ended, vars, control, work, document
<1> QED
  BY <1>1, <1>2, <1>4, <1>5 DEF Next

------------------------------------------------------------------------------
(* The order of the reasons.                                               *)

(* A baseline reason is never followed by a reason of an earlier check.    *)
InOrder(s) ==
  \A p, q \in DOMAIN s :
    p < q /\ s[p].cause \in Fetched /\ s[q].check # 0 => s[p].check <= s[q].check

(* Reason r may follow the reasons of s.                                   *)
MayFollow(s, r) ==
  r.check # 0 => \A x \in Range(s) : x.cause \in Fetched => x.check <= r.check

(* The baseline reasons noted so far are those of checks the main thread   *)
(* has passed in its current loop: none before the pool is done, none      *)
(* after the check that stopped the run.                                   *)
OrderInv ==
  /\ InOrder(reasons)
  /\ main \in {"probe", "prepare", "await", "collect"} =>
       \A r \in Range(reasons) : r.cause \in Fetched => r.check < cursor
  /\ ~FailFast /\ main \in {"probe", "prepare", "pool"} =>
       \A r \in Range(reasons) : r.cause \notin Fetched
  /\ stop # 0 => \A r \in Range(reasons) : r.cause \in Fetched => r.check <= stop

LEMMA AppendedOrder ==
  ASSUME NEW s \in Seq(AllReasons), InOrder(s), NEW r \in AllReasons, MayFollow(s, r)
  PROVE  InOrder(AppendOnce(s, r)) /\ InOrder(AppendReason(s, r))
<1>1. InOrder(Append(s, r))
  <2> DEFINE t == Append(s, r)
  <2>1. /\ DOMAIN s = 1..Len(s) /\ DOMAIN t = 1..(Len(s) + 1) /\ Len(s) \in Nat
        /\ \A k \in 1..Len(s) : t[k] = s[k]
        /\ t[Len(s) + 1] = r
    OBVIOUS
  <2> HIDE DEF t
  <2>2. ASSUME NEW p \in DOMAIN t, NEW q \in DOMAIN t, p < q,
               t[p].cause \in Fetched, t[q].check # 0
        PROVE  t[p].check <= t[q].check
    <3>1. p \in DOMAIN s /\ t[p] = s[p]
      BY <2>1, <2>2
    <3>2. CASE q \in DOMAIN s
      BY <2>1, <2>2, <3>1, <3>2 DEF InOrder
    <3>3. CASE q = Len(s) + 1
      <4>1. s[p] \in Range(s) /\ t[q] = r
        BY <2>1, <3>1, <3>3 DEF Range
      <4> QED
        BY <2>2, <3>1, <4>1 DEF MayFollow
    <3> QED
      BY <2>1, <3>2, <3>3
  <2>3. InOrder(t)
    BY <2>2 DEF InOrder
  <2> QED
    BY <2>3 DEF t
<1> QED
  BY <1>1 DEF AppendOnce, AppendReason

LEMMA OrderInit == Init => OrderInv
<1> SUFFICES ASSUME Init PROVE OrderInv
  OBVIOUS
<1>1. reasons = <<>> \/ reasons = <<InputReason>>
  BY DEF Init
<1>2. \A r \in Range(reasons) : r.cause \notin Fetched
  BY <1>1, ReasonFields DEF Range, Fetched, Partly
<1>3. \A p \in DOMAIN reasons : reasons[p] \in Range(reasons)
  BY DEF Range
<1> QED
  BY <1>2, <1>3 DEF OrderInv, InOrder

LEMMA ReasonChecks ==
  ASSUME TypeOK
  PROVE  \A x \in Range(reasons) : x \in AllReasons /\ x.check \in Int
<1>1. reasons \in Seq(AllReasons) /\ NChecks \in Nat
  BY CheckAssumption DEF TypeOK
<1>2. \A k \in DOMAIN reasons : reasons[k] \in AllReasons
  BY <1>1
<1> QED
  BY <1>1, <1>2 DEF Range, AllReasons

(* What a step of the main thread keeps when it appends the reason r.      *)
LEMMA AppendingKeepsOrder ==
  ASSUME TypeOK, OrderInv, NEW r \in AllReasons, MayFollow(reasons, r),
         reasons' \in {AppendReason(reasons, r), AppendOnce(reasons, r)},
         r.cause \in Fetched => r.check < cursor',
         cursor' \in Int, cursor <= cursor' \/ main' \notin {"probe", "prepare", "await", "collect"},
         main' \in {"probe", "prepare", "await", "collect"} =>
           main \in {"probe", "prepare", "await", "collect"},
         ~FailFast /\ main' \in {"probe", "prepare", "pool"} =>
           main \in {"probe", "prepare", "pool"} /\ r.cause \notin Fetched,
         stop' # 0 =>
           /\ r.cause \in Fetched => r.check <= stop'
           /\ stop' = stop \/ \A x \in Range(reasons) : x.cause \in Fetched => x.check <= stop'
  PROVE  OrderInv'
<1>1. InOrder(reasons)'
  <2>1. InOrder(AppendReason(reasons, r)) /\ InOrder(AppendOnce(reasons, r))
    BY AppendedOrder DEF OrderInv, TypeOK
  <2> QED
    BY <2>1 DEF InOrder
<1>2. \A x \in Range(reasons') : x \in Range(reasons) \/ x = r
  BY AppendedOnce, AppendedReason DEF TypeOK
<1>3. \A x \in Range(reasons) : x.check \in Int
  BY ReasonChecks
<1>4. ASSUME main' \in {"probe", "prepare", "await", "collect"},
             NEW x \in Range(reasons'), x.cause \in Fetched
      PROVE  x.check < cursor'
  <2>1. CASE x = r
    BY <1>4, <2>1
  <2>2. CASE x \in Range(reasons)
    <3>1. x.check < cursor /\ cursor <= cursor' /\ cursor \in Int
      BY <1>4, <2>2, CursorOfInt DEF OrderInv
    <3> QED
      BY <1>3, <2>2, <3>1
  <2> QED
    BY <1>2, <1>4, <2>1, <2>2
<1>5. ~FailFast /\ main' \in {"probe", "prepare", "pool"} =>
        \A x \in Range(reasons') : x.cause \notin Fetched
  BY <1>2 DEF OrderInv
<1>6. stop' # 0 => \A x \in Range(reasons') : x.cause \in Fetched => x.check <= stop'
  BY <1>2 DEF OrderInv
<1> QED
  BY <1>1, <1>4, <1>5, <1>6 DEF OrderInv

(* A worker's reason is a baseline reason of its own check or names none.  *)
LEMMA OwnReason ==
  ASSUME TypeOK, SaidInv, NEW i \in Checks
  PROVE  /\ why[i] \in AllReasons
         /\ why[i].cause \in Fetched => why[i].check = i /\ Kind[i] = "drift"
         /\ why[i].check # 0 => why[i].check = i
<1>1. why[i] \in AllReasons /\ Says(i)
  BY DEF TypeOK, SaidInv
<1>2. NoReason.check = 0 /\ NoReason.cause \notin Fetched /\ DeadlineReason.cause \notin Fetched
  BY ReasonFields DEF NoReason, Reason, None, Fetched, Partly
<1> QED
  BY <1>1, <1>2, ReasonFields DEF Says

(* Where nothing is appended only the cursor and the phase matter.         *)
LEMMA StandingOrder ==
  ASSUME OrderInv, UNCHANGED <<reasons, stop>>,
         main' \in {"probe", "prepare", "await", "collect"} =>
           \/ /\ main \in {"probe", "prepare", "await", "collect"}
              /\ cursor' = cursor
           \/ ~FailFast /\ main \in {"prepare", "pool"},
         ~FailFast /\ main' \in {"probe", "prepare", "pool"} =>
           main \in {"probe", "prepare", "pool"}
  PROVE  OrderInv'
BY DEF OrderInv, InOrder

LEMMA SkipKeepsOrder ==
  ASSUME TypeOK, MainInv, FailFast => StopInv, OrderInv,
         NEW r \in Results, NEW reason \in AllReasons, NEW code, Skips(r, reason, code)
  PROVE  OrderInv'
<1>1. /\ main = "prepare" /\ cursor \in Checks /\ UNCHANGED stop
      /\ \/ main' = "prepare" /\ cursor' = cursor + 1 /\ reasons' = AppendReason(reasons, reason)
         \/ main' = "unwinding" /\ UNCHANGED reasons
  BY SkipRecords
<1>2. CASE main' = "unwinding" /\ UNCHANGED reasons
  BY <1>1, <1>2, StandingOrder
<1>3. CASE main' = "prepare" /\ cursor' = cursor + 1 /\ reasons' = AppendReason(reasons, reason)
  <2>1. reason.cause \notin Fetched
    BY ReasonFields DEF Skips, Fetched, Partly, None
  <2>2. MayFollow(reasons, reason)
    <3>1. CASE stop # 0 /\ reason = Reason("fail_fast", stop)
      BY <3>1, ReasonFields DEF MayFollow, OrderInv
    <3>2. CASE reason \in {NoReason, DeadlineReason}
      BY <3>2, ReasonFields DEF MayFollow, NoReason, Reason
    <3>3. CASE reason = Reason("unsupported", cursor)
      <4>1. \A x \in Range(reasons) : x.cause \in Fetched => x.check < cursor
        BY <1>1 DEF OrderInv
      <4>2. \A x \in Range(reasons) : x.check \in Int
        BY ReasonChecks
      <4>3. reason.check = cursor /\ cursor \in Int
        BY <3>3, CursorOfInt, ReasonFields
      <4> QED
        BY <4>1, <4>2, <4>3 DEF MayFollow
    <3> QED
      BY <3>1, <3>2, <3>3 DEF Skips
  <2>3. cursor' \in Int /\ cursor <= cursor'
    BY <1>3, CursorOfInt
  <2> QED
    BY <1>1, <1>3, <2>1, <2>2, <2>3, AppendingKeepsOrder
<1> QED
  BY <1>1, <1>2, <1>3

(* The main thread takes over the reason of the check under the cursor,    *)
(* which follows those of the checks before it.                            *)
LEMMA TakenOverInOrder ==
  ASSUME TypeOK, SaidInv, OrderInv, cursor \in Checks, main \in {"await", "collect"}
  PROVE  /\ MayFollow(reasons, why[cursor])
         /\ \A x \in Range(reasons) : x.cause \in Fetched => x.check < cursor
<1>1. \A x \in Range(reasons) : x.cause \in Fetched => x.check < cursor
  BY DEF OrderInv
<1>2. \A x \in Range(reasons) : x.check \in Int
  BY ReasonChecks
<1>3. why[cursor].check # 0 => why[cursor].check = cursor
  BY OwnReason
<1> QED
  BY <1>1, <1>2, <1>3, CursorOfInt DEF MayFollow

LEMMA RecordKeepsOrder ==
  ASSUME TypeInv, WorkInv, SaidInv, StopInv, OrderInv, RecordNext
  PROVE  OrderInv'
<1> USE DEF TypeInv
<1>1. main = "await" /\ cursor \in Checks /\ FailFast /\ stop = 0
  BY NextRecords DEF StopInv
<1>2. CASE main' = "unwinding" /\ UNCHANGED <<stop, reasons>>
  BY <1>2, StandingOrder
<1>3. CASE /\ main' = "prepare" /\ cursor' = cursor + 1
           /\ stop' = IF StopsFailFast(cursor, outcome[cursor]) THEN cursor ELSE stop
           /\ NoteDeadline(AppendReason(reasons, why[cursor]), TRUE)
           /\ Range(reasons') = Range(reasons) \cup ({why[cursor]} \ {NoReason})
                                  \cup (IF expired THEN {DeadlineReason} ELSE {})
  <2> DEFINE s == AppendReason(reasons, why[cursor])
  <2>1. /\ MayFollow(reasons, why[cursor])
        /\ \A x \in Range(reasons) : x.cause \in Fetched => x.check < cursor
    BY <1>1, TakenOverInOrder
  <2>2. s \in Seq(AllReasons) /\ InOrder(s)
    BY <1>1, <2>1, WorkerReasonTypes, AppendedOrder DEF OrderInv, TypeOK
  <2>3. reasons' \in {s, AppendOnce(s, DeadlineReason)}
    BY <1>3 DEF NoteDeadline
  <2>4. DeadlineReason \in AllReasons /\ MayFollow(s, DeadlineReason)
    BY FixedReasonTypes, ReasonFields DEF MayFollow
  <2>5. InOrder(AppendOnce(s, DeadlineReason))
    <3> HIDE DEF s
    <3> QED
      BY <2>2, <2>4, AppendedOrder
  <2>6. InOrder(reasons)'
    <3> HIDE DEF s
    <3> QED
      BY <2>2, <2>3, <2>5 DEF InOrder
  <2>7. \A x \in Range(reasons') :
          x.cause \in Fetched => x.check \in Int /\ x.check <= cursor
    <3>1. DeadlineReason.cause \notin Fetched
      BY ReasonFields DEF Fetched, Partly
    <3>2. why[cursor].cause \in Fetched => why[cursor].check = cursor
      BY <1>1, OwnReason
    <3>3. \A x \in Range(reasons) : x.check \in Int
      BY ReasonChecks
    <3>4. \A x \in Range(reasons') :
            x \in Range(reasons) \/ x = why[cursor] \/ x = DeadlineReason
      BY <1>3
    <3>5. cursor \in Int
      BY CursorOfInt
    <3>6. \A x \in Range(reasons) : x.cause \in Fetched => x.check <= cursor
      BY <2>1, <3>3, <3>5
    <3> QED
      BY <3>1, <3>2, <3>3, <3>4, <3>5, <3>6
  <2>8. \A x \in Range(reasons') : x.cause \in Fetched => x.check < cursor + 1
    BY <2>7, CursorOfInt
  <2>9. stop' # 0 => stop' = cursor
    BY <1>1, <1>3
  <2> QED
    BY <1>1, <1>3, <2>6, <2>7, <2>8, <2>9 DEF OrderInv
<1> QED
  BY <1>2, <1>3, NextRecords

LEMMA MainKeepsOrder ==
  ASSUME TypeInv, WorkInv, SlotInv, MainInv, SaidInv, FailFast => StopInv, OrderInv, MainStep
  PROVE  OrderInv'
<1> USE DEF TypeInv
<1>1. CASE SkipStopped \/ SkipGenerated \/ SkipUnsupported \/ SkipLate
  BY <1>1, EverySkip, SkipKeepsOrder DEF Skipping
<1>2. CASE ProbeTarget \/ RunNext \/ Collect \/ SubmitGroups \/ CloseLoop \/ FailRun
           \/ CloseRun \/ RaiseFault
  <2>1. UNCHANGED <<reasons, stop>>
    BY <1>2 DEF ProbeTarget, RunNext, Collect, SubmitGroups, CloseLoop, FailRun, CloseRun,
                RaiseFault, document
  <2>2. /\ main' \in {"probe", "prepare", "await", "collect"} =>
             \/ /\ main \in {"probe", "prepare", "await", "collect"}
                /\ cursor' = cursor
             \/ ~FailFast /\ main \in {"prepare", "pool"}
        /\ ~FailFast /\ main' \in {"probe", "prepare", "pool"} =>
             main \in {"probe", "prepare", "pool"}
    BY <1>2 DEF ProbeTarget, RunNext, Collect, Preparing, SubmitGroups, CloseLoop, FailRun,
                CloseRun, RaiseFault
  <2> QED
    BY <2>1, <2>2, StandingOrder
<1>3. CASE ClosePool
  <2>1. main = "pool" /\ main' = "collect" /\ UNCHANGED <<reasons, stop>> /\ ~FailFast
    BY <1>3 DEF ClosePool, document, StopInv
  <2> QED
    BY <2>1, StandingOrder
<1>4. ASSUME NEW g \in Checks, NEW i \in Checks, RecordMember(g, i) PROVE OrderInv'
  <2>1. main = "pool" /\ main' \in {"pool", "unwinding"} /\ UNCHANGED <<reasons, stop>>
    BY <1>4 DEF RecordMember, RecordResult, CallbackRaises
  <2>2. ~FailFast
    BY <2>1 DEF StopInv
  <2> QED
    BY <2>1, StandingOrder
<1>5. CASE CollectReason
  <2>1. /\ main = "collect" /\ main' = "collect" /\ cursor \in Checks
        /\ cursor' = cursor + 1 /\ UNCHANGED stop
        /\ reasons' = AppendReason(reasons, why[cursor])
    BY <1>5 DEF CollectReason
  <2>2. /\ why[cursor] \in AllReasons
        /\ why[cursor].cause \in Fetched => why[cursor].check = cursor
    BY <2>1, OwnReason
  <2>3. ~FailFast /\ stop = 0
    BY <2>1 DEF StopInv, MainInv
  <2>4. /\ cursor' \in Int /\ cursor <= cursor'
        /\ why[cursor].cause \in Fetched => why[cursor].check < cursor'
    BY <2>1, <2>2, CursorOfInt
  <2>5. MayFollow(reasons, why[cursor])
    BY <2>1, TakenOverInOrder
  <2> QED
    BY <2>1, <2>2, <2>3, <2>4, <2>5, AppendingKeepsOrder
<1>6. CASE CloseReasons
  <2>1. /\ main = "collect" /\ main' = "close" /\ UNCHANGED <<cursor, stop>>
        /\ reasons' \in {reasons, AppendOnce(reasons, DeadlineReason)}
    BY <1>6 DEF CloseReasons, NoteDeadline
  <2>2. CASE reasons' = reasons
    BY <2>1, <2>2, StandingOrder
  <2>3. CASE reasons' = AppendOnce(reasons, DeadlineReason)
    <3>1. /\ DeadlineReason \in AllReasons /\ MayFollow(reasons, DeadlineReason)
          /\ DeadlineReason.cause \notin Fetched
      BY FixedReasonTypes, ReasonFields DEF MayFollow, Fetched, Partly
    <3>2. cursor' \in Int
      BY <2>1, CursorOfInt
    <3> QED
      BY <2>1, <2>3, <3>1, <3>2, AppendingKeepsOrder
  <2> QED
    BY <2>1, <2>2, <2>3
<1>7. CASE RecordNext
  <2>1. StopInv
    BY <1>7, NextRecords
  <2> QED
    BY <1>7, <2>1, RecordKeepsOrder
<1> QED
  BY <1>1, <1>2, <1>3, <1>4, <1>5, <1>6, <1>7 DEF MainStep

LEMMA OrderStep ==
  ASSUME LedgerInv, MainInv, SaidInv, FailFast => StopInv, OrderInv, [Next]_vars
  PROVE  OrderInv'
<1>1. CASE MainStep
  BY <1>1, MainKeepsOrder DEF LedgerInv
<1>2. CASE UNCHANGED <<main, cursor, stop, reasons>>
  BY <1>2 DEF OrderInv, InOrder
<1> QED
  BY <1>1, <1>2, WorkersLeaveDocument
     DEF LedgerInv, TypeInv, Next, Expire, Ended, vars, control, document

------------------------------------------------------------------------------
(* The codes and the reasons give one account.                             *)

AccountInv == TellInv /\ CodeInv /\ NotedInv /\ OrderInv

LEMMA AccountInvariant == Spec => []AccountInv
<1>1. Init => CodeInv /\ NotedInv /\ OrderInv
  BY CodeInit, OrderInit
<1>2. TellInv /\ CodeInv /\ NotedInv /\ OrderInv /\ [Next]_vars => (CodeInv /\ NotedInv /\ OrderInv)'
  <2> SUFFICES ASSUME TellInv, CodeInv, NotedInv, OrderInv, [Next]_vars
               PROVE  (CodeInv /\ NotedInv /\ OrderInv)'
    OBVIOUS
  <2> USE DEF TellInv, ReasonInv, PoolInv, LedgerInv
  <2>1. CodeInv'
    BY CodeStep
  <2>2. NotedInv'
    BY NotedStep
  <2>3. OrderInv'
    BY OrderStep
  <2> QED
    BY <2>1, <2>2, <2>3
<1> QED
  BY <1>1, <1>2, TellInvariant, PTL DEF Spec, AccountInv

LEMMA CodesAgree ==
  ASSUME CodeInv, NotedInv
  PROVE  CodesMatchReasons
<1> SUFFICES ASSUME Reported PROVE CodesMatchReasons
  BY DEF CodesMatchReasons
<1>1. \A c : Given(c) <=> \E r \in Range(reasons) : r.cause = c
  BY GivenInRange
<1>2. \A i \in Checks : why[i].cause \in Fetched => why[i] \in Range(reasons)
  BY ReasonFields DEF NotedInv, Noted, None, Fetched, Partly
<1>3. "baseline" \in codes <=> Given("baseline") \/ Given("baseline_and_deadline")
  BY <1>1, <1>2 DEF CodeInv, Fetched, Partly
<1>4. "baseline_missing" \in codes <=> Given("baseline_missing")
  BY <1>1, <1>2 DEF CodeInv, Fetched
<1> QED
  BY <1>3, <1>4 DEF CodeInv, CodesMatchReasons

(* Whatever order the workers finish in, the reasons of a run read in      *)
(* suite order, and the codes the workers gathered without a lock say      *)
(* exactly what the reasons gathered afterwards say.                       *)
THEOREM AccountsAreExact == Spec => []ReasonsAreExact
<1>1. AccountInv => ReasonsInSuiteOrder
  BY DEF AccountInv, OrderInv, InOrder, Fetched, Partly, ReasonsInSuiteOrder
<1>2. AccountInv => CodesMatchReasons
  BY CodesAgree DEF AccountInv
<1>3. AccountInv => ReasonsAreExact
  BY <1>1, <1>2 DEF ReasonsAreExact
<1> QED
  BY <1>3, AccountInvariant, PTL
==============================================================================
