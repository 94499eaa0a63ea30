----------------------------- MODULE EngineProofs -----------------------------
(***************************************************************************)
(* Theorems about Engine for every suite, batch size, worker count and     *)
(* mode: its types, how the deadline counts, that it implements RunLedger, *)
(* and what its workers leave behind.                                      *)
(***************************************************************************)
EXTENDS Engine, TLAPS, WellFoundedInduction, FiniteSetTheorems

------------------------------------------------------------------------------
(* Types.                                                                  *)

(* The main thread waits for one check at a time only in a fail-fast run,  *)
(* and then for the one under its cursor.                                  *)
AwaitsOne == main = "await" => cursor \in Checks /\ FailFast

TypeInv == TypeOK /\ AwaitsOne

LEMMA ReasonTypes ==
  ASSUME NEW cause \in Causes, NEW i \in 0..NChecks
  PROVE  Reason(cause, i) \in AllReasons
BY DEF Reason, AllReasons

LEMMA FixedReasonTypes ==
  /\ InputReason \in AllReasons
  /\ DeadlineReason \in AllReasons
  /\ NoReason \in AllReasons
BY CheckAssumption, ReasonTypes DEF InputReason, DeadlineReason, NoReason, Causes, None

LEMMA AppendOnceType ==
  ASSUME NEW s \in Seq(AllReasons), NEW r \in AllReasons
  PROVE  AppendOnce(s, r) \in Seq(AllReasons)
BY DEF AppendOnce

LEMMA AppendReasonType ==
  ASSUME NEW s \in Seq(AllReasons), NEW r \in AllReasons
  PROVE  AppendReason(s, r) \in Seq(AllReasons)
BY AppendOnceType DEF AppendReason

LEMMA ProcessingOutcomeType ==
  ASSUME NEW r
  PROVE  r \in Results => ProcessingOutcome(r) \in ProcessingOutcomes
BY DEF ProcessingOutcome, ProcessingOutcomes, Results, Measured, Errored, Skipped, Gaps

LEMMA VerdictType ==
  ASSUME NEW passed \in BOOLEAN, NEW severity
  PROVE  VerdictOf(passed, severity) \in Results
BY DEF VerdictOf, Results, Measured

(* Telemetry variables keep their types whatever is emitted.               *)
EventTypes ==
  /\ sinkOpen \in BOOLEAN
  /\ queries \in [Checks -> Nat]
  /\ processed \in [Checks -> ProcessingOutcomes \cup {None}]
  /\ terminal \in {None, "finished", "faulted"}

LEMMA EmitQueryType ==
  ASSUME EventTypes, NEW i \in Checks, EmitQuery(i)
  PROVE  EventTypes'
BY DEF EventTypes, EmitQuery

LEMMA EmitProcessedType ==
  ASSUME EventTypes, NEW i \in Checks, NEW r, r \in Results \cup {None},
         EmitProcessed(i, r), UNCHANGED <<queries, terminal>>
  PROVE  EventTypes'
<1>1. ProcessingOutcome(r) \in ProcessingOutcomes \cup {None}
  BY ProcessingOutcomeType
     DEF ProcessingOutcome, None, Results, Measured, Errored, Skipped, Gaps
<1> QED
  BY <1>1 DEF EventTypes, EmitProcessed, AcceptsProcessed

LEMMA EmitTerminalType ==
  ASSUME EventTypes, NEW kind \in {"finished", "faulted"}, NEW ok \in BOOLEAN,
         EmitTerminal(kind, ok)
  PROVE  EventTypes'
<1>1. SweptAsNotRun \in [Checks -> ProcessingOutcomes \cup {None}]
  BY DEF EventTypes, SweptAsNotRun, ProcessingOutcomes
<1> QED
  BY <1>1 DEF EventTypes, EmitTerminal

(* The two ways a worker reports about a check.                            *)
LEMMA SettleType ==
  ASSUME TypeOK, NEW i \in Checks, NEW r \in Results, NEW reason \in AllReasons,
         Settle(i, r, reason)
  PROVE  /\ pc' \in [Checks -> Stages]
         /\ outcome' \in [Checks -> Results \cup {None}]
         /\ why' \in [Checks -> AllReasons]
BY DEF Settle, TypeOK, Stages

LEMMA SettleTimeoutType ==
  ASSUME TypeOK, NEW i \in Checks, SettleTimeout(i)
  PROVE  /\ pc' \in [Checks -> Stages]
         /\ outcome' \in [Checks -> Results \cup {None}]
         /\ why' \in [Checks -> AllReasons]
         /\ codes' \subseteq Codes
<1>1. WithDeadline(i, why[i]) \in AllReasons
  BY FixedReasonTypes, ReasonTypes DEF WithDeadline, Causes, Checks
<1>2. why[i] \in AllReasons
  BY DEF TypeOK
<1>3. "timeout" \in Results /\ "errored" \in Results
  BY DEF Results, Errored
<1>4. CASE expired
  BY <1>1, <1>3, <1>4, SettleType DEF SettleTimeout, TypeOK, Codes
<1>5. CASE ~expired
  BY <1>2, <1>3, <1>5, SettleType DEF SettleTimeout, TypeOK
<1> QED
  BY <1>4, <1>5

LEMMA NoteDeadlineType ==
  ASSUME NEW s \in Seq(AllReasons), NEW ran, codes \subseteq Codes, NoteDeadline(s, ran)
  PROVE  reasons' \in Seq(AllReasons) /\ codes' \subseteq Codes
<1>1. AppendOnce(s, DeadlineReason) \in Seq(AllReasons)
  BY FixedReasonTypes, AppendOnceType
<1> QED
  BY <1>1 DEF NoteDeadline, Codes

LEMMA TypeInit == Init => TypeInv
<1> SUFFICES ASSUME Init PROVE TypeInv
  OBVIOUS
<1>1. reasons \in Seq(AllReasons)
  <2>1. \A S : \A r \in S : <<>> \in Seq(S) /\ <<r>> \in Seq(S)
    OBVIOUS
  <2> QED
    BY <2>1, FixedReasonTypes DEF Init
<1>3. codes \subseteq Codes
  BY DEF Init, Codes
<1>4. cursor \in 1..(NChecks + 1) /\ stop \in 0..NChecks
  BY CheckAssumption DEF Init
<1>2. why \in [Checks -> AllReasons]
  BY FixedReasonTypes DEF Init
<1> QED
  BY <1>1, <1>2, <1>3, <1>4
     DEF Init, TypeInv, TypeOK, AwaitsOne, MainStates, GroupStates, Stages

LEMMA TypeOfSkip ==
  ASSUME TypeInv, Preparing, NEW r \in Results, NEW reason \in AllReasons,
         NEW code \in SUBSET Codes, Skip(r, reason, code)
  PROVE  TypeInv'
<1>1. EventTypes /\ EventTypes'
  BY EmitProcessedType DEF TypeInv, TypeOK, EventTypes, Skip, RecordResult, Preparing
<1>2. AppendReason(reasons, reason) \in Seq(AllReasons)
  BY AppendReasonType DEF TypeInv, TypeOK
<1>3. slot' \in [Checks -> Results \cup {None}]
  BY DEF TypeInv, TypeOK, Skip, RecordResult, Preparing
<1>4. /\ cursor' \in 1..(NChecks + 1)
      /\ main' \in {"prepare", "unwinding"}
      /\ reasons' \in Seq(AllReasons)
      /\ codes' \subseteq Codes
      /\ stop' = stop
  BY <1>2, CheckAssumption DEF TypeInv, TypeOK, Skip, CallbackRaises, Preparing, Checks
<1> QED
  BY <1>1, <1>3, <1>4
     DEF TypeInv, TypeOK, AwaitsOne, EventTypes, Skip, RecordResult, work, MainStates

LEMMA TypeOfMainStep == TypeInv /\ MainStep => TypeInv'
<1> SUFFICES ASSUME TypeInv, MainStep PROVE TypeInv'
  OBVIOUS
<1> USE DEF TypeInv
<1>1. CASE ProbeTarget
  BY <1>1 DEF ProbeTarget, TypeOK, AwaitsOne, MainStates, work, document, telemetry
<1>2. CASE FailRun
  <2>1. EventTypes'
    BY <1>2, EmitTerminalType DEF FailRun, TypeOK, EventTypes, Reconciles
  <2> QED
    BY <1>2, <2>1 DEF FailRun, TypeOK, AwaitsOne, EventTypes, MainStates, RunStatuses, work
<1>3. CASE SkipStopped
  <2>1. Reason("fail_fast", stop) \in AllReasons
    BY ReasonTypes DEF TypeOK, Causes
  <2> QED
    BY <1>3, <2>1, TypeOfSkip DEF SkipStopped, Results, Skipped, Gaps
<1>4. CASE SkipGenerated
  BY <1>4, TypeOfSkip, FixedReasonTypes DEF SkipGenerated, Results, Skipped
<1>5. CASE SkipUnsupported
  <2>1. Reason("unsupported", cursor) \in AllReasons
    BY <1>5, ReasonTypes DEF SkipUnsupported, Preparing, Causes, Checks
  <2> QED
    BY <1>5, <2>1, TypeOfSkip DEF SkipUnsupported, Results, Skipped, Gaps, Codes
<1>6. CASE SkipLate
  BY <1>6, TypeOfSkip, FixedReasonTypes DEF SkipLate, Results, Skipped, Gaps, Codes
<1>7. CASE RunNext
  BY <1>7 DEF RunNext, Preparing, TypeOK, AwaitsOne, MainStates, GroupStates,
              document, telemetry
<1>8. CASE Collect
  BY <1>8, CheckAssumption
     DEF Collect, Preparing, TypeOK, AwaitsOne, Checks, work, document, telemetry
<1>9. CASE SubmitGroups
  BY <1>9 DEF SubmitGroups, TypeOK, AwaitsOne, MainStates, GroupStates, document, telemetry
<1>10. ASSUME NEW g \in Checks, NEW i \in Checks, RecordMember(g, i) PROVE TypeInv'
  <2>1. EventTypes'
    BY <1>10, EmitProcessedType DEF RecordMember, RecordResult, TypeOK, EventTypes
  <2>2. slot' \in [Checks -> Results \cup {None}]
    BY <1>10 DEF RecordMember, RecordResult, TypeOK
  <2>3. /\ main' \in {"pool", "unwinding"}
        /\ UNCHANGED <<cursor, stop, reasons, codes, status, expired, work>>
    BY <1>10 DEF RecordMember, RecordResult, CallbackRaises
  <2> QED
    BY <2>1, <2>2, <2>3 DEF TypeOK, AwaitsOne, EventTypes, MainStates, work
<1>11. CASE ClosePool
  BY <1>11, CheckAssumption
     DEF ClosePool, TypeOK, AwaitsOne, MainStates, work, document, telemetry
<1>12. CASE CollectReason
  <2>1. AppendReason(reasons, why[cursor]) \in Seq(AllReasons)
    BY <1>12, AppendReasonType DEF CollectReason, TypeOK
  <2> QED
    BY <1>12, <2>1, CheckAssumption
       DEF CollectReason, TypeOK, AwaitsOne, Checks, work, telemetry
<1>13. CASE CloseReasons
  <2>1. reasons' \in Seq(AllReasons) /\ codes' \subseteq Codes
    BY <1>13, NoteDeadlineType DEF CloseReasons, TypeOK
  <2> QED
    BY <1>13, <2>1 DEF CloseReasons, TypeOK, AwaitsOne, MainStates, work
<1>14. CASE RecordNext
  <2>1. cursor \in Checks
    BY <1>14 DEF RecordNext, AwaitsOne
  <2>2. EventTypes'
    BY <1>14, <2>1, EmitProcessedType DEF RecordNext, RecordResult, TypeOK, EventTypes
  <2>3. slot' \in [Checks -> Results \cup {None}]
    BY <1>14, <2>1 DEF RecordNext, RecordResult, TypeOK
  <2>4. AppendReason(reasons, why[cursor]) \in Seq(AllReasons)
    BY <2>1, AppendReasonType DEF TypeOK
  <2>5. /\ reasons' \in Seq(AllReasons)
        /\ codes' \subseteq Codes
        /\ main' \in {"prepare", "unwinding"}
        /\ cursor' \in 1..(NChecks + 1)
        /\ stop' \in 0..NChecks
    <3>1. CASE CallbackRaises
      BY <3>1 DEF CallbackRaises, TypeOK
    <3>2. CASE NoteDeadline(AppendReason(reasons, why[cursor]), TRUE) /\ ~CallbackRaises
      <4>1. reasons' \in Seq(AllReasons) /\ codes' \subseteq Codes
        BY <2>4, <3>2, NoteDeadlineType DEF TypeOK
      <4>2. stop \in 0..NChecks /\ cursor \in 0..NChecks /\ cursor + 1 \in 1..(NChecks + 1)
        BY <2>1, CheckAssumption DEF TypeOK, Checks
      <4> QED
        BY <1>14, <3>2, <4>1, <4>2 DEF RecordNext
    <3> QED
      BY <1>14, <3>1, <3>2 DEF RecordNext
  <2> QED
    BY <1>14, <2>2, <2>3, <2>5
       DEF RecordNext, RecordResult, TypeOK, AwaitsOne, EventTypes, MainStates, work
<1>15. CASE CloseLoop
  BY <1>15 DEF CloseLoop, TypeOK, AwaitsOne, MainStates, work, document, telemetry
<1>16. CASE CloseRun
  <2>1. EventTypes'
    BY <1>16, EmitTerminalType DEF CloseRun, TypeOK, EventTypes, Reconciles
  <2> QED
    BY <1>16, <2>1 DEF CloseRun, TypeOK, AwaitsOne, EventTypes, MainStates, RunStatuses,
                       RunStatus, work
<1>17. CASE RaiseFault
  <2>1. EventTypes'
    BY <1>17, EmitTerminalType DEF RaiseFault, TypeOK, EventTypes
  <2> QED
    BY <1>17, <2>1 DEF RaiseFault, TypeOK, AwaitsOne, EventTypes, MainStates, work, document
<1> QED
  BY <1>1, <1>2, <1>3, <1>4, <1>5, <1>6, <1>7, <1>8, <1>9, <1>10, <1>11, <1>12, <1>13,
     <1>14, <1>15, <1>16, <1>17 DEF MainStep

LEMMA TypeOfCheckStep ==
  ASSUME NEW g \in Checks, NEW i \in Checks
  PROVE  TypeInv /\ CheckStep(g, i) => TypeInv'
<1> SUFFICES ASSUME TypeInv, CheckStep(g, i) PROVE TypeInv'
  OBVIOUS
<1> USE DEF TypeInv
<1>r. why[i] \in AllReasons
  BY DEF TypeOK
<1>1. CASE StartCheck(g, i)
  <2>1. /\ pc' \in [Checks -> Stages]
        /\ outcome' \in [Checks -> Results \cup {None}]
        /\ why' \in [Checks -> AllReasons]
    <3>1. CASE \E r \in {"not_run", "model_absent"}, c \in {DeadlineReason, NoReason} : Settle(i, r, c)
      BY <3>1, SettleType, FixedReasonTypes DEF Results, Skipped, Gaps
    <3>2. CASE \E stage \in {"presence", "compile"} : Advance(i, stage)
      BY <3>2 DEF Advance, TypeOK, Stages, QueryStages
    <3> QED
      BY <1>1, <3>1, <3>2 DEF StartCheck
  <2> QED
    BY <1>1, <2>1 DEF StartCheck, TypeOK, AwaitsOne, control, document, telemetry
<1>2. CASE StartMember(g, i)
  <2>1. pc' \in [Checks -> Stages] /\ UNCHANGED <<outcome, why>>
    BY <1>2 DEF StartMember, Advance, TypeOK, Stages, QueryStages
  <2> QED
    BY <1>2, <2>1 DEF StartMember, TypeOK, AwaitsOne, control, document, telemetry
<1>3. CASE FailMember(g, i)
  <2>1. /\ pc' \in [Checks -> Stages]
        /\ outcome' \in [Checks -> Results \cup {None}]
        /\ why' \in [Checks -> AllReasons]
        /\ codes' \subseteq Codes
    <3>1. CASE Settle(i, "errored", why[i]) /\ UNCHANGED codes
      BY <1>r, <3>1, SettleType DEF Results, Errored, TypeOK
    <3>2. CASE SettleTimeout(i)
      BY <3>2, SettleTimeoutType
    <3> QED
      BY <1>3, <3>1, <3>2 DEF FailMember
  <2> QED
    BY <1>3, <2>1 DEF FailMember, TypeOK, AwaitsOne, control, document
<1>4. CASE Evaluate(g, i)
  <2>1. /\ pc' \in [Checks -> Stages]
        /\ outcome' \in [Checks -> Results \cup {None}]
        /\ why' \in [Checks -> AllReasons]
        /\ codes' \subseteq Codes
    <3>1. ASSUME NEW passed \in BOOLEAN,
                 Settle(i, VerdictOf(passed, Severity[i]), why[i]), UNCHANGED codes
          PROVE  /\ pc' \in [Checks -> Stages]
                 /\ outcome' \in [Checks -> Results \cup {None}]
                 /\ why' \in [Checks -> AllReasons]
                 /\ codes' \subseteq Codes
      BY <1>r, <3>1, VerdictType, SettleType DEF TypeOK
    <3>2. CASE Settle(i, "errored", why[i]) /\ UNCHANGED codes
      BY <1>r, <3>2, SettleType DEF Results, Errored, TypeOK
    <3>3. CASE SettleTimeout(i)
      BY <3>3, SettleTimeoutType
    <3> QED
      BY <1>4, <3>1, <3>2, <3>3 DEF Evaluate
  <2> QED
    BY <1>4, <2>1 DEF Evaluate, TypeOK, AwaitsOne, control, document
<1> QED
  BY <1>1, <1>2, <1>3, <1>4 DEF CheckStep

LEMMA TypeOfStageStep ==
  ASSUME NEW i \in Checks
  PROVE  TypeInv /\ StageStep(i) => TypeInv'
<1> SUFFICES ASSUME TypeInv, StageStep(i) PROVE TypeInv'
  OBVIOUS
<1> USE DEF TypeInv
<1> DEFINE WorkTypes == /\ pc' \in [Checks -> Stages]
                        /\ outcome' \in [Checks -> Results \cup {None}]
                        /\ why' \in [Checks -> AllReasons]
                        /\ codes' \subseteq Codes
<1>r. why[i] \in AllReasons
  BY DEF TypeOK
<1>e. ASSUME NEW c \in AllReasons, Settle(i, "errored", c), UNCHANGED codes
      PROVE  WorkTypes
  BY <1>e, SettleType DEF Results, Errored, TypeOK
<1>1. CASE Compile(i)
  <2>1. WorkTypes
    <3>1. CASE Advance(i, AfterCompile(i))
      <4>1. AfterCompile(i) \in Stages
        BY DEF AfterCompile, Stages, QueryStages
      <4> QED
        BY <1>1, <3>1, <4>1 DEF Compile, Advance, TypeOK, telemetry
    <3>2. CASE Settle(i, "errored", NoReason)
      BY <1>1, <1>e, <3>2, FixedReasonTypes DEF Compile, telemetry
    <3> QED
      BY <1>1, <3>1, <3>2 DEF Compile
  <2> QED
    BY <1>1, <2>1 DEF Compile, TypeOK, AwaitsOne, control, document, telemetry
<1>2. CASE ReadBaseline(i)
  <2>1. Reason("baseline", i) \in AllReasons /\ Reason("baseline_missing", i) \in AllReasons
    BY ReasonTypes DEF Causes, Checks
  <2>2. WorkTypes
    <3>1. CASE Advance(i, "measure") /\ UNCHANGED codes
      BY <3>1 DEF Advance, TypeOK, Stages, QueryStages
    <3>2. CASE /\ pc' = [pc EXCEPT ![i] = "measure"]
               /\ why' = [why EXCEPT ![i] = Reason("baseline", i)]
               /\ codes' = codes \cup {"baseline"}
               /\ UNCHANGED outcome
      BY <2>1, <3>2 DEF TypeOK, Stages, QueryStages, Codes
    <3>3. CASE /\ Settle(i, "errored", Reason("baseline_missing", i))
               /\ codes' = codes \cup {"baseline_missing"}
      BY <2>1, <3>3, SettleType DEF Results, Errored, TypeOK, Codes
    <3>4. CASE Settle(i, "errored", NoReason) /\ UNCHANGED codes
      BY <1>e, <3>4, FixedReasonTypes
    <3> QED
      BY <1>2, <3>1, <3>2, <3>3, <3>4 DEF ReadBaseline
  <2> QED
    BY <1>2, <2>2 DEF ReadBaseline, TypeOK, AwaitsOne, control, document
<1>3. CASE BeginQuery(i)
  <2>1. CASE expired
    <3>1. WorkTypes
      BY <1>3, <2>1, SettleTimeoutType DEF BeginQuery
    <3>2. EventTypes'
      BY <1>3, <2>1, EmitQueryType DEF BeginQuery, TypeOK, EventTypes
    <3> QED
      BY <1>3, <2>1, <3>1, <3>2
         DEF BeginQuery, TypeOK, AwaitsOne, EventTypes, control, document
  <2>2. CASE ~expired
    BY <1>3, <2>2 DEF BeginQuery, TypeOK, AwaitsOne, control, document, telemetry
  <2> QED
    BY <2>1, <2>2
<1>4. CASE EndQuery(i)
  <2>1. EventTypes'
    BY <1>4, EmitQueryType DEF EndQuery, EmitFor, TypeOK, EventTypes
  <2>2. WorkTypes
    <3>1. ASSUME NEW stage \in AfterQuery(i), Advance(i, stage), UNCHANGED codes
          PROVE  WorkTypes
      <4>1. stage \in Stages
        BY DEF AfterQuery, Stages, QueryStages
      <4> QED
        BY <3>1, <4>1 DEF Advance, TypeOK
    <3>2. CASE Settle(i, "model_absent", NoReason) /\ UNCHANGED codes
      BY <3>2, SettleType, FixedReasonTypes DEF Results, Skipped, TypeOK
    <3>3. CASE Settle(i, "errored", why[i]) /\ UNCHANGED codes
      BY <1>r, <1>e, <3>3
    <3>4. CASE SettleTimeout(i)
      BY <3>4, SettleTimeoutType
    <3> QED
      BY <1>4, <3>1, <3>2, <3>3, <3>4 DEF EndQuery
  <2> QED
    BY <1>4, <2>1, <2>2 DEF EndQuery, TypeOK, AwaitsOne, EventTypes, control, document
<1> QED
  BY <1>1, <1>2, <1>3, <1>4 DEF StageStep

LEMMA TypeOfGroupStep ==
  ASSUME NEW g \in Checks
  PROVE  TypeInv /\ GroupStep(g) => TypeInv'
<1> SUFFICES ASSUME TypeInv, GroupStep(g) PROVE TypeInv'
  OBVIOUS
<1> USE DEF TypeInv
<1>1. CASE StartGroup(g)
  BY <1>1 DEF StartGroup, TypeOK, AwaitsOne, GroupStates, control, document, telemetry
<1>2. CASE BeginBatch(g)
  BY <1>2 DEF BeginBatch, TypeOK, AwaitsOne, GroupStates, control, document, telemetry
<1>3. CASE EndBatch(g)
  <2>1. EventTypes'
    BY <1>3, EmitQueryType DEF EndBatch, TypeOK, EventTypes
  <2> QED
    BY <1>3, <2>1
       DEF EndBatch, TypeOK, AwaitsOne, EventTypes, GroupStates, control, document
<1>4. CASE FinishGroup(g)
  BY <1>4 DEF FinishGroup, TypeOK, AwaitsOne, GroupStates, control, document, telemetry
<1>5. CASE BreakBatch(g)
  <2>1. /\ pc' \in [Checks -> Stages]
        /\ outcome' \in [Checks -> Results \cup {None}]
        /\ why' \in [Checks -> AllReasons]
    BY <1>5, FixedReasonTypes DEF BreakBatch, TypeOK, Stages
  <2> QED
    BY <1>5, <2>1
       DEF BreakBatch, TypeOK, AwaitsOne, GroupStates, control, document, telemetry
<1> QED
  BY <1>1, <1>2, <1>3, <1>4, <1>5 DEF GroupStep

LEMMA TypeStep == TypeInv /\ [Next]_vars => TypeInv'
<1> SUFFICES ASSUME TypeInv, [Next]_vars PROVE TypeInv'
  OBVIOUS
<1>1. CASE UNCHANGED vars
  BY <1>1 DEF TypeInv, TypeOK, AwaitsOne, vars, control, work, document, telemetry
<1>2. CASE Expire
  BY <1>2 DEF Expire, TypeInv, TypeOK, AwaitsOne, control, work, document, telemetry
<1>3. CASE Ended
  BY <1>1, <1>3 DEF Ended
<1> QED
  BY <1>1, <1>2, <1>3, TypeOfMainStep, TypeOfCheckStep, TypeOfStageStep, TypeOfGroupStep
     DEF Next

(* Every reachable state of every run is well typed: each settled slot     *)
(* holds a contract result, and the telemetry codes stay in the closed     *)
(* list of partial codes.                                                  *)
THEOREM TypeCorrect == Spec => []TypeOK
<1>1. Spec => []TypeInv
  BY TypeInit, TypeStep, PTL DEF Spec
<1>2. TypeInv => TypeOK
  BY DEF TypeInv
<1> QED
  BY <1>1, <1>2, PTL

------------------------------------------------------------------------------
(* Groups.  Every runnable check belongs to the group of exactly one       *)
(* leader, whatever the batch keys and the batch size are.                 *)

LEMMA GroupMember ==
  ASSUME NEW g \in Runnable
  PROVE  g \in GroupOf(g) /\ GroupOf(g) \subseteq Runnable
BY DEF GroupOf

LEMMA SameGroup ==
  ASSUME NEW g \in Runnable, NEW i \in GroupOf(g)
  PROVE  GroupOf(i) = GroupOf(g)
BY DEF GroupOf

LEMMA OneLeader ==
  ASSUME NEW g \in Leaders, NEW h \in Leaders, NEW i \in GroupOf(g), i \in GroupOf(h)
  PROVE  g = h
<1>1. g \in Runnable /\ h \in Runnable /\ g \in Int /\ h \in Int
  BY CheckAssumption DEF Leaders, Runnable, Checks
<1>2. GroupOf(g) = GroupOf(h)
  BY <1>1, SameGroup
<1>3. h \in GroupOf(g) /\ g \in GroupOf(h)
  BY <1>1, <1>2, GroupMember
<1>4. g <= h /\ h <= g
  BY <1>3 DEF Leaders, IsLeader
<1> QED
  BY <1>1, <1>4

(* The least element of a set of positions.                                *)
LEMMA LeastPosition ==
  ASSUME NEW n \in Nat, NEW T, T \subseteq 1..n, T # {}
  PROVE  \E x \in T : \A y \in T : x <= y
<1> DEFINE Upto(x) == {y \in T : y <= x}
           Tails == {Upto(x) : x \in T}
<1>1. IsFiniteSet(T)
  <2>1. IsFiniteSet(1..n)
    BY FS_Interval
  <2> QED
    BY <2>1, FS_Subset
<1>2. Tails \subseteq FiniteSubsetsOf(T)
  <2> SUFFICES ASSUME NEW x \in T PROVE Upto(x) \in FiniteSubsetsOf(T)
    OBVIOUS
  <2>1. Upto(x) \in SUBSET T
    OBVIOUS
  <2>2. IsFiniteSet(Upto(x))
    BY <1>1, <2>1, FS_Subset
  <2> QED
    BY <2>1, <2>2 DEF FiniteSubsetsOf
<1>3. IsWellFoundedOn(StrictSubsetOrdering(T), FiniteSubsetsOf(T))
  BY FS_StrictSubsetOrderingWellFounded
<1>4. Tails # {}
  OBVIOUS
<1>5. PICK U \in Tails : \A V \in Tails : <<V, U>> \notin StrictSubsetOrdering(T)
  <2> HIDE DEF Tails
  <2> QED
    BY <1>2, <1>3, <1>4, WFMin
<1>6. PICK x \in T : U = Upto(x)
  OBVIOUS
<1>7. ASSUME NEW y \in T, ~(x <= y) PROVE FALSE
  <2>1. \A z \in T : z \in Int
    OBVIOUS
  <2>2. Upto(y) \subseteq Upto(x)
    <3>1. \A z \in Int : z <= y => z <= x
      BY <1>7, <2>1
    <3> QED
      BY <2>1, <3>1
  <2>3. x \in Upto(x) /\ x \notin Upto(y)
    BY <1>7, <2>1
  <2>4. Upto(y) \in SUBSET T /\ U \in SUBSET T /\ Upto(y) # U
    BY <1>6, <2>3
  <2>5. <<Upto(y), U>> \in StrictSubsetOrdering(T)
    BY <1>6, <2>2, <2>4 DEF StrictSubsetOrdering
  <2> QED
    BY <1>5, <2>5
<1> QED
  BY <1>7

LEMMA HasLeader ==
  ASSUME NEW i \in Runnable
  PROVE  \E g \in Leaders : i \in GroupOf(g)
<1>1. GroupOf(i) \subseteq 1..NChecks /\ GroupOf(i) # {}
  BY GroupMember DEF Runnable, Checks
<1>2. PICK g \in GroupOf(i) : \A j \in GroupOf(i) : g <= j
  BY <1>1, CheckAssumption, LeastPosition
<1>3. g \in Runnable /\ GroupOf(g) = GroupOf(i)
  BY GroupMember, SameGroup
<1>4. g \in Leaders /\ i \in GroupOf(g)
  BY <1>2, <1>3, GroupMember DEF Leaders, IsLeader
<1> QED
  BY <1>4

------------------------------------------------------------------------------
(* The inductive invariant behind the ledger.                              *)

(* Work: only leaders hold a group, a finished group has settled every     *)
(* member, and a settled check has a result of the contract.               *)
WorkInv ==
  /\ \A g \in Checks : group[g] # "idle" => g \in Leaders
  /\ \A g \in Checks : group[g] = "finished" => GroupSettled(g)
  /\ \A i \in Checks : pc[i] = "settled" => outcome[i] \in Results

(* Slots: what the main thread has recorded by the time it is where it is. *)
SlotInv ==
  /\ main = "probe" => cursor = 1 /\ \A i \in Checks : slot[i] = None
  /\ main \in {"prepare", "await"} =>
       \A i \in Checks :
         IF i < cursor THEN slot[i] # None \/ (~FailFast /\ i \in Runnable)
         ELSE slot[i] = None
  /\ main = "pool" => \A i \in Checks \ Runnable : slot[i] # None
  /\ main \in {"collect", "close"} => \A i \in Checks : slot[i] # None
  /\ main = "returned" => status = "failed" \/ \A i \in Checks : slot[i] # None

LedgerInv == TypeInv /\ WorkInv /\ SlotInv

LEMMA NoneIsNoResult == None \notin Results
BY DEF None, Results, Measured, Errored, Skipped, Gaps

LEMMA LedgerInit == Init => WorkInv /\ SlotInv
BY CheckAssumption DEF Init, WorkInv, SlotInv, Checks

(* A worker's step about one unsettled check.                              *)
Reports(i) ==
  \/ \E r \in Results, reason \in AllReasons : Settle(i, r, reason)
  \/ \E stage \in Stages \ {"settled"} :
       pc' = [pc EXCEPT ![i] = stage] /\ UNCHANGED outcome

LEMMA ReportKeepsWork ==
  ASSUME TypeOK, WorkInv, NEW i \in Checks, pc[i] # "settled", Reports(i), UNCHANGED group
  PROVE  WorkInv'
<1>1. ASSUME NEW g \in Checks, group[g] = "finished" PROVE GroupSettled(g)'
  <2>1. i \notin GroupOf(g)
    BY <1>1 DEF WorkInv, GroupSettled
  <2>2. \A j \in Checks : j # i => pc'[j] = pc[j]
    BY DEF Reports, Settle, TypeOK
  <2>3. GroupOf(g) \subseteq Checks
    BY GroupMember DEF WorkInv, Leaders, Runnable, GroupOf
  <2> QED
    BY <1>1, <2>1, <2>2, <2>3 DEF WorkInv, GroupSettled
<1>2. ASSUME NEW j \in Checks, pc'[j] = "settled" PROVE outcome'[j] \in Results
  BY <1>2 DEF Reports, Settle, TypeOK, WorkInv
<1> QED
  BY <1>1, <1>2 DEF WorkInv

LEMMA TimeoutReports ==
  ASSUME TypeOK, NEW i \in Checks, SettleTimeout(i)
  PROVE  Reports(i)
<1>1. WithDeadline(i, why[i]) \in AllReasons /\ why[i] \in AllReasons
  BY FixedReasonTypes, ReasonTypes DEF WithDeadline, Causes, Checks, TypeOK
<1> QED
  BY <1>1 DEF SettleTimeout, Reports, Results, Errored

LEMMA CheckStepReports ==
  ASSUME TypeOK, NEW g \in Checks, NEW i \in Checks, CheckStep(g, i)
  PROVE  pc[i] # "settled" /\ Reports(i) /\ UNCHANGED group
<1>r. why[i] \in AllReasons
  BY DEF TypeOK
<1>e. "errored" \in Results /\ "not_run" \in Results /\ "model_absent" \in Results
  BY DEF Results, Errored, Skipped, Gaps
<1>1. CASE StartCheck(g, i)
  BY <1>1, <1>e, FixedReasonTypes
     DEF StartCheck, Turn, Reports, Advance, Stages, QueryStages
<1>2. CASE StartMember(g, i)
  BY <1>2 DEF StartMember, Turn, Reports, Advance, Stages, QueryStages
<1>3. CASE FailMember(g, i)
  BY <1>3, <1>r, <1>e, TimeoutReports DEF FailMember, Turn, Reports
<1>4. CASE Evaluate(g, i)
  BY <1>4, <1>r, <1>e, VerdictType, TimeoutReports DEF Evaluate, Reports
<1> QED
  BY <1>1, <1>2, <1>3, <1>4 DEF CheckStep

LEMMA StageStepReports ==
  ASSUME TypeOK, NEW i \in Checks, StageStep(i)
  PROVE  /\ pc[i] # "settled"
         /\ Reports(i) \/ UNCHANGED <<pc, outcome>>
         /\ UNCHANGED group
<1>r. why[i] \in AllReasons
  BY DEF TypeOK
<1>e. "errored" \in Results /\ "model_absent" \in Results
  BY DEF Results, Errored, Skipped
<1>1. CASE Compile(i)
  <2>1. AfterCompile(i) \in Stages \ {"settled"}
    BY DEF AfterCompile, Stages, QueryStages
  <2> QED
    BY <1>1, <1>e, <2>1, FixedReasonTypes DEF Compile, Reports, Advance
<1>2. CASE ReadBaseline(i)
  <2>1. Reason("baseline_missing", i) \in AllReasons
    BY ReasonTypes DEF Causes, Checks
  <2>2. "measure" \in Stages \ {"settled"}
    BY DEF Stages, QueryStages
  <2> QED
    BY <1>2, <1>e, <2>1, <2>2, FixedReasonTypes DEF ReadBaseline, Reports, Advance
<1>3. CASE BeginQuery(i)
  BY <1>3, TimeoutReports DEF BeginQuery, QueryStages
<1>4. CASE EndQuery(i)
  <2>1. AfterQuery(i) \subseteq Stages \ {"settled"}
    BY DEF AfterQuery, Stages, QueryStages
  <2> QED
    BY <1>4, <1>r, <1>e, <2>1, FixedReasonTypes, TimeoutReports
       DEF EndQuery, Reports, Advance, QueryStages
<1> QED
  BY <1>1, <1>2, <1>3, <1>4 DEF StageStep

LEMMA GroupStepKeepsWork ==
  ASSUME TypeOK, WorkInv, NEW g \in Checks, GroupStep(g)
  PROVE  WorkInv'
<1>1. CASE StartGroup(g)
  BY <1>1 DEF StartGroup, WorkInv, TypeOK, GroupSettled
<1>2. CASE BeginBatch(g)
  BY <1>2 DEF BeginBatch, WorkInv, TypeOK, GroupSettled
<1>3. CASE EndBatch(g)
  BY <1>3 DEF EndBatch, WorkInv, TypeOK, GroupSettled
<1>4. CASE FinishGroup(g)
  BY <1>4 DEF FinishGroup, Busy, WorkInv, TypeOK, GroupSettled
<1>5. CASE BreakBatch(g)
  <2>1. g \in Leaders /\ group'[g] # "finished"
    BY <1>5 DEF BreakBatch, WorkInv, TypeOK
  <2>2. \A h \in Checks : h # g => group'[h] = group[h]
    BY <1>5 DEF BreakBatch, TypeOK
  <2>3. ASSUME NEW h \in Checks, group'[h] = "finished" PROVE GroupSettled(h)'
    <3>1. h # g /\ group[h] = "finished" /\ h \in Leaders
      BY <2>1, <2>2, <2>3 DEF WorkInv
    <3>2. \A i \in GroupOf(h) : i \in Checks /\ i \notin GroupOf(g)
      BY <2>1, <3>1, OneLeader, GroupMember DEF Leaders, Runnable
    <3> QED
      BY <1>5, <3>1, <3>2 DEF BreakBatch, WorkInv, GroupSettled
  <2>4. ASSUME NEW i \in Checks, pc'[i] = "settled" PROVE outcome'[i] \in Results
    BY <1>5, <2>4 DEF BreakBatch, WorkInv
  <2> QED
    BY <1>5, <2>1, <2>2, <2>3, <2>4 DEF WorkInv
<1> QED
  BY <1>1, <1>2, <1>3, <1>4, <1>5 DEF GroupStep

(* Only two actions of the main thread touch the groups.                   *)
LEMMA MainStepKeepsWork == TypeInv /\ WorkInv /\ MainStep => WorkInv'
<1> SUFFICES ASSUME TypeInv, WorkInv, MainStep PROVE WorkInv'
  OBVIOUS
<1>1. CASE RunNext
  <2>1. cursor \in Leaders
    BY <1>1, CheckAssumption DEF RunNext, Leaders, IsLeader, GroupOf, Runnable, Checks
  <2> QED
    BY <1>1, <2>1 DEF RunNext, TypeInv, TypeOK, WorkInv, GroupSettled
<1>2. CASE SubmitGroups
  BY <1>2 DEF SubmitGroups, WorkInv, Leaders, IsLeader
<1>3. CASE UNCHANGED <<group, pc, outcome>>
  BY <1>3 DEF WorkInv, GroupSettled
<1> QED
  BY <1>1, <1>2, <1>3
     DEF MainStep, ProbeTarget, FailRun, SkipStopped, SkipGenerated, SkipUnsupported,
         SkipLate, Skip, Collect, RecordMember, ClosePool, CollectReason, CloseReasons,
         RecordNext, CloseLoop, CloseRun, RaiseFault, work

LEMMA WorkStep == TypeInv /\ WorkInv /\ [Next]_vars => WorkInv'
<1> SUFFICES ASSUME TypeInv, WorkInv, [Next]_vars PROVE WorkInv'
  OBVIOUS
<1>1. CASE UNCHANGED <<group, pc, outcome>>
  BY <1>1 DEF WorkInv, GroupSettled
<1>2. CASE MainStep
  BY <1>2, MainStepKeepsWork
<1>3. ASSUME NEW g \in Checks, NEW i \in Checks, CheckStep(g, i) PROVE WorkInv'
  BY <1>3, CheckStepReports, ReportKeepsWork DEF TypeInv
<1>4. ASSUME NEW i \in Checks, StageStep(i) PROVE WorkInv'
  BY <1>1, <1>4, StageStepReports, ReportKeepsWork DEF TypeInv
<1>5. ASSUME NEW g \in Checks, GroupStep(g) PROVE WorkInv'
  BY <1>5, GroupStepKeepsWork DEF TypeInv
<1> QED
  BY <1>1, <1>2, <1>3, <1>4, <1>5 DEF Next, Expire, Ended, vars, work

(* Workers and the clock leave the document and the main thread alone.     *)
LEMMA WorkersLeaveDocument ==
  ASSUME NEW g \in Checks, NEW i \in Checks,
         CheckStep(g, i) \/ StageStep(i) \/ GroupStep(g)
  PROVE  UNCHANGED <<main, cursor, stop, slot, reasons, status>>
BY DEF CheckStep, StartCheck, StartMember, FailMember, Evaluate,
       StageStep, Compile, ReadBaseline, BeginQuery, EndQuery,
       GroupStep, StartGroup, BeginBatch, EndBatch, FinishGroup, BreakBatch,
       control, document

(* What a step that settles the check under the cursor does to the slots.  *)
LEMMA CursorKeepsSlots ==
  ASSUME TypeInv, SlotInv, main \in {"prepare", "await"}, cursor \in Checks,
         NEW r \in Results, slot' = [slot EXCEPT ![cursor] = r],
         \/ main' = "prepare" /\ cursor' = cursor + 1
         \/ main' = "unwinding" /\ cursor' = cursor
  PROVE  SlotInv'
<1>1. CASE main' = "unwinding"
  BY <1>1 DEF SlotInv
<1>2. CASE main' = "prepare" /\ cursor' = cursor + 1
  <2>1. cursor \in Int /\ \A i \in Checks : i \in Int
    BY DEF TypeInv, TypeOK, Checks
  <2>2. \A i \in Checks : (i < cursor + 1 <=> i < cursor \/ i = cursor)
    BY <2>1
  <2>3. \A i \in Checks : IF i < cursor + 1 THEN slot'[i] # None \/ (~FailFast /\ i \in Runnable)
                          ELSE slot'[i] = None
    BY <2>1, <2>2, NoneIsNoResult DEF TypeInv, TypeOK, SlotInv
  <2> QED
    BY <1>2, <2>3 DEF SlotInv
<1> QED
  BY <1>1, <1>2

LEMMA MainStepKeepsSlots == LedgerInv /\ MainStep => SlotInv'
<1> SUFFICES ASSUME LedgerInv, MainStep PROVE SlotInv'
  OBVIOUS
<1> USE DEF LedgerInv
<1>c. cursor \in Int /\ NChecks \in Nat /\ \A i \in Checks : i \in Int /\ i <= NChecks /\ 1 <= i
  BY CheckAssumption DEF TypeInv, TypeOK, Checks
<1>1. CASE ProbeTarget
  <2>1. /\ main' = "prepare" /\ cursor = 1 /\ UNCHANGED <<cursor, slot>>
        /\ \A i \in Checks : slot[i] = None
    BY <1>1 DEF ProbeTarget, document, SlotInv
  <2> QED
    BY <1>c, <2>1 DEF SlotInv
<1>2. CASE FailRun
  BY <1>2 DEF FailRun, SlotInv
<1>3. CASE SkipStopped \/ SkipGenerated \/ SkipUnsupported \/ SkipLate
  <2>1. \E r \in Results : slot' = [slot EXCEPT ![cursor] = r]
    BY <1>3 DEF SkipStopped, SkipGenerated, SkipUnsupported, SkipLate, Skip, RecordResult,
                Results, Skipped, Gaps
  <2>2. /\ Preparing
        /\ \/ main' = "prepare" /\ cursor' = cursor + 1
           \/ main' = "unwinding" /\ cursor' = cursor
    BY <1>3 DEF SkipStopped, SkipGenerated, SkipUnsupported, SkipLate, Skip,
                CallbackRaises, Preparing
  <2> QED
    BY <2>1, <2>2, CursorKeepsSlots DEF Preparing
<1>4. CASE RunNext
  <2>1. main = "prepare" /\ main' = "await" /\ UNCHANGED <<cursor, slot>>
    BY <1>4 DEF RunNext, Preparing, document
  <2> QED
    BY <2>1 DEF SlotInv
<1>5. CASE Collect
  <2>1. /\ main = "prepare" /\ main' = "prepare" /\ cursor \in Runnable /\ ~FailFast
        /\ cursor' = cursor + 1 /\ UNCHANGED slot
    BY <1>5 DEF Collect, Preparing, document
  <2>2. \A i \in Checks : (i < cursor + 1 <=> i < cursor \/ i = cursor)
    BY <1>c
  <2>3. \A i \in Checks : IF i < cursor + 1 THEN slot[i] # None \/ (~FailFast /\ i \in Runnable)
                          ELSE slot[i] = None
    BY <2>1, <2>2 DEF SlotInv
  <2> QED
    BY <2>1, <2>3 DEF SlotInv
<1>6. CASE SubmitGroups
  <2>1. main = "prepare" /\ main' = "pool" /\ cursor > NChecks /\ UNCHANGED slot
    BY <1>6 DEF SubmitGroups, document
  <2>2. \A i \in Checks \ Runnable : slot[i] # None
    BY <1>c, <2>1 DEF SlotInv
  <2> QED
    BY <2>1, <2>2 DEF SlotInv
<1>7. ASSUME NEW g \in Checks, NEW i \in Checks, RecordMember(g, i) PROVE SlotInv'
  <2>1. outcome[i] \in Results
    BY <1>7 DEF RecordMember, MayRecord, WorkInv, GroupSettled
  <2>2. /\ main = "pool" /\ main' \in {"pool", "unwinding"}
        /\ slot' = [slot EXCEPT ![i] = outcome[i]]
    BY <1>7 DEF RecordMember, RecordResult, CallbackRaises
  <2>3. \A j \in Checks \ Runnable : slot'[j] # None
    BY <2>1, <2>2, NoneIsNoResult DEF SlotInv, TypeInv, TypeOK
  <2> QED
    BY <2>2, <2>3 DEF SlotInv
<1>8. CASE ClosePool
  <2>1. main = "pool" /\ main' = "collect" /\ UNCHANGED slot
    BY <1>8 DEF ClosePool, document
  <2>2. \A i \in Checks : slot[i] # None
    BY <1>8, <2>1, HasLeader DEF ClosePool, GroupRecorded, SlotInv
  <2> QED
    BY <2>1, <2>2 DEF SlotInv
<1>9. CASE CollectReason \/ CloseReasons
  BY <1>9 DEF CollectReason, CloseReasons, SlotInv
<1>10. CASE RecordNext
  <2>1. main = "await" /\ cursor \in Checks
    BY <1>10 DEF RecordNext, TypeInv, AwaitsOne
  <2>2. outcome[cursor] \in Results
    BY <1>10, <2>1, GroupMember DEF RecordNext, WorkInv, GroupSettled, Leaders
  <2>3. /\ slot' = [slot EXCEPT ![cursor] = outcome[cursor]]
        /\ \/ main' = "prepare" /\ cursor' = cursor + 1
           \/ main' = "unwinding" /\ cursor' = cursor
    BY <1>10 DEF RecordNext, RecordResult, CallbackRaises
  <2> QED
    BY <2>1, <2>2, <2>3, CursorKeepsSlots
<1>11. CASE CloseLoop
  <2>1. main = "prepare" /\ main' = "close" /\ cursor > NChecks /\ FailFast /\ UNCHANGED slot
    BY <1>11 DEF CloseLoop, document
  <2>2. \A i \in Checks : slot[i] # None
    BY <1>c, <2>1 DEF SlotInv
  <2> QED
    BY <2>1, <2>2 DEF SlotInv
<1>12. CASE CloseRun
  BY <1>12 DEF CloseRun, SlotInv
<1>13. CASE RaiseFault
  BY <1>13 DEF RaiseFault, SlotInv
<1> QED
  BY <1>1, <1>2, <1>3, <1>4, <1>5, <1>6, <1>7, <1>8, <1>9, <1>10, <1>11, <1>12, <1>13
     DEF MainStep

LEMMA LedgerStep == LedgerInv /\ [Next]_vars => LedgerInv'
<1> SUFFICES ASSUME LedgerInv, [Next]_vars PROVE LedgerInv'
  OBVIOUS
<1>1. TypeInv' /\ WorkInv'
  BY TypeStep, WorkStep DEF LedgerInv
<1>2. SlotInv'
  <2>1. CASE UNCHANGED <<main, cursor, slot, status>>
    BY <2>1 DEF LedgerInv, SlotInv
  <2>2. CASE MainStep
    BY <2>2, MainStepKeepsSlots
  <2> QED
    BY <2>1, <2>2, WorkersLeaveDocument DEF Next, Expire, Ended, vars, control, document
<1> QED
  BY <1>1, <1>2 DEF LedgerInv

LEMMA LedgerInvariant == Spec => []LedgerInv
<1>1. Init => LedgerInv
  BY TypeInit, LedgerInit DEF LedgerInv
<1> QED
  BY <1>1, LedgerStep, PTL DEF Spec

(* A returned document that did not fail has a result for every check of   *)
(* the universe: filtering the empty slots out (runner.py) drops nothing.  *)
THEOREM NothingIsOmitted == Spec => []NothingOmitted
<1>1. LedgerInv => NothingOmitted
  BY DEF LedgerInv, SlotInv, NothingOmitted, Reported, Returned, Recorded
<1> QED
  BY <1>1, LedgerInvariant, PTL

------------------------------------------------------------------------------
(* Engine.run implements RunLedger.                                        *)

(* Settling one unsettled check is a ledger step while the call is open.   *)
LEMMA SettlesOne ==
  ASSUME NEW i \in Checks, NEW r \in Results, slot[i] = None,
         slot' = [slot EXCEPT ![i] = r],
         main \notin {"returned", "raised"}, main' \notin {"returned", "raised"},
         UNCHANGED status
  PROVE  Ledger!Next
<1>1. Ledger!Settle(i, r)
  BY DEF Ledger!Settle
<1>2. r \in Ledger!Results
  BY DEF Results, Measured, Errored, Skipped, Gaps, Ledger!Results, Ledger!Measured,
         Ledger!Errored, Ledger!Skipped, Ledger!Gaps
<1> QED
  BY <1>1, <1>2 DEF Ledger!Next

LEMMA MainStepIsLedgerStep ==
  ASSUME LedgerInv, MainStep
  PROVE  Ledger!Next \/ UNCHANGED Ledger!vars
<1> USE DEF LedgerInv
<1>c. cursor \in Int /\ \A i \in Checks : i \in Int
  BY DEF TypeInv, TypeOK, Checks
<1>1. CASE ProbeTarget \/ RunNext \/ Collect \/ SubmitGroups \/ ClosePool
           \/ CollectReason \/ CloseReasons \/ CloseLoop
  BY <1>1 DEF ProbeTarget, RunNext, Preparing, Collect, SubmitGroups, ClosePool,
              CollectReason, CloseReasons, CloseLoop, document, Ledger!vars
<1>2. CASE FailRun
  BY <1>2 DEF FailRun, SlotInv, Ledger!Next, Ledger!Fail
<1>3. CASE SkipStopped \/ SkipGenerated \/ SkipUnsupported \/ SkipLate
  <2>1. \E r \in Results : slot' = [slot EXCEPT ![cursor] = r]
    BY <1>3 DEF SkipStopped, SkipGenerated, SkipUnsupported, SkipLate, Skip, RecordResult,
                Results, Skipped, Gaps
  <2>2. /\ main = "prepare" /\ cursor \in Checks
        /\ main' \in {"prepare", "unwinding"} /\ UNCHANGED status
    BY <1>3 DEF SkipStopped, SkipGenerated, SkipUnsupported, SkipLate, Skip, RecordResult,
                CallbackRaises, Preparing
  <2>3. slot[cursor] = None
    BY <1>c, <2>2 DEF SlotInv
  <2> QED
    BY <2>1, <2>2, <2>3, SettlesOne
<1>4. ASSUME NEW g \in Checks, NEW i \in Checks, RecordMember(g, i)
      PROVE  Ledger!Next
  <2>1. outcome[i] \in Results /\ slot[i] = None
    BY <1>4 DEF RecordMember, MayRecord, WorkInv, GroupSettled
  <2>2. /\ slot' = [slot EXCEPT ![i] = outcome[i]]
        /\ main = "pool" /\ main' \in {"pool", "unwinding"} /\ UNCHANGED status
    BY <1>4 DEF RecordMember, RecordResult, CallbackRaises
  <2> QED
    BY <2>1, <2>2, SettlesOne
<1>5. CASE RecordNext
  <2>1. main = "await" /\ cursor \in Checks
    BY <1>5 DEF RecordNext, TypeInv, AwaitsOne
  <2>2. outcome[cursor] \in Results /\ slot[cursor] = None
    BY <1>5, <1>c, <2>1, GroupMember
       DEF RecordNext, WorkInv, GroupSettled, Leaders, SlotInv
  <2>3. /\ slot' = [slot EXCEPT ![cursor] = outcome[cursor]]
        /\ main' \in {"prepare", "unwinding"} /\ UNCHANGED status
    BY <1>5 DEF RecordNext, RecordResult, CallbackRaises
  <2> QED
    BY <2>1, <2>2, <2>3, SettlesOne
<1>6. CASE CloseRun
  <2>1. main = "close" /\ UNCHANGED slot /\ \A i \in Checks : slot[i] # None
    BY <1>6 DEF CloseRun, SlotInv
  <2>2. CASE Accepts(RunStatus, Recorded, slot)
    <3>1. Accepts(RunStatus, Checks, slot)
      BY <2>1, <2>2 DEF Accepts, Recorded
    <3>2. main' = "returned" /\ status' = RunStatus
      BY <1>6, <2>2 DEF CloseRun
    <3> QED
      BY <2>1, <3>1, <3>2 DEF RunStatus, Ledger!Next, Ledger!Return, Ledger!Accepts, Accepts, Gaps, Ledger!Gaps
  <2>3. CASE ~Accepts(RunStatus, Recorded, slot)
    BY <1>6, <2>3 DEF CloseRun, Ledger!vars
  <2> QED
    BY <2>2, <2>3
<1>7. CASE RaiseFault
  BY <1>7 DEF RaiseFault, document, Ledger!Next, Ledger!Raise
<1> QED
  BY <1>1, <1>2, <1>3, <1>4, <1>5, <1>6, <1>7 DEF MainStep

(* Whatever the workers, batches, deadline and callback do, a caller sees  *)
(* the ledger: each check settled at most once, never revised, and a       *)
(* document returned only when all are settled and the contract accepts it.*)
THEOREM EngineImplementsLedger == Spec => ImplementsLedger
<1>1. Init => Ledger!Init
  BY DEF Init, Ledger!Init
<1>2. LedgerInv /\ [Next]_vars => [Ledger!Next]_(Ledger!vars)
  <2> SUFFICES ASSUME LedgerInv, [Next]_vars
               PROVE  Ledger!Next \/ UNCHANGED Ledger!vars
    OBVIOUS
  <2>1. CASE UNCHANGED <<main, cursor, slot, status>>
    BY <2>1 DEF Ledger!vars
  <2>2. CASE MainStep
    BY <2>2, MainStepIsLedgerStep
  <2> QED
    BY <2>1, <2>2, WorkersLeaveDocument DEF Next, Expire, Ended, vars, control, document
<1> QED
  BY <1>1, <1>2, LedgerInvariant, PTL DEF Spec, ImplementsLedger, Ledger!Spec

------------------------------------------------------------------------------
(* The workers: no query and no group outlives the call of Engine.run, in  *)
(* a run that returns and in one that raises; and what a worker lost is    *)
(* reported, so that the document is accepted and the budget alone never   *)
(* fails a run.                                                            *)

Active(i)  == pc[i] \notin {"idle", "settled"}
Running    == {"solo", "shared"}
Resting    == {"idle", "finished"}
Measuring  == {"solo", "batch", "shared", "fan_error", "fan_timeout"}

(* A query at the server belongs to a check at a query stage or to a batch *)
(* that measures, and a check leaves "idle" only in a running group.       *)
QueryInv ==
  /\ \A i \in inflight : pc[i] \in QueryStages \/ group[i] = "batch"
  /\ \A i \in Checks : Active(i) =>
       \E g \in Checks : i \in GroupOf(g) /\ group[g] \in Running

(* Which groups can be at work, by where the main thread is.               *)
MainInv ==
  /\ ~FailFast => stop = 0
  /\ main \in {"probe", "prepare"} => \A g \in Checks : group[g] \in Resting
  /\ main \in {"probe", "prepare"} /\ ~FailFast => \A i \in Runnable : slot[i] = None
  /\ main = "await" => \A g \in Checks : g # cursor => group[g] \in Resting
  /\ main = "pool" =>
       \A g \in Leaders : \A i \in GroupOf(g) : slot[i] # None => group[g] = "finished"
  /\ main \in {"collect", "close", "returned", "raised"} =>
       \A g \in Checks : group[g] \in Resting \cup {"queued"}

PoolInv == LedgerInv /\ QueryInv /\ MainInv

LEMMA PoolInit == Init => QueryInv /\ MainInv
BY DEF Init, QueryInv, MainInv, Active, Resting, Runnable

(* With no group at work no query is at the server.                        *)
LEMMA QuietGroups ==
  ASSUME TypeOK, QueryInv, \A g \in Checks : group[g] \notin Measuring
  PROVE  inflight = {} /\ \A i \in Checks : ~Active(i)
<1>1. \A i \in Checks : ~Active(i)
  BY DEF QueryInv, Running, Measuring
<1>2. ASSUME NEW i \in inflight PROVE FALSE
  <2>1. i \in Checks /\ group[i] # "batch"
    BY DEF TypeOK, Measuring
  <2> QED
    BY <1>1, <2>1 DEF QueryInv, Active, QueryStages
<1> QED
  BY <1>1, <1>2

LEMMA CheckStepKeepsQueries ==
  ASSUME TypeOK, QueryInv, NEW g \in Checks, NEW i \in Checks, CheckStep(g, i)
  PROVE  QueryInv'
<1>1. UNCHANGED <<group, inflight>> /\ pc[i] \notin QueryStages
  BY DEF CheckStep, StartCheck, StartMember, FailMember, Evaluate, Turn, QueryStages
<1>2. \A j \in Checks : j # i => pc'[j] = pc[j]
  BY DEF CheckStep, StartCheck, StartMember, FailMember, Evaluate, Settle, SettleTimeout,
         Advance, TypeOK
<1>3. ASSUME Active(i)' PROVE \E h \in Checks : i \in GroupOf(h) /\ group[h] \in Running
  <2>1. CASE pc[i] = "idle"
    <3>1. pc'[i] # "settled" => i \in GroupOf(g) /\ group[g] \in Running
      BY <2>1 DEF CheckStep, StartCheck, StartMember, FailMember, Evaluate, Settle,
                  SettleTimeout, Turn, TypeOK, Running
    <3> QED
      BY <1>3, <3>1 DEF Active
  <2>2. CASE pc[i] # "idle"
    <3>1. pc[i] = "evaluate"
      BY <2>2 DEF CheckStep, StartCheck, StartMember, FailMember, Evaluate, Turn
    <3> QED
      BY <3>1 DEF QueryInv, Active
  <2> QED
    BY <2>1, <2>2
<1> QED
  BY <1>1, <1>2, <1>3 DEF QueryInv, Active, TypeOK

LEMMA StageStepKeepsQueries ==
  ASSUME TypeOK, QueryInv, NEW i \in Checks, StageStep(i)
  PROVE  QueryInv'
<1>1. UNCHANGED group /\ Active(i)
  BY DEF StageStep, Compile, ReadBaseline, BeginQuery, EndQuery, Active, QueryStages
<1>2. \A j \in Checks : j # i => pc'[j] = pc[j]
  BY DEF StageStep, Compile, ReadBaseline, BeginQuery, EndQuery, Settle, SettleTimeout,
         Advance, TypeOK
<1>3. inflight' \subseteq inflight \cup {i}
  BY DEF StageStep, Compile, ReadBaseline, BeginQuery, EndQuery
<1>4. i \in inflight' => pc'[i] \in QueryStages \/ group[i] = "batch"
  BY DEF StageStep, Compile, ReadBaseline, BeginQuery, EndQuery, QueryInv, QueryStages
<1> QED
  BY <1>1, <1>2, <1>3, <1>4 DEF QueryInv, Active, TypeOK

LEMMA GroupStepKeepsQueries ==
  ASSUME TypeOK, WorkInv, QueryInv, NEW g \in Checks, GroupStep(g)
  PROVE  QueryInv'
<1>1. CASE StartGroup(g)
  BY <1>1 DEF StartGroup, QueryInv, TypeOK, Active, Running
<1>2. CASE BeginBatch(g)
  BY <1>2 DEF BeginBatch, QueryInv, TypeOK, Active, Running
<1>3. CASE EndBatch(g)
  BY <1>3 DEF EndBatch, QueryInv, TypeOK, Active, Running
<1>4. CASE FinishGroup(g)
  <2>1. \A i \in Checks : Active(i) => i \notin GroupOf(g)
    BY <1>4 DEF FinishGroup, GroupSettled, Active
  <2> QED
    BY <1>4, <2>1 DEF FinishGroup, QueryInv, TypeOK, Active
<1>5. CASE BreakBatch(g)
  <2>1. ASSUME NEW i \in Checks, Active(i)' PROVE Active(i) /\ i \notin GroupOf(g)
    BY <1>5, <2>1 DEF BreakBatch, Active
  <2>2. ASSUME NEW i \in inflight PROVE pc'[i] \in QueryStages \/ group'[i] = "batch"
    <3>1. i \in Checks
      BY DEF TypeOK
    <3>2. CASE i \in GroupOf(g)
      <4>1. group[i] = "batch"
        BY <1>5, <3>2 DEF BreakBatch, GroupSettled, QueryInv, QueryStages
      <4> QED
        BY <1>5, <3>1, <4>1 DEF BreakBatch, TypeOK
    <3>3. CASE i \notin GroupOf(g)
      <4>1. pc'[i] = pc[i]
        BY <1>5, <3>1, <3>3 DEF BreakBatch
      <4>2. group[i] = "batch" => group'[i] = "batch"
        BY <1>5, <3>1 DEF BreakBatch, TypeOK
      <4> QED
        BY <4>1, <4>2 DEF QueryInv
    <3> QED
      BY <3>2, <3>3
  <2>3. ASSUME NEW i \in Checks, Active(i)'
        PROVE  \E h \in Checks : i \in GroupOf(h) /\ group'[h] \in Running
    <3>1. PICK h \in Checks : i \in GroupOf(h) /\ group[h] \in Running
      BY <2>1, <2>3 DEF QueryInv
    <3>2. h # g
      BY <2>1, <2>3, <3>1
    <3> QED
      BY <1>5, <3>1, <3>2 DEF BreakBatch, TypeOK
  <2> QED
    BY <1>5, <2>2, <2>3 DEF BreakBatch, QueryInv
<1> QED
  BY <1>1, <1>2, <1>3, <1>4, <1>5 DEF GroupStep

LEMMA MainStepKeepsQueries ==
  ASSUME TypeInv, QueryInv, MainInv, MainStep
  PROVE  QueryInv'
<1>1. CASE RunNext
  <2>1. cursor \in Checks /\ group[cursor] \in Resting
    BY <1>1 DEF RunNext, Preparing, MainInv
  <2> QED
    BY <1>1, <2>1 DEF RunNext, QueryInv, TypeInv, TypeOK, Active, Running, Resting
<1>2. CASE SubmitGroups
  <2>1. \A g \in Checks : group[g] \notin Measuring
    BY <1>2 DEF SubmitGroups, MainInv, Resting, Measuring
  <2>2. inflight = {} /\ \A i \in Checks : ~Active(i)
    BY <2>1, QuietGroups DEF TypeInv
  <2> QED
    BY <1>2, <2>2 DEF SubmitGroups, QueryInv, Active
<1>3. CASE UNCHANGED <<group, pc, inflight>>
  BY <1>3 DEF QueryInv, Active
<1> QED
  BY <1>1, <1>2, <1>3
     DEF MainStep, ProbeTarget, FailRun, SkipStopped, SkipGenerated, SkipUnsupported,
         SkipLate, Skip, Collect, RecordMember, ClosePool, CollectReason, CloseReasons,
         RecordNext, CloseLoop, CloseRun, RaiseFault, work

LEMMA QueryStep ==
  ASSUME LedgerInv, QueryInv, MainInv, [Next]_vars
  PROVE  QueryInv'
<1>1. CASE UNCHANGED <<group, pc, inflight>>
  BY <1>1 DEF QueryInv, Active
<1>2. CASE MainStep
  BY <1>2, MainStepKeepsQueries DEF LedgerInv
<1>3. ASSUME NEW g \in Checks, NEW i \in Checks,
             CheckStep(g, i) \/ StageStep(i) \/ GroupStep(g)
      PROVE  QueryInv'
  BY <1>3, CheckStepKeepsQueries, StageStepKeepsQueries, GroupStepKeepsQueries
     DEF LedgerInv, TypeInv
<1> QED
  BY <1>1, <1>2, <1>3 DEF Next, Expire, Ended, vars, work

------------------------------------------------------------------------------
(* Workers never wake a group that rests, and leave the main thread alone. *)
LEMMA WorkersKeepMainInv ==
  ASSUME TypeOK, WorkInv, MainInv, NEW g \in Checks, NEW i \in Checks,
         CheckStep(g, i) \/ StageStep(i) \/ GroupStep(g)
  PROVE  MainInv'
<1>1. UNCHANGED <<main, cursor, stop, slot>>
  BY WorkersLeaveDocument
<1>2. CASE UNCHANGED group
  BY <1>1, <1>2 DEF MainInv
<1>3. CASE StartGroup(g)
  BY <1>1, <1>3 DEF StartGroup, MainInv, TypeOK, Resting
<1>4. CASE FinishGroup(g)
  BY <1>1, <1>4 DEF FinishGroup, MainInv, TypeOK, Resting
<1>5. CASE BeginBatch(g) \/ EndBatch(g) \/ BreakBatch(g)
  <2>1. /\ group[g] \in {"batch", "shared"}
        /\ \A h \in Checks : h # g => group'[h] = group[h]
    BY <1>5 DEF BeginBatch, EndBatch, BreakBatch, TypeOK
  <2>2. Leaders \subseteq Checks
    BY DEF Leaders, Runnable
  <2>3. main' \notin {"probe", "prepare", "collect", "close", "returned", "raised"}
    BY <1>1, <2>1 DEF MainInv, Resting
  <2>4. main' = "await" => g = cursor'
    BY <1>1, <2>1 DEF MainInv, Resting
  <2>5. main' = "pool" =>
          \A h \in Leaders : \A j \in GroupOf(h) : slot'[j] # None => group'[h] = "finished"
    BY <1>1, <2>1, <2>2 DEF MainInv
  <2> QED
    BY <1>1, <2>1, <2>3, <2>4, <2>5 DEF MainInv
<1> QED
  BY <1>2, <1>3, <1>4, <1>5
     DEF CheckStep, StartCheck, StartMember, FailMember, Evaluate,
         StageStep, Compile, ReadBaseline, BeginQuery, EndQuery, GroupStep

LEMMA MainStepKeepsMainInv ==
  ASSUME LedgerInv, QueryInv, MainInv, MainStep
  PROVE  MainInv'
<1> USE DEF LedgerInv
<1>1. CASE ProbeTarget
  BY <1>1 DEF ProbeTarget, MainInv, work, document
<1>2. CASE FailRun
  BY <1>2 DEF FailRun, MainInv, Resting, work
<1>3. CASE SkipStopped \/ SkipGenerated \/ SkipUnsupported \/ SkipLate
  <2>1. /\ main = "prepare" /\ main' \in {"prepare", "unwinding"}
        /\ UNCHANGED <<stop, group>> /\ cursor \in Checks
        /\ \A i \in Checks : i # cursor => slot'[i] = slot[i]
    BY <1>3 DEF SkipStopped, SkipGenerated, SkipUnsupported, SkipLate, Skip, RecordResult,
                CallbackRaises, Preparing, TypeInv, TypeOK, work
  <2>2. ~FailFast => cursor \notin Runnable
    BY <1>3 DEF SkipStopped, SkipGenerated, SkipUnsupported, SkipLate, MainInv, Runnable
  <2>3. ~FailFast => \A i \in Runnable : slot'[i] = None
    BY <2>1, <2>2 DEF MainInv, Runnable
  <2> QED
    BY <2>1, <2>3 DEF MainInv
<1>4. CASE RunNext
  BY <1>4 DEF RunNext, Preparing, MainInv, TypeInv, TypeOK, document
<1>5. CASE Collect
  BY <1>5 DEF Collect, Preparing, MainInv, work, document
<1>6. CASE SubmitGroups
  <2>1. main' = "pool" /\ ~FailFast /\ UNCHANGED <<stop, slot>> /\ main = "prepare"
    BY <1>6 DEF SubmitGroups, document
  <2>2. \A g \in Leaders : \A i \in GroupOf(g) : slot'[i] = None
    BY <2>1, GroupMember DEF MainInv, Leaders
  <2> QED
    BY <2>1, <2>2 DEF MainInv
<1>7. ASSUME NEW g \in Checks, NEW i \in Checks, RecordMember(g, i) PROVE MainInv'
  <2>1. /\ main = "pool" /\ main' \in {"pool", "unwinding"}
        /\ UNCHANGED <<stop, group>> /\ group[g] = "finished" /\ i \in GroupOf(g)
        /\ \A j \in Checks : j # i => slot'[j] = slot[j]
    BY <1>7 DEF RecordMember, RecordResult, MayRecord, CallbackRaises, TypeInv, TypeOK, work
  <2>2. g \in Leaders
    BY <2>1 DEF WorkInv
  <2>3. ASSUME NEW h \in Leaders, NEW j \in GroupOf(h), slot'[j] # None
        PROVE  group[h] = "finished"
    <3>1. j \in Checks
      BY GroupMember DEF Leaders, Runnable
    <3>2. CASE j = i
      BY <2>1, <2>2, <3>2, OneLeader
    <3>3. CASE j # i
      BY <2>1, <2>3, <3>1, <3>3 DEF MainInv
    <3> QED
      BY <3>2, <3>3
  <2> QED
    BY <2>1, <2>3 DEF MainInv
<1>8. CASE ClosePool
  <2>1. /\ main = "pool" /\ main' = "collect" /\ UNCHANGED <<stop, group, slot>>
        /\ \A g \in Leaders : GroupRecorded(g)
    BY <1>8 DEF ClosePool, work, document
  <2>2. \A g \in Leaders : group[g] = "finished"
    BY <2>1, GroupMember DEF GroupRecorded, MainInv, Leaders
  <2>3. \A g \in Checks : group[g] \in Resting
    BY <2>2 DEF WorkInv, Resting
  <2> QED
    BY <2>1, <2>3 DEF MainInv
<1>9. CASE CollectReason \/ CloseReasons
  BY <1>9 DEF CollectReason, CloseReasons, MainInv, work
<1>10. CASE RecordNext
  <2>1. cursor \in Checks /\ FailFast /\ group[cursor] = "finished" /\ main = "await"
    BY <1>10 DEF RecordNext, TypeInv, AwaitsOne
  <2>2. \A g \in Checks : group[g] \in Resting
    BY <2>1 DEF MainInv, Resting
  <2>3. main' \in {"prepare", "unwinding"} /\ UNCHANGED group
    BY <1>10 DEF RecordNext, CallbackRaises, work
  <2> QED
    BY <2>1, <2>2, <2>3 DEF MainInv
<1>11. CASE CloseLoop
  BY <1>11 DEF CloseLoop, MainInv, work, document
<1>12. CASE CloseRun
  BY <1>12 DEF CloseRun, MainInv, work
<1>13. CASE RaiseFault
  BY <1>13 DEF RaiseFault, PoolDrained, MainInv, Resting, work, document
<1> QED
  BY <1>1, <1>2, <1>3, <1>4, <1>5, <1>6, <1>7, <1>8, <1>9, <1>10, <1>11, <1>12, <1>13
     DEF MainStep

LEMMA PoolStep == PoolInv /\ [Next]_vars => PoolInv'
<1> SUFFICES ASSUME PoolInv, [Next]_vars PROVE PoolInv'
  OBVIOUS
<1>1. LedgerInv' /\ QueryInv'
  BY LedgerStep, QueryStep DEF PoolInv
<1>2. MainInv'
  <2>1. CASE UNCHANGED <<main, cursor, stop, slot, group>>
    BY <2>1 DEF PoolInv, MainInv
  <2>2. CASE MainStep
    BY <2>2, MainStepKeepsMainInv DEF PoolInv
  <2>3. ASSUME NEW g \in Checks, NEW i \in Checks,
               CheckStep(g, i) \/ StageStep(i) \/ GroupStep(g)
        PROVE  MainInv'
    BY <2>3, WorkersKeepMainInv DEF PoolInv, LedgerInv, TypeInv
  <2> QED
    BY <2>1, <2>2, <2>3 DEF Next, Expire, Ended, vars, control, work, document
<1> QED
  BY <1>1, <1>2 DEF PoolInv

(* When Engine.run has returned or raised, no query is at the server and   *)
(* no group is at work: whoever closes the client next (execute_run) pulls *)
(* it from under nobody.                                                   *)
THEOREM QuietWhenDone == Spec => []QuietOnExit
<1>1. Init => PoolInv
  BY TypeInit, LedgerInit, PoolInit DEF PoolInv, LedgerInv
<1>2. PoolInv => QuietOnExit
  <2> SUFFICES ASSUME PoolInv, main \in {"returned", "raised"}
               PROVE  inflight = {} /\ Busy = {}
    BY DEF QuietOnExit
  <2>1. \A g \in Checks : group[g] \notin Measuring /\ g \notin Busy
    BY DEF PoolInv, MainInv, Resting, Measuring, Busy
  <2>2. inflight = {}
    BY <2>1, QuietGroups DEF PoolInv, LedgerInv, TypeInv
  <2> QED
    BY <2>1, <2>2 DEF Busy
<1> QED
  BY <1>1, <1>2, PoolStep, PTL DEF Spec

------------------------------------------------------------------------------
(* Lost coverage is never silent: from the step that loses it to the       *)
(* document.                                                               *)
Lost == Gaps \cup {"timeout"}

(* What a worker loses carries a reason; what the main thread has recorded *)
(* of a worker is still what the worker said; and the reasons show it once *)
(* the main thread has come past the check.                                *)
WhyInv ==
  \A i \in Checks : pc[i] = "settled" /\ outcome[i] \in Lost => why[i] # NoReason

HeldInv ==
  main \in {"pool", "collect"} =>
    \A i \in Runnable : slot[i] # None => slot[i] = outcome[i] /\ pc[i] = "settled"

ShownInv ==
  /\ main \in {"prepare", "await", "close"} =>
       \A i \in Checks : slot[i] \in Lost => reasons # <<>>
  /\ main = "pool" => \A i \in Checks \ Runnable : slot[i] \in Lost => reasons # <<>>
  /\ main = "collect" =>
       \A i \in Checks : slot[i] \in Lost /\ (i < cursor \/ i \notin Runnable) => reasons # <<>>
  /\ main = "returned" /\ status # "failed" =>
       \A i \in Checks : slot[i] \in Lost => status = "partial"

ReasonInv == PoolInv /\ WhyInv /\ HeldInv /\ ShownInv

LEMMA ReasonInit == Init => WhyInv /\ HeldInv /\ ShownInv
BY DEF Init, WhyInv, HeldInv, ShownInv, Lost, Gaps, None

LEMMA AppendedReasons ==
  ASSUME NEW s \in Seq(AllReasons), NEW r \in AllReasons, s # <<>> \/ r # NoReason
  PROVE  AppendReason(s, r) # <<>>
BY DEF AppendReason, AppendOnce, Range

LEMMA AppendedDeadline ==
  ASSUME NEW s \in Seq(AllReasons), s # <<>>
  PROVE  AppendOnce(s, DeadlineReason) # <<>>
BY DEF AppendOnce, Range

LEMMA RealReasons ==
  ASSUME NEW i, NEW r
  PROVE  /\ DeadlineReason # NoReason
         /\ WithDeadline(i, r) # NoReason
         /\ Reason("fail_fast", i) # NoReason
         /\ Reason("unsupported", i) # NoReason
BY DEF DeadlineReason, NoReason, WithDeadline, Reason, None

(* A worker's step about check i, which is not settled yet.                *)
Tells(i) ==
  \/ \E r \in Results, reason \in AllReasons :
       Settle(i, r, reason) /\ (r \in Lost => reason # NoReason)
  \/ /\ \E stage \in Stages \ {"settled"} : pc' = [pc EXCEPT ![i] = stage]
     /\ UNCHANGED outcome
     /\ \A j \in Checks : j # i => why'[j] = why[j]
  \/ UNCHANGED <<pc, outcome, why>>

LEMMA TimeoutTells ==
  ASSUME TypeOK, NEW i \in Checks, SettleTimeout(i)
  PROVE  Tells(i)
<1>1. WithDeadline(i, why[i]) \in AllReasons /\ why[i] \in AllReasons
  BY FixedReasonTypes, ReasonTypes DEF WithDeadline, Causes, Checks, TypeOK
<1>2. "errored" \in Results \ Lost /\ "timeout" \in Results
  BY DEF Results, Errored, Lost, Gaps
<1> QED
  BY <1>1, <1>2, RealReasons DEF SettleTimeout, Tells

LEMMA CheckStepTells ==
  ASSUME TypeOK, NEW g \in Checks, NEW i \in Checks, CheckStep(g, i)
  PROVE  Tells(i)
<1>r. why[i] \in AllReasons /\ NoReason \in AllReasons /\ DeadlineReason \in AllReasons
  BY FixedReasonTypes DEF TypeOK
<1>e. {"errored", "model_absent"} \subseteq Results \ Lost /\ "not_run" \in Results
  BY DEF Results, Errored, Skipped, Gaps, Lost
<1>1. CASE StartCheck(g, i)
  <2>1. {"presence", "compile"} \subseteq Stages \ {"settled"}
    BY DEF Stages, QueryStages
  <2> QED
    BY <1>1, <1>r, <1>e, <2>1, RealReasons DEF StartCheck, Tells, Advance
<1>2. CASE StartMember(g, i)
  BY <1>2 DEF StartMember, Tells, Advance, Stages, QueryStages
<1>3. CASE FailMember(g, i)
  BY <1>3, <1>r, <1>e, TimeoutTells DEF FailMember, Tells
<1>4. CASE Evaluate(g, i)
  <2>1. \A passed \in BOOLEAN : VerdictOf(passed, Severity[i]) \in Results \ Lost
    BY DEF VerdictOf, Results, Measured, Lost, Gaps
  <2> QED
    BY <1>4, <1>r, <1>e, <2>1, TimeoutTells DEF Evaluate, Tells
<1> QED
  BY <1>1, <1>2, <1>3, <1>4 DEF CheckStep

LEMMA StageStepTells ==
  ASSUME TypeOK, NEW i \in Checks, StageStep(i)
  PROVE  Tells(i)
<1>r. why[i] \in AllReasons /\ NoReason \in AllReasons
  BY FixedReasonTypes DEF TypeOK
<1>e. {"errored", "model_absent"} \subseteq Results \ Lost
  BY DEF Results, Errored, Skipped, Gaps, Lost
<1>1. CASE Compile(i)
  <2>1. AfterCompile(i) \in Stages \ {"settled"}
    BY DEF AfterCompile, Stages, QueryStages
  <2> QED
    BY <1>1, <1>r, <1>e, <2>1 DEF Compile, Tells, Advance
<1>2. CASE ReadBaseline(i)
  <2>1. Reason("baseline_missing", i) \in AllReasons /\ "measure" \in Stages \ {"settled"}
    BY ReasonTypes DEF Causes, Checks, Stages, QueryStages
  <2> QED
    BY <1>2, <1>r, <1>e, <2>1 DEF ReadBaseline, Tells, Advance, TypeOK
<1>3. CASE BeginQuery(i)
  BY <1>3, TimeoutTells DEF BeginQuery, Tells
<1>4. CASE EndQuery(i)
  <2>1. AfterQuery(i) \subseteq Stages \ {"settled"}
    BY DEF AfterQuery, Stages, QueryStages
  <2> QED
    BY <1>4, <1>r, <1>e, <2>1, TimeoutTells DEF EndQuery, Tells, Advance
<1> QED
  BY <1>1, <1>2, <1>3, <1>4 DEF StageStep

(* ... leaves every settled check as it is, and settles only with a reason.*)
LEMMA TellingKeepsWhy ==
  ASSUME TypeOK, WhyInv, NEW i \in Checks, pc[i] # "settled", Tells(i)
  PROVE  /\ WhyInv'
         /\ \A j \in Checks : pc[j] = "settled" => pc'[j] = "settled" /\ outcome'[j] = outcome[j]
BY DEF Tells, Settle, TypeOK, WhyInv

LEMMA WorkersKeepReasons ==
  ASSUME LedgerInv, MainInv, WhyInv, HeldInv, NEW g \in Checks, NEW i \in Checks,
         CheckStep(g, i) \/ StageStep(i) \/ GroupStep(g)
  PROVE  WhyInv' /\ HeldInv'
<1> USE DEF LedgerInv, TypeInv
<1>1. UNCHANGED <<main, slot>>
  BY WorkersLeaveDocument
<1>2. Runnable \subseteq Checks
  BY DEF Runnable
<1>3. CASE CheckStep(g, i) \/ StageStep(i)
  <2>1. pc[i] # "settled" /\ Tells(i)
    BY <1>3, CheckStepReports, StageStepReports, CheckStepTells, StageStepTells
  <2>2. /\ WhyInv'
        /\ \A j \in Checks : pc[j] = "settled" => pc'[j] = "settled" /\ outcome'[j] = outcome[j]
    BY <2>1, TellingKeepsWhy
  <2> QED
    BY <1>1, <1>2, <2>2 DEF HeldInv
<1>4. CASE BreakBatch(g)
  <2>1. g \in Leaders /\ group[g] = "shared"
    BY <1>4 DEF BreakBatch, WorkInv
  <2>2. main \in {"pool", "collect"} => \A j \in GroupOf(g) : slot[j] = None
    BY <2>1 DEF MainInv, Resting
  <2>3. \A j \in Checks : IF j \in GroupOf(g) THEN pc'[j] = "idle"
                          ELSE pc'[j] = pc[j] /\ outcome'[j] = outcome[j] /\ why'[j] = why[j]
    BY <1>4 DEF BreakBatch
  <2>4. WhyInv'
    BY <2>3 DEF WhyInv
  <2> QED
    BY <1>1, <1>2, <2>2, <2>3, <2>4 DEF HeldInv
<1>5. CASE UNCHANGED <<pc, outcome, why>>
  BY <1>1, <1>5 DEF WhyInv, HeldInv
<1> QED
  BY <1>3, <1>4, <1>5 DEF GroupStep, StartGroup, BeginBatch, EndBatch, FinishGroup

LEMMA MainStepKeepsHeld ==
  ASSUME LedgerInv, MainInv, HeldInv, MainStep
  PROVE  HeldInv'
<1> USE DEF LedgerInv
<1>1. CASE SubmitGroups
  BY <1>1 DEF SubmitGroups, MainInv, HeldInv, document
<1>2. ASSUME NEW g \in Checks, NEW i \in Checks, RecordMember(g, i) PROVE HeldInv'
  <2>1. /\ main = "pool" /\ slot' = [slot EXCEPT ![i] = outcome[i]]
        /\ UNCHANGED <<pc, outcome>> /\ pc[i] = "settled"
    BY <1>2 DEF RecordMember, RecordResult, MayRecord, WorkInv, GroupSettled, work
  <2> QED
    BY <2>1 DEF HeldInv, TypeInv, TypeOK, Runnable
<1>3. CASE ClosePool \/ CollectReason
  BY <1>3 DEF ClosePool, CollectReason, HeldInv, work, document
<1>4. CASE main' \notin {"pool", "collect"}
  BY <1>4 DEF HeldInv
<1> QED
  BY <1>1, <1>2, <1>3, <1>4
     DEF MainStep, ProbeTarget, FailRun, SkipStopped, SkipGenerated, SkipUnsupported,
         SkipLate, Skip, CallbackRaises, Preparing, RunNext, Collect, CloseReasons,
         RecordNext, CloseLoop, CloseRun, RaiseFault

(* A step that records the check under the cursor with a reason for what   *)
(* it loses.                                                               *)
LEMMA CursorShows ==
  ASSUME TypeInv, ShownInv, main \in {"prepare", "await"}, cursor \in Checks,
         NEW r \in Results, NEW reason \in AllReasons, r \in Lost => reason # NoReason,
         slot' = [slot EXCEPT ![cursor] = r],
         \/ /\ main' = "prepare"
            /\ reasons' \in {AppendReason(reasons, reason),
                             AppendOnce(AppendReason(reasons, reason), DeadlineReason)}
         \/ main' = "unwinding"
  PROVE  ShownInv'
<1>1. CASE main' = "unwinding"
  BY <1>1 DEF ShownInv
<1>2. CASE main' = "prepare"
  <2>1. AppendReason(reasons, reason) \in Seq(AllReasons)
    BY AppendReasonType DEF TypeInv, TypeOK
  <2>2. reasons # <<>> \/ r \in Lost => reasons' # <<>>
    BY <1>2, <2>1, AppendedReasons, AppendedDeadline DEF TypeInv, TypeOK
  <2>3. \A i \in Checks : slot'[i] \in Lost => reasons' # <<>>
    BY <2>2 DEF ShownInv, TypeInv, TypeOK
  <2> QED
    BY <1>2, <2>3 DEF ShownInv
<1> QED
  BY <1>1, <1>2

LEMMA SkipShows ==
  ASSUME TypeInv, ShownInv, Preparing, NEW r \in Results, NEW reason \in AllReasons,
         r \in Lost => reason # NoReason, NEW code, Skip(r, reason, code)
  PROVE  ShownInv'
BY CursorShows DEF Skip, RecordResult, CallbackRaises, Preparing

LEMMA MainStepKeepsShown ==
  ASSUME PoolInv, WhyInv, HeldInv, ShownInv, MainStep
  PROVE  ShownInv'
<1> USE DEF PoolInv, LedgerInv
<1>1. CASE ProbeTarget
  <2>1. \A i \in Checks : slot[i] = None
    BY <1>1 DEF ProbeTarget, SlotInv
  <2> QED
    BY <1>1, <2>1 DEF ProbeTarget, ShownInv, document, Lost, Gaps, None
<1>2. CASE FailRun
  BY <1>2 DEF FailRun, ShownInv
<1>3. CASE SkipStopped
  BY <1>3, SkipShows, RealReasons, ReasonTypes
     DEF SkipStopped, Results, Skipped, Gaps, Causes, TypeInv, TypeOK
<1>4. CASE SkipGenerated
  BY <1>4, SkipShows, FixedReasonTypes DEF SkipGenerated, Results, Skipped, Lost, Gaps
<1>5. CASE SkipUnsupported
  BY <1>5, SkipShows, RealReasons, ReasonTypes
     DEF SkipUnsupported, Preparing, Results, Skipped, Gaps, Causes, Checks
<1>6. CASE SkipLate
  BY <1>6, SkipShows, RealReasons, FixedReasonTypes DEF SkipLate, Results, Skipped, Gaps
<1>7. CASE RunNext \/ Collect \/ CloseLoop
  BY <1>7 DEF RunNext, Collect, CloseLoop, Preparing, ShownInv, document
<1>8. CASE SubmitGroups
  BY <1>8 DEF SubmitGroups, ShownInv, document
<1>9. ASSUME NEW g \in Checks, NEW i \in Checks, RecordMember(g, i) PROVE ShownInv'
  <2>1. /\ main = "pool" /\ main' \in {"pool", "unwinding"} /\ UNCHANGED reasons
        /\ slot' = [slot EXCEPT ![i] = outcome[i]]
    BY <1>9 DEF RecordMember, RecordResult, CallbackRaises
  <2>2. i \in Runnable
    BY <1>9, GroupMember DEF RecordMember, MayRecord, WorkInv, Leaders
  <2>3. \A j \in Checks \ Runnable : slot'[j] = slot[j]
    BY <2>1, <2>2 DEF TypeInv, TypeOK
  <2> QED
    BY <2>1, <2>3 DEF ShownInv
<1>10. CASE ClosePool
  <2>1. main = "pool" /\ main' = "collect" /\ cursor' = 1 /\ UNCHANGED <<slot, reasons>>
    BY <1>10 DEF ClosePool, document
  <2>2. \A i \in Checks : ~(i < 1)
    BY DEF Checks
  <2> QED
    BY <2>1, <2>2 DEF ShownInv
<1>11. CASE CollectReason
  <2>1. /\ main = "collect" /\ main' = "collect" /\ cursor \in Checks /\ cursor' = cursor + 1
        /\ reasons' = AppendReason(reasons, why[cursor]) /\ UNCHANGED slot
    BY <1>11 DEF CollectReason
  <2>2. reasons # <<>> \/ why[cursor] # NoReason => reasons' # <<>>
    BY <2>1, AppendedReasons DEF TypeInv, TypeOK
  <2>3. cursor \in Runnable /\ slot[cursor] \in Lost => why[cursor] # NoReason
    BY <2>1 DEF HeldInv, WhyInv, Lost, Gaps, None
  <2>4. \A i \in Checks : i < cursor + 1 => i < cursor \/ i = cursor
    BY <2>1 DEF Checks
  <2> QED
    BY <2>1, <2>2, <2>3, <2>4 DEF ShownInv
<1>12. CASE CloseReasons
  <2>1. /\ main = "collect" /\ main' = "close" /\ cursor > NChecks /\ UNCHANGED slot
        /\ reasons' \in {reasons, AppendOnce(reasons, DeadlineReason)}
    BY <1>12 DEF CloseReasons, NoteDeadline
  <2>2. reasons # <<>> => reasons' # <<>>
    BY <2>1, AppendedDeadline DEF TypeInv, TypeOK
  <2>3. \A i \in Checks : i < cursor
    BY <2>1, CheckAssumption DEF Checks, TypeInv, TypeOK
  <2> QED
    BY <2>1, <2>2, <2>3 DEF ShownInv
<1>13. CASE RecordNext
  <2>1. main = "await" /\ cursor \in Checks /\ group[cursor] = "finished"
    BY <1>13 DEF RecordNext, TypeInv, AwaitsOne
  <2>2. pc[cursor] = "settled" /\ outcome[cursor] \in Results /\ why[cursor] \in AllReasons
    BY <2>1, GroupMember DEF WorkInv, GroupSettled, Leaders, TypeInv, TypeOK
  <2>3. outcome[cursor] \in Lost => why[cursor] # NoReason
    BY <2>1, <2>2 DEF WhyInv
  <2>4. /\ slot' = [slot EXCEPT ![cursor] = outcome[cursor]]
        /\ \/ /\ main' = "prepare"
              /\ reasons' \in {AppendReason(reasons, why[cursor]),
                               AppendOnce(AppendReason(reasons, why[cursor]), DeadlineReason)}
           \/ main' = "unwinding"
    BY <1>13 DEF RecordNext, RecordResult, CallbackRaises, NoteDeadline
  <2> QED
    BY <2>1, <2>2, <2>3, <2>4, CursorShows
<1>14. CASE CloseRun
  <2>1. main = "close" /\ UNCHANGED slot
        /\ ((main' = "returned" /\ status' = RunStatus) \/ main' = "unwinding")
    BY <1>14 DEF CloseRun
  <2> QED
    BY <2>1 DEF ShownInv, RunStatus
<1>15. CASE RaiseFault
  BY <1>15 DEF RaiseFault, ShownInv
<1> QED
  BY <1>1, <1>2, <1>3, <1>4, <1>5, <1>6, <1>7, <1>8, <1>9, <1>10, <1>11, <1>12, <1>13, <1>14, <1>15
     DEF MainStep

LEMMA ReasonStep == ReasonInv /\ [Next]_vars => ReasonInv'
<1> SUFFICES ASSUME ReasonInv, [Next]_vars PROVE ReasonInv'
  OBVIOUS
<1> USE DEF ReasonInv, PoolInv
<1>1. PoolInv'
  BY PoolStep
<1>2. CASE MainStep
  <2>1. WhyInv'
    <3>1. UNCHANGED <<pc, outcome, why>>
      BY <1>2 DEF MainStep, ProbeTarget, FailRun, SkipStopped, SkipGenerated, SkipUnsupported,
                  SkipLate, Skip, RunNext, Collect, SubmitGroups, RecordMember, ClosePool,
                  CollectReason, CloseReasons, RecordNext, CloseLoop, CloseRun, RaiseFault, work
    <3> QED
      BY <3>1 DEF WhyInv
  <2> QED
    BY <1>1, <1>2, <2>1, MainStepKeepsHeld, MainStepKeepsShown
<1>3. ASSUME NEW g \in Checks, NEW i \in Checks,
             CheckStep(g, i) \/ StageStep(i) \/ GroupStep(g)
      PROVE  ReasonInv'
  <2>1. UNCHANGED <<main, cursor, slot, status, reasons>>
    BY <1>3, WorkersLeaveDocument
  <2>2. ShownInv'
    BY <2>1 DEF ShownInv
  <2> QED
    BY <1>1, <1>3, <2>2, WorkersKeepReasons
<1>4. CASE Expire \/ Ended \/ UNCHANGED vars
  BY <1>1, <1>4 DEF Expire, Ended, vars, control, work, document, WhyInv, HeldInv, ShownInv
<1> QED
  BY <1>2, <1>3, <1>4 DEF Next

LEMMA ReasonInvariant == Spec => []ReasonInv
<1>1. Init => ReasonInv
  BY TypeInit, LedgerInit, PoolInit, ReasonInit DEF ReasonInv, PoolInv, LedgerInv
<1> QED
  BY <1>1, ReasonStep, PTL DEF Spec

(* The document the engine has built is never refused by its own contract: *)
(* whatever order groups finish in and whenever the deadline passes, a     *)
(* check that lost its coverage has left a reason, and the run is partial. *)
THEOREM NeverRefused == Spec => []ContractAccepts
<1>1. ReasonInv => ContractAccepts
  BY DEF ReasonInv, ShownInv, ContractAccepts, Accepts, RunStatus, Lost, Recorded
<1> QED
  BY <1>1, ReasonInvariant, PTL

(* Exit 1 comes from a finding or from an error of a check: a check that   *)
(* the run's own budget cut off is in a partial run, which forgives it.    *)
THEOREM BudgetIsForgiven == Spec => []BudgetIsNeverHard
<1>1. ReasonInv => BudgetIsNeverHard
  <2> SUFFICES ASSUME ReasonInv, Reported, Exit = 1
               PROVE  \E i \in Checks : slot[i] = "fail" \/ (slot[i] = "errored" /\ Severity[i] = "error")
    BY DEF BudgetIsNeverHard
  <2>1. PICK i \in Recorded : IsHard(status, slot[i], Severity[i])
    BY DEF Exit, ExitCode, Reported
  <2>2. i \in Checks /\ (slot[i] = "timeout" => status = "partial")
    BY DEF ReasonInv, ShownInv, Reported, Returned, Recorded, Lost
  <2> QED
    BY <2>1, <2>2 DEF IsHard, Errored
<1> QED
  BY <1>1, ReasonInvariant, PTL
==============================================================================
