----------------------------- MODULE RunContract -----------------------------
(***************************************************************************)
(* The result contract of a run (contracts/results.py) and its score       *)
(* (scoring.py), as operators over a finite set of checks S, the result of *)
(* each check and its declared severity.                                   *)
(*                                                                         *)
(* A result is the part of a CheckResult that the contract and the engine  *)
(* tell apart: the verdict, the skip reason of a skipped check, and        *)
(* whether the error of an errored check carries the code engine.timeout.  *)
(***************************************************************************)
EXTENDS Integers, FiniteSets

Severities == {"error", "warn"}

Measured    == {"pass", "fail", "warn"}
Errored     == {"errored", "timeout"}
Gaps        == {"unsupported", "not_run"}
Skipped     == Gaps \cup {"generated", "model_absent"}
Results     == Measured \cup Errored \cup Skipped
RunStatuses == {"complete", "partial", "failed"}

Executed(r) == r \notin Skipped

(* What an evaluation becomes: the severity of a failed assertion is its   *)
(* verdict.                                                                *)
VerdictOf(passed, severity) ==
  IF passed THEN "pass" ELSE IF severity = "error" THEN "fail" ELSE "warn"

(* Of Results._consistency, the rule of lost coverage: it needs a partial  *)
(* run.                                                                    *)
Accepts(status, S, result) ==
  (\E i \in S : result[i] \in Gaps) => status = "partial"

(* Mutant: a budget timeout is an error like any other.                    *)
BugIsHard(status, r, severity) ==
  r = "fail" \/ (r \in Errored /\ severity = "error")

(* A result that decides exit 1.  A budget timeout is forgiven in a        *)
(* partial run only.                                                       *)
IsHard(status, r, severity) ==
  \/ r = "fail"
  \/ r \in Errored /\ severity = "error" /\ ~(status = "partial" /\ r = "timeout")

IsSoft(r, severity) ==
  r = "warn" \/ (r \in Errored /\ severity = "warn")

NothingEvaluated(S, result) ==
  /\ \A i \in S : ~Executed(result[i])
  /\ ~(S # {} /\ \A i \in S : result[i] = "model_absent")

ExitCode(status, S, result, severity) ==
  IF status = "failed" THEN 3
  ELSE IF \E i \in S : IsHard(status, result[i], severity[i]) THEN 1
  ELSE IF \/ status = "partial"
          \/ NothingEvaluated(S, result)
          \/ \E i \in S : IsSoft(result[i], severity[i]) THEN 2
  ELSE 0

------------------------------------------------------------------------------
(* Scoring: SEVERITY_WEIGHTS, calculate_score and _round_percentage.       *)

Weight(severity) == IF severity = "error" THEN 3 ELSE 1

WeightOf(S, severity) ==
  3 * Cardinality({i \in S : severity[i] = "error"})
    + Cardinality({i \in S : severity[i] = "warn"})

(* Half-to-even rounding of an exact percentage.                           *)
RoundPercentage(num, den) ==
  LET q == (num * 100) \div den
      c == 2 * ((num * 100) % den) - den
  IN  IF c > 0 \/ (c = 0 /\ q % 2 = 1) THEN q + 1 ELSE q

NoScore == -1

Score(S, result, severity) ==
  LET possible == WeightOf({i \in S : Executed(result[i])}, severity)
      earned   == WeightOf({i \in S : result[i] = "pass"}, severity)
  IN  IF possible = 0 THEN NoScore ELSE RoundPercentage(earned, possible)
==============================================================================
