------------------------------- MODULE Scoring -------------------------------
(***************************************************************************)
(* Points lost per check (calculate_score_deductions in scoring.py) beside *)
(* the score and the exit code of RunContract, over lists of results that  *)
(* grow one check at a time.                                               *)
(***************************************************************************)
EXTENDS RunContract, Sequences, Functions

CONSTANT MaxChecks   \* longest list examined

ASSUME MaxChecksAssumption == MaxChecks \in Nat

VARIABLES severity, result   \* sequences of the same length

vars == <<severity, result>>

Members == DOMAIN result

(* Every non-passing executed check is a penalty of its weight.            *)
Penalized == {i \in Members : Executed(result[i]) /\ result[i] # "pass"}

PointsLost == 100 - Score(Members, result, severity)

(* Mutant: the remainder of a division is not handed out.                  *)
BugDeduction(i) ==
  (PointsLost * Weight(severity[i])) \div WeightOf(Penalized, severity)

(* Largest-remainder allocation, ties by identity.                         *)
Deduction(i) ==
  LET lost == WeightOf(Penalized, severity)
      share(j) == PointsLost * Weight(severity[j])
      before(j, k) == \/ share(j) % lost > share(k) % lost
                      \/ share(j) % lost = share(k) % lost /\ j < k
      unallocated == PointsLost - SumFunction([j \in Penalized |-> share(j) \div lost])
      rank == Cardinality({j \in Penalized : before(j, i)})
  IN  (share(i) \div lost) + (IF rank < unallocated THEN 1 ELSE 0)

(* The statuses the contract accepts of a run that could start and end.    *)
Allowed == {status \in RunStatuses \ {"failed"} : Accepts(status, Members, result)}

Exit(status) == ExitCode(status, Members, result, severity)

Init == severity = <<>> /\ result = <<>>

(* Results a check of that severity can have: a failed assertion takes the *)
(* severity's verdict, and any check can run into a budget.                *)
Possible(s) == Results \ {IF s = "error" THEN "warn" ELSE "fail"}

AddCheck ==
  /\ Len(result) < MaxChecks
  /\ \E s \in Severities : \E r \in Possible(s) :
       severity' = Append(severity, s) /\ result' = Append(result, r)

Next == AddCheck

Spec == Init /\ [][Next]_vars

------------------------------------------------------------------------------
(* The list grows and stays well formed.                                   *)
TypeOK ==
  /\ result \in Seq(Results)
  /\ severity \in Seq(Severities)
  /\ Len(result) = Len(severity)
  /\ Score(Members, result, severity) \in {NoScore} \cup 0..100

(* The points attributed to the checks are the points the score lost.      *)
DeductionsAddUp ==
  Penalized # {} => SumFunction([i \in Penalized |-> Deduction(i)]) = PointsLost

(* Exit 0, whatever status the contract lets the run have, is a complete   *)
(* run in which every evaluated check passed, with no point lost, none     *)
(* unsupported or cut off, and which checked something or found the model  *)
(* absent throughout: never an empty list.                                 *)
GreenMeansFullScore ==
  \A status \in Allowed : Exit(status) = 0 =>
    /\ status = "complete"
    /\ Score(Members, result, severity) \in {100, NoScore}
    /\ \A i \in Members : result[i] \in {"pass", "generated", "model_absent"}
    /\ \/ \E i \in Members : result[i] = "pass"
       \/ Members # {} /\ \A i \in Members : result[i] = "model_absent"

Gravity(code) == CASE code = 0 -> 0 [] code = 2 -> 1 [] code = 1 -> 2 [] OTHER -> 3

(* Every check that decides exit 1 was cut off by the budget.              *)
OnlyTimeouts(status) ==
  \A i \in Members : IsHard(status, result[i], severity[i]) => result[i] = "timeout"

(* One more check never makes a run that evaluated something look better:  *)
(* while its status stays, or turns partial, the exit code never becomes   *)
(* milder, but for the budget timeouts a partial run forgives: a complete  *)
(* run that fails for nothing else exits 2 once a gap makes it partial.    *)
(* And no check but a passing one raises the score.                        *)
NeverFlatters ==
  (\E i \in Members : Executed(result[i])) =>
    /\ \A before \in Allowed : \A after \in {before, "partial"} :
         after \in Allowed' =>
           \/ Gravity(Exit(after)') >= Gravity(Exit(before))
           \/ before = "complete" /\ after = "partial" /\ OnlyTimeouts(before)
    /\ result'[Len(result')] # "pass"
         => Score(Members, result, severity)' <= Score(Members, result, severity)

(* Together, of every list and of what it grows into (scoring.py:51-152,   *)
(* contracts/results.py:219-246).                                          *)
ScoresAreHonest == [][NeverFlatters /\ DeductionsAddUp' /\ GreenMeansFullScore']_vars
==============================================================================
