------------------------------ MODULE Evaluator ------------------------------
(***************************************************************************)
(* VerdictEvaluator on the one summary row of a conformance or drift query: *)
(* which rows are refused, which are a violation, and the evidence a        *)
(* failing evaluation carries.  Pure operators over abstract rows.          *)
(*                                                                          *)
(* A numeric field is a natural number, or NotCounted for anything that     *)
(* _integer or _number refuses.  A share is <<numerator, denominator>>.     *)
(***************************************************************************)
EXTENDS Integers, SequencesExt

NotCounted == -1
IsCount(n) == n # NotCounted

AtLeast(share, bound) == share[1] * bound[2] >= bound[1] * share[2]
SameShare(a, b) == a[1] * b[2] = b[1] * a[2]
IsShare(share) == share[1] >= 0 /\ share[1] <= share[2]

------------------------------------------------------------------------------
(* Evidence.  What a value points at: [kind, id], or NoPointer.             *)
NoPointer == [kind |-> "none", id |-> 0]

Retained(pointer, aggregates) ==
  pointer # NoPointer /\ (aggregates \/ pointer.kind # "aggregate")

(* The distinct pointers among the values, in order, and whether one more   *)
(* was noticed: one past the cap is as many as are counted.                 *)
Notice(c, pointer, cap, aggregates) ==
  IF ~Retained(pointer, aggregates) \/ pointer \in ToSet(c.elements) THEN c
  ELSE IF Len(c.elements) < cap THEN [c EXCEPT !.elements = Append(c.elements, pointer)]
  ELSE [c EXCEPT !.over = TRUE]

Collected(values, cap, aggregates) ==
  LET read[i \in 0..Len(values)] ==
        IF i = 0 THEN [elements |-> <<>>, over |-> FALSE]
        ELSE Notice(read[i - 1], values[i], cap, aggregates)
  IN  read[Len(values)]

(* Pointers past the cap forgotten rather than counted.                     *)
NoticedRetained(c, cap) == Len(c.elements)

Noticed(c, cap) == IF c.over THEN cap + 1 ELSE Len(c.elements)

EvidenceOf(values, cap, total, aggregates) ==
  LET c == Collected(values, cap, aggregates)
      known == Noticed(c, cap)
      count == IF total > known THEN total ELSE known
  IN  [elements |-> c.elements, total |-> count, truncated |-> count > Len(c.elements)]

(* A failing evaluation without a pointer is an error of its own.           *)
Failing(evidence) ==
  IF evidence.elements = <<>> THEN [outcome |-> "evidence_missing"]
  ELSE [outcome |-> "fail", evidence |-> evidence]

Passing == [outcome |-> "pass"]
Refused == [outcome |-> "invalid_query_result"]
Unresolved == [outcome |-> "schema_reference_missing"]

------------------------------------------------------------------------------
(* Conformance.  The checks by the way their summary is read.               *)
Coverage   == {"completeness", "chunk_coverage"}
Provenance == {"orphan_chunks", "entity_without_provenance", "dangling_extraction_relationships"}
Sampled    == {"pii_name_match", "pii_value_match", "near_duplicate_entities"}
Reported   == Provenance \cup {"label_explosion", "embedding_consistency"}
Plain      == {"uniqueness", "hub_outlier"}   \* every other check

(* What one row says: its numbers must agree with each other.               *)
CoverageAgrees(row) ==
  /\ IsCount(row.population) /\ IsCount(row.conforming) /\ IsCount(row.violations)
  /\ row.conforming + row.violations = row.population
  /\ IsShare(row.coverage)
  /\ IF row.population = 0 THEN row.coverage[1] = row.coverage[2]
     ELSE SameShare(row.coverage, <<row.conforming, row.population>>)

(* An estimate is due when a sample is a part of its population, and then   *)
(* everything it is computed from is in the row.                            *)
SampleAgrees(compiled, row) ==
  compiled.sampled =>
    /\ IsCount(row.sample) /\ IsCount(row.population)
    /\ row.population \in compiled.preflight \cup (IF compiled.preflight = {} THEN {row.population} ELSE {})
    /\ row.sample <= row.population
    /\ row.violations <= row.sample

PlainAgrees(row) == IsCount(row.violations) /\ IsCount(row.population)

ReportAgrees(check, compiled, row) ==
  /\ IsCount(row.violations)
  /\ check # "label_explosion" => IsCount(row.population) /\ row.violations <= row.population
  /\ row.violations > 0 =>
       /\ row.records # <<>>
       /\ check # "label_explosion" => Len(row.records) <= compiled.cap
       /\ \A i \in DOMAIN row.records : row.records[i].complete

(* Candidates are judged in Python: each must be whole, and there must be   *)
(* as many as the row says were sampled.                                    *)
CandidatesAgree(check, compiled, row) ==
  /\ IsCount(row.population) /\ IsCount(row.sample)
  /\ row.sample <= row.population
  /\ row.population > 0 => row.sample > 0
  /\ check = "near_duplicate_entities" => row.sample <= compiled.size
  /\ check # "near_duplicate_entities" =>
       row.population \in compiled.preflight \cup (IF compiled.preflight = {} THEN {row.population} ELSE {})
  /\ Len(row.records) = row.sample
  /\ \A i \in DOMAIN row.records : 
         row.records[i].complete /\ row.records[i].pointers[1].kind = "node"
  /\ check = "near_duplicate_entities" =>
       \A i, j \in DOMAIN row.records : row.records[i].pointers = row.records[j].pointers => i = j

Agrees(check, compiled, row) ==
  CASE check \in Coverage -> CoverageAgrees(row) /\ SampleAgrees(compiled, row)
    [] check \in Plain    -> PlainAgrees(row) /\ SampleAgrees(compiled, row)
    [] check \in Reported -> ReportAgrees(check, compiled, row)
    [] check \in Sampled  -> CandidatesAgree(check, compiled, row)

(* What is marked of a sequence, in its order.                              *)
Marked(s, marks) ==
  LET kept[i \in 0..Len(s)] ==
        IF i = 0 THEN <<>> ELSE IF marks[i] THEN Append(kept[i - 1], s[i]) ELSE kept[i - 1]
  IN  kept[Len(s)]

Matching(row) == Marked(row.records, [i \in DOMAIN row.records |-> row.records[i].matches])

Violated(check, compiled, row) ==
  CASE check \in Coverage -> ~AtLeast(row.coverage, compiled.threshold)
    [] check \in Sampled  -> Matching(row) # <<>>
    [] OTHER              -> row.violations > 0

(* A record may point at more than one element.                             *)
Pointers(records) == FlattenSeq([i \in DOMAIN records |-> records[i].pointers])

EvidenceFor(check, compiled, row) ==
  IF check \in Sampled
  THEN EvidenceOf(Pointers(Matching(row)), compiled.cap, Len(Matching(row)), FALSE)
  ELSE EvidenceOf(Pointers(row.records), compiled.cap, row.violations, FALSE)

(* schema_ok: a reference that is missing is an error, except in an empty   *)
(* graph.                                                                   *)
Conformance(check, compiled, row, graphEmpty) ==
  CASE row.schema = "malformed"                  -> Refused
    [] row.schema = "missing" /\ ~graphEmpty     -> Unresolved
    [] row.schema # "malformed" /\ (row.schema = "ok" \/ graphEmpty) ->
         IF ~Agrees(check, compiled, row) THEN Refused
         ELSE IF ~Violated(check, compiled, row) THEN Passing
         ELSE Failing(EvidenceFor(check, compiled, row))

(* Whether the evaluation carries an estimate.                              *)
Estimated(check, compiled, row) ==
  (compiled.sampled \/ check \in Sampled) /\ row.sample < row.population

------------------------------------------------------------------------------
(* Drift: tolerances on a measurement and the value of its baseline, each   *)
(* limit a set of at most one number.  A change from nothing exceeds every  *)
(* percentage.                                                              *)
Magnitude(n) == IF n < 0 THEN -n ELSE n

Exceeds(change, baseline, percent) ==
  baseline = 0 \/ 100 * change > percent * baseline

DriftFailures(current, baseline, limits) ==
  LET delta == current - baseline
      absolute == IF limits.max_delta # {} THEN limits.max_delta ELSE limits.absolute
  IN  {"drop"     : p \in {q \in limits.max_drop_pct : delta < 0 /\ Exceeds(-delta, baseline, q)}}
      \cup {"increase" : p \in {q \in limits.max_increase_pct : delta > 0 /\ Exceeds(delta, baseline, q)}}
      \cup {"change"   : p \in {q \in limits.max_change_pct :
                                  delta # 0 /\ Exceeds(Magnitude(delta), baseline, q)}}
      \cup {"delta"    : p \in {q \in absolute : Magnitude(delta) > q}}
      \cup {"min"      : p \in {q \in limits.min : current < q}}
      \cup {"max"      : p \in {q \in limits.max : current > q}}

(* A count, and a quantile of the degrees other than the largest, is of the *)
(* whole scope: its evidence is the scope itself, before any element.       *)
IsAggregate(metric, quantile) ==
  \/ metric \in {"schema_inventory", "node_count", "relationship_count"}
  \/ metric = "degree_distribution" /\ quantile # "max"

Drift(metric, quantile, row, baseline, limits, cap) ==
  CASE row.schema = "malformed" -> Refused
    [] row.schema = "missing"   -> Unresolved
    [] row.schema = "ok" ->
         IF metric = "property_coverage" /\ ~{row.current, baseline.value} \subseteq 0..100 THEN Refused
         ELSE IF DriftFailures(row.current, baseline.value, limits) = {} THEN Passing
         ELSE LET scope == <<[kind |-> "aggregate", id |-> 0]>>
                  listed == row.pointers \o baseline.pointers
                  whole == IsAggregate(metric, quantile)
              IN  Failing(EvidenceOf(IF whole THEN scope \o listed ELSE listed, cap,
                                     IF whole THEN 1 ELSE row.population, whole))

(* schema_inventory: the names that appeared or went, against zero; each is *)
(* a pointer.                                                               *)
InventoryDrift(live, recorded, limits, cap) ==
  LET changed == (live \ recorded) \cup (recorded \ live)
      pointers == SetToSeq({[kind |-> "aggregate", id |-> name] : name \in changed})
  IN  IF DriftFailures(Len(pointers), 0, limits) = {} THEN Passing
      ELSE Failing(EvidenceOf(pointers, cap, Len(pointers), TRUE))
=============================================================================
