----------------------------- MODULE Algorithms ------------------------------
(***************************************************************************)
(* What the pure algorithms promise, of any input: the predicates that     *)
(* MCParts asks of all small inputs and AlgorithmProofs proves of all.     *)
(***************************************************************************)
EXTENDS Integers, Sequences, FiniteSets, Functions

Evaluate == INSTANCE Evaluator
Sample == INSTANCE Sampling
Query == INSTANCE Packs
Statistic == INSTANCE Statistics
Compare == INSTANCE Diff

------------------------------------------------------------------------------
(* Evidence that does not say it is truncated lists every element there was *)
(* to list, each once, within its cap and its count, and nothing that is    *)
(* not to be retained (engine/evaluator.py:995-1055).                       *)
EvidenceListsAll(values, cap, total, aggregates) ==
  LET e == Evaluate!EvidenceOf(values, cap, total, aggregates)
      retained == {p \in Range(values) : Evaluate!Retained(p, aggregates)}
  IN  /\ Len(e.elements) <= cap /\ Len(e.elements) <= e.total
      /\ IsInjective(e.elements)
      /\ Range(e.elements) \subseteq retained
      /\ ~e.truncated => Range(e.elements) = retained

------------------------------------------------------------------------------
(* What the query of a check says of its elements: q is a record            *)
(* [check, violates, exhaustive, size, cap, empty].  The first elements are *)
(* sampled when the check may be, as the policy decided.                    *)
Decision(q) ==
  IF q.check \in Evaluate!Sampled \cup {"hub_outlier"} THEN Sample!Decide(Len(q.violates), q.exhaustive, q.size)
  ELSE Sample!Decide(Len(q.violates), Len(q.violates), 1)

Found(q) == Evaluate!Marked([i \in 1..Decision(q).size |-> i], q.violates)

Element(q, i) ==
  [complete |-> TRUE, matches |-> q.violates[i], pointers |-> <<[kind |-> "node", id |-> i]>>]

Summary(q) ==
  LET n == Len(q.violates)
      d == Decision(q)
      bad == Found(q)
  IN  [schema |-> IF n = 0 THEN "missing" ELSE "ok", population |-> n, sample |-> d.size,
       violations |-> Len(bad), conforming |-> n - Len(bad),
       coverage |-> IF n = 0 THEN <<1, 1>> ELSE <<n - Len(bad), n>>,
       records |-> IF q.check \in Evaluate!Sampled THEN [i \in 1..d.size |-> Element(q, i)]
                   ELSE [i \in 1..(IF Len(bad) < q.cap THEN Len(bad) ELSE q.cap) |-> Element(q, bad[i])]]

Compiled(q) ==
  [sampled |-> q.check = "hub_outlier", preflight |-> {Len(q.violates)}, cap |-> q.cap,
   size |-> Decision(q).size, threshold |-> <<2, 3>>]

(* A verdict follows the elements: an honest summary is never refused, it   *)
(* fails when the sample holds a violation (a coverage check when fewer     *)
(* than two thirds conform), its evidence counts all violations, names      *)
(* nothing else, and names them all unless it says it is truncated, and     *)
(* what was sampled says so.  A summary that contradicts itself is refused. *)
(* Labels that are missing are forgiven in an empty graph only              *)
(* (engine/evaluator.py:153-519, engine/sampling.py:290-316).               *)
VerdictFollows(q) ==
  LET n == Len(q.violates)
      bad == Found(q)
      row == Summary(q)
      verdict == Evaluate!Conformance(q.check, Compiled(q), row, q.empty)
      broken == Evaluate!Conformance(q.check, Compiled(q), [row EXCEPT !.violations = n + 1], q.empty)
      poor == IF q.check \in Evaluate!Coverage THEN 3 * (n - Len(bad)) < 2 * n ELSE bad # <<>>
      named == {p.id : p \in Range(verdict.evidence.elements)}
  IN  IF n = 0 /\ ~q.empty THEN verdict.outcome = "schema_reference_missing"
      ELSE /\ verdict.outcome = IF poor THEN "fail" ELSE "pass"
           /\ poor => /\ verdict.evidence.total = Len(bad)
                      /\ named \subseteq Range(bad)
                      /\ ~verdict.evidence.truncated => named = Range(bad)
           /\ Evaluate!Estimated(q.check, Compiled(q), row) <=> Sample!IsEstimated(Decision(q))
           /\ ~Sample!IsEstimated(Decision(q)) /\ bad = <<>> => \A i \in DOMAIN q.violates : ~q.violates[i]
           /\ q.check \in Evaluate!Coverage \cup Evaluate!Provenance \cup {"hub_outlier"} =>
                broken.outcome = "invalid_query_result"

(* A drift verdict, q a record [metric, current, recorded, limits]: an      *)
(* unchanged value fails on an absolute bound only, a change limit is a     *)
(* drop and an increase limit at once, and a failure goes unexplained only  *)
(* where no element could explain it: a coverage of one hundred, or no      *)
(* change of an inventory where a minimum or a negative maximum asks for one *)
(* (engine/evaluator.py:619-683, 1155-1223).                                *)
DriftExplained(q) ==
  LET lacking == 100 - q.current
      whole == q.metric = "property_coverage" /\ lacking = 0
      row == [schema |-> "ok", current |-> q.current, population |-> 100,
              pointers |-> IF q.metric = "node_count" \/ whole THEN <<>>
                           ELSE <<[kind |-> "node", id |-> lacking]>>]
      verdict == Evaluate!Drift(q.metric, "none", row, [value |-> q.recorded, pointers |-> <<>>], q.limits, 1)
      fails(limits) == Evaluate!DriftFailures(q.current, q.recorded, limits)
      none == [k \in DOMAIN q.limits |-> {}]
      drift == Evaluate!InventoryDrift(1..q.current, 1..q.recorded, q.limits, 1)
      changed == Evaluate!Magnitude(q.current - q.recorded)
  IN  /\ verdict.outcome = IF fails(q.limits) = {} THEN "pass"
                           ELSE IF whole THEN "evidence_missing" ELSE "fail"
      /\ q.current = q.recorded => fails([q.limits EXCEPT !.min = {}, !.max = {}]) = {}
      /\ \A p \in q.limits.max_change_pct :
            (fails([none EXCEPT !.max_change_pct = {p}]) # {}) <=>
              (fails([none EXCEPT !.max_drop_pct = {p}, !.max_increase_pct = {p}]) # {})
      /\ drift.outcome = "fail" => drift.evidence.total = changed
      /\ drift.outcome = "evidence_missing" => changed = 0 /\ (q.limits.min # {} \/ \E m \in q.limits.max : m < 0)
      /\ 0 \in q.limits.absolute /\ q.limits.max_delta = {} /\ changed > 0 => drift.outcome = "fail"

------------------------------------------------------------------------------
(* The graphs that the queries run on: every relationship has its ends.     *)
IsGraph(g) ==
  /\ IsFiniteSet(DOMAIN g.labels) /\ IsFiniteSet(g.rels)
  /\ \A n \in DOMAIN g.labels : IsFiniteSet(g.labels[n])
  /\ \A r \in g.rels : r.src \in DOMAIN g.labels /\ r.dst \in DOMAIN g.labels

(* The two queries of a check on values agree, and what they find is what   *)
(* the check is about, where Cypher's nulls lie in wait: check is a record  *)
(* [label, other, kind, format, values, ends]                               *)
(* (engine/core_pack.py:151-485, 643-700; engine/compiler.py:140-210).      *)
ValuesAreJudged(g, check) ==
  LET of == Query!Matching(g, {check.label})
      present == {n \in of : g.values[n] # Query!Absent}
      typed == Query!PropertyType(g, {check.label}, check.kind)
      unique == Query!Uniqueness(g, {check.label})
      complete == Query!Completeness(g, {check.label})
  IN  /\ Query!Agree(typed) /\ Query!Agree(unique) /\ Query!Agree(complete)
      /\ Query!Agree(Query!PropertyFormat(g, {check.label}, check.format))
      /\ Query!Agree(Query!ValueInSet(g, {check.label}, check.values))
      /\ Query!Agree(Query!TemporalSanity(g, {check.label}, check.ends))
      /\ Query!Agree(Query!Cooccurrence(g, check.label, check.other))
      /\ typed.evidence = {n \in present : g.values[n].kind # check.kind}
      /\ unique.evidence = {n \in present : \E m \in present \ {n} : g.values[m] = g.values[n]}
      /\ complete = Query!BatchCompleteness(g, {check.label})

Linked(g, a, b, type, direction) ==
  \E r \in g.rels : /\ r.type = type
                    /\ \/ direction # "in" /\ r.src = a /\ r.dst = b
                       \/ direction # "out" /\ r.src = b /\ r.dst = a

(* The same on relationships: provenance is one relation, whichever end a   *)
(* check looks from and whichever direction the model m declares            *)
(* (engine/core_pack.py:199-315, engine/graphrag_pack.py:96-240, 347-392).  *)
LinksAreJudged(g, m, exactly, threshold) ==
  LET of(label) == Query!Matching(g, {label})
      unmentioned == {e \in of(m.entity) : \A c \in of(m.chunk) : ~Linked(g, c, e, m.mentions, m.mentioning)}
      orphans == Query!OrphanChunks(g, m)
      unprovenanced == Query!WithoutProvenance(g, m)
      coverage == Query!ChunkCoverage(g, m)
      dangling == Query!DanglingExtraction(g, m, Query!All)
  IN  /\ Query!Agree(orphans) /\ Query!Agree(unprovenanced) /\ Query!Agree(coverage) /\ Query!Agree(dangling)
      /\ Query!Agree(Query!Direction(g, m.document, m.contains, m.chunk))
      /\ Query!Agree(Query!Cardinal(g, {m.document}, {m.contains}, {m.chunk}, m.containing, exactly))
      /\ Query!Agree(Query!LabelExplosion(g, threshold))
      /\ orphans.evidence =
           {<<"document", n>> : n \in {x \in of(m.document) :
                                         \A c \in of(m.chunk) : ~Linked(g, x, c, m.contains, m.containing)}}
             \cup {<<"chunk", n>> : n \in {c \in of(m.chunk) :
                                         \A x \in of(m.document) : ~Linked(g, x, c, m.contains, m.containing)}}
      /\ unprovenanced.evidence = unmentioned
      /\ coverage.evidence = {c \in of(m.chunk) : \A e \in of(m.entity) : ~Linked(g, c, e, m.mentions, m.mentioning)}
      /\ dangling.evidence =
           {r \in g.rels : {r.src, r.dst} \subseteq of(m.entity) /\ {r.src, r.dst} \cap unmentioned # {}}

(* A hub has a higher degree than any node that is not one                  *)
(* (engine/core_pack.py:500-600).                                           *)
HubsStandOut(g, label, direction, z) ==
  LET hubs == Query!Hubs(g, {label}, Query!All, direction, z)
      degree(n) == Query!Degree(g, n, direction, Query!All, Query!All)
  IN  /\ Query!Agree(hubs)
      /\ \A h \in hubs.evidence : \A n \in Query!Matching(g, {label}) \ hubs.evidence : degree(h) > degree(n)

(* A vector has the wrong dimension only if another one is at least as      *)
(* frequent among the sound vectors (engine/graphrag_pack.py:25-68).        *)
MajorityIsRight(vectors) ==
  LET alike(n) == Cardinality({k \in DOMAIN vectors : vectors[k] = vectors[n]})
      wrong == {n \in DOMAIN vectors : Query!Defect(vectors, n) = "wrong_dimension"}
      right == {n \in DOMAIN vectors : Query!Defect(vectors, n) = "none"}
  IN  /\ Query!Agree(Query!Embeddings(vectors))
      /\ \A n \in wrong, k \in right :
            alike(k) > alike(n) \/ (alike(k) = alike(n) /\ vectors[k].dimension < vectors[n].dimension)
      /\ wrong # {} => right # {}

(* Every subset of a size comes from the same number of draws.              *)
DrawsAreFair(n, k) ==
  LET ways(drawn) == Cardinality({d \in Sample!Draws(n, k) : Sample!Selected(n, k, d) = drawn})
      subsets == {c \in SUBSET (0..n - 1) : Cardinality(c) = k}
  IN  \A c \in subsets : ways(c) * Cardinality(subsets) = Cardinality(Sample!Draws(n, k))

IsPrime(p) == p \in Nat /\ p > 1 /\ \A a, b \in 1..p - 1 : (a * b) % p # 0

(* Over its coefficients the hash gives four values every combination of    *)
(* ranks once.                                                              *)
RanksAreIndependent(values, p) ==
  Cardinality({[i \in 1..4 |-> Sample!Hash(values[i], c, p)] : c \in Sample!Coefficients(p)})
    = Cardinality(Sample!Coefficients(p))

(* Near-duplicate groups are the connected components of exact similarity:  *)
(* no pair is lost to the bound that spares comparisons                     *)
(* (engine/graphrag_pack.py:289-344).                                       *)
Duplicates(a, b, threshold) ==
  /\ threshold[1] < threshold[2]
  /\ Sample!Similar(Sample!Overlap(Sample!Grams(a), Sample!Grams(b)), Len(a) + Len(b) - 2, threshold)

GroupsAreConnected(keys, threshold, buckets) ==
  \A g \in Sample!Groups(keys, threshold, buckets) :
    /\ \A a \in g : \A b \in Range(keys) \ g : ~Duplicates(a, b, threshold)
    /\ \A part \in (SUBSET g) \ {{}, g} : \E a \in part : \E b \in g \ part : Duplicates(a, b, threshold)

------------------------------------------------------------------------------
(* What a profile recorded of a graph, and what is measured on it.          *)
DegreeAgrees(g, cap, t) ==
  IF Statistic!Recorded(g, t, cap) THEN Statistic!ProfiledDegree(g, t) = Statistic!LiveDegree(g, t)
  ELSE Statistic!LiveDegree(g, t) = 0 \/ Statistic!PartialReason(g, cap) # Statistic!None

CountAgrees(g, t) ==
  IF Statistic!CountRecorded(g, t) THEN Statistic!ProfiledCount(g, t) = Statistic!LiveCount(g, t)
  ELSE Statistic!LiveCount(g, t) = 0

CoverageAgrees(g, label) ==
  LET live == Statistic!LiveCoverage(g, label)
      error == Statistic!ProfiledCoverage(g, label) * live.population - 10000 * live.present
  IN  IF Statistic!PropertyListed(g, label) THEN 2 * error \in -live.population..live.population
      ELSE live.present = 0

(* On an unchanged graph a drift check finds its baseline's value again,    *)
(* but for the rounding of a coverage; and what the profile did not record  *)
(* is zero on the graph, unless the profile says that it is partial         *)
(* (profiler.py:834-1053, engine/baseline.py:145-308, engine/compiler.py:432-660). *)
ProfileAgrees(g, cap, labels, types) ==
  LET none == {Statistic!None}
      degrees == [metric : {"degree"}, label : labels \cup none, type : types \cup none,
                  quantile : Statistic!Quantiles, direction : Statistic!Directions]
      counts == [metric : {"node_count"}, label : labels \cup none, type : none]
                  \cup [metric : {"relationship_count"}, label : none, type : types \cup none]
  IN  /\ \A t \in degrees : Statistic!DegreeTarget(t) /\ Statistic!Counted(g, t) # {} => DegreeAgrees(g, cap, t)
      /\ \A t \in counts : CountAgrees(g, t)
      /\ \A l \in Statistic!LabelsInUse(g) : CoverageAgrees(g, l)
      /\ Statistic!ProfiledInventory(g) = Statistic!LiveInventory(g)

------------------------------------------------------------------------------
(* The profiles that a diff reads: names to what is known of them.          *)
IsMap(f) == f = [x \in DOMAIN f |-> f[x]]

IsProfile(p) ==
  /\ IsMap(p.labels) /\ IsMap(p.types) /\ IsMap(p.constraints) /\ IsMap(p.indexes) /\ IsMap(p.coverage)
  /\ \A l \in DOMAIN p.labels :
        LET known == p.labels[l]
        IN  /\ known = [count |-> known.count, properties |-> known.properties, degree |-> known.degree]
            /\ IsMap(known.properties)

(* A diff without drift is between equal profiles, one with drift lists     *)
(* something, and exchanging the sides exchanges what is added and removed  *)
(* (diff.py:46-320).                                                        *)
ListsWhatDrifted(a, b) ==
  LET there == Compare!Report(a, b)
      back == Compare!Report(b, a)
  IN  Compare!Comparable(a, b) =>
        /\ Compare!DriftDetected(there) <=> Compare!Rendered(there) # {}
        /\ ~Compare!DriftDetected(there) =>
             /\ \A part \in {"labels", "types", "nodes", "rels", "constraints", "coverage"} : a[part] = b[part]
             /\ \A i \in DOMAIN a.indexes \cup DOMAIN b.indexes :
                  Compare!SameIndex(a.indexes[i], b.indexes[i])
        /\ \A s \in {"labels", "types", "constraints", "indexes", "coverage", "properties"} :
             back[s] = Compare!Mirrored(there[s])
==============================================================================
