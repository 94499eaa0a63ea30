-------------------------------- MODULE Packs --------------------------------
(***************************************************************************)
(* The queries that the core and GraphRAG packs compile conformance checks *)
(* to (engine/core_pack.py, engine/compiler.py, engine/graphrag_pack.py),  *)
(* as what they answer on a graph.  A check has two of them, written apart *)
(* and run apart: the measurement counts a population and the violations   *)
(* in it, the evidence query lists elements.  A plan is what both answer,  *)
(* [population, violations, evidence], before the cap on the evidence.     *)
(***************************************************************************)
EXTENDS PropertyGraph, Sequences, Functions

(* _node_predicate_queries: CASE WHEN in the one, AND in the other.  What  *)
(* matches is judged by two truth values, <<of the population, violating>>. *)
NodePlan(judged) ==
  LET members == {n \in DOMAIN judged : Holds(judged[n][1])}
  IN  [population |-> Cardinality(members),
       violations |-> Cardinality({n \in members : Holds(judged[n][2])}),
       evidence   |-> {n \in DOMAIN judged : Holds(And(judged[n][1], judged[n][2]))}]

(* _degree_queries: every matched node is of the population.               *)
DegreePlan(violating) ==
  NodePlan([n \in DOMAIN violating |-> <<True, Truth(violating[n])>>])

------------------------------------------------------------------------------
(* The core pack.                                                          *)
Cardinal(g, from, type, to, direction, exactly) ==
  DegreePlan([n \in Matching(g, from) |-> Degree(g, n, direction, type, to) # exactly])

NoOrphans(g, label, types, to, direction) ==
  DegreePlan([n \in Matching(g, label) |-> Degree(g, n, direction, types, to) = 0])

(* How a runtime value answers the conversions: a list has none, which     *)
(* leaves the comparison unknown.                                          *)
HasKind(value, kind) ==
  IF value.kind \in {"list", "absent"} THEN Unknown ELSE Truth(value.kind = kind)

(* Mutant: what cannot be converted is not held against the property.      *)
PropertyTypeUnlessUnknown(g, label, kind) ==
  NodePlan([n \in Matching(g, label) |->
              <<Not(IsNull(g.values[n])), Not(HasKind(g.values[n], kind))>>])

PropertyType(g, label, kind) ==
  NodePlan([n \in Matching(g, label) |->
              <<Not(IsNull(g.values[n])), Not(Coalesce(HasKind(g.values[n], kind)))>>])

(* A format is the set of the numbers that spell it.                       *)
PropertyFormat(g, label, format) ==
  NodePlan([n \in Matching(g, label) |->
              <<Not(IsNull(g.values[n])),
                Not(Coalesce(And(HasKind(g.values[n], "string"), Truth(g.values[n].v \in format))))>>])

ValueInSet(g, label, values) ==
  NodePlan([n \in Matching(g, label) |->
              <<Not(IsNull(g.values[n])),
                IF g.values[n] = Absent THEN Unknown ELSE Truth(g.values[n] \notin values)>>])

TemporalSanity(g, label, ends) ==
  NodePlan([n \in Matching(g, label) |->
              <<And(Not(IsNull(g.values[n])), Not(IsNull(ends[n]))), Less(ends[n], g.values[n])>>])

Cooccurrence(g, a, b) ==
  NodePlan([n \in Nodes(g) |->
              <<Truth({a, b} \cap g.labels[n] # {}), Truth({a, b} \subseteq g.labels[n])>>])

(* _relationship_predicate_queries, for the one check that uses them.      *)
Direction(g, from, type, to) ==
  LET pointing(r, x, y) == x \in g.labels[r.src] /\ y \in g.labels[r.dst]
      members == {r \in g.rels : r.type = type /\ (pointing(r, from, to) \/ pointing(r, to, from))}
      wrong == {r \in members : pointing(r, to, from)}
  IN  [population |-> Cardinality(members), violations |-> Cardinality(wrong), evidence |-> wrong]

(* Counted by value and its frequency, listed node by node.                *)
Uniqueness(g, label) ==
  LET members == {n \in Matching(g, label) : g.values[n] # Absent}
      having(v) == {n \in members : g.values[n] = v}
      values == {g.values[n] : n \in members}
      repeated == {v \in values : Cardinality(having(v)) > 1}
  IN  [population |-> Cardinality(members),
       violations |-> SumFunction([v \in repeated |-> Cardinality(having(v))]),
       evidence   |-> {n \in members : \E m \in Matching(g, label) :
                                          m # n /\ Holds(Equal(g.values[m], g.values[n]))}]

(* hub_outlier on a population small enough to be taken whole: more than   *)
(* z standard deviations above the mean, in whole numbers.                 *)
Hubs(g, label, types, direction, z) ==
  LET members == Matching(g, label)
      count == Cardinality(members)
      degree(n) == Degree(g, n, direction, types, All)
      sum == SumFunction([n \in members |-> degree(n)])
      variance == count * SumFunction([n \in members |-> degree(n) * degree(n)]) - sum * sum
      above(n) == count * degree(n) - sum
      hubs == {n \in members : /\ variance > 0 /\ above(n) > 0
                               /\ above(n) * above(n) > z * z * variance}
  IN  [population |-> count, violations |-> Cardinality(hubs), evidence |-> hubs]

(* completeness alone, and in a batch: the batch counts what is there, and *)
(* what is missing is the rest.                                            *)
Completeness(g, label) ==
  NodePlan([n \in Matching(g, label) |-> <<True, IsNull(g.values[n])>>])

BatchCompleteness(g, label) ==
  LET population == Cardinality(Matching(g, label))
      conforming == Cardinality({n \in Matching(g, label) : g.values[n] # Absent})
  IN  [population |-> population, violations |-> population - conforming,
       evidence |-> {n \in Matching(g, label) : g.values[n] = Absent}]

------------------------------------------------------------------------------
(* The GraphRAG pack, over a model [document, chunk, entity, contains,     *)
(* mentions, containing, mentioning]: three labels, the types of the two   *)
(* provenance relationships and their directions.                          *)

Reverse(direction) ==
  CASE direction = "out" -> "in" [] direction = "in" -> "out" [] direction = "any" -> "any"

OrphanSide(g, label, other, type, direction) ==
  NoOrphans(g, {label}, {type}, {other}, direction)

(* Chunks without a document and documents without a chunk, in one sum.    *)
OrphanChunks(g, m) ==
  LET chunks == OrphanSide(g, m.chunk, m.document, m.contains, Reverse(m.containing))
      documents == OrphanSide(g, m.document, m.chunk, m.contains, m.containing)
  IN  [population |-> chunks.population + documents.population,
       violations |-> chunks.violations + documents.violations,
       evidence   |-> {<<"chunk", n>> : n \in chunks.evidence}
                        \cup {<<"document", n>> : n \in documents.evidence}]

WithoutProvenance(g, m) ==
  OrphanSide(g, m.entity, m.chunk, m.mentions, Reverse(m.mentioning))

(* Relationships between entities, an end of which no chunk mentions.      *)
DanglingExtraction(g, m, types) ==
  LET mentioned(n) == Paths(g, n, Reverse(m.mentioning), {m.mentions}, {m.chunk}) # {}
      members == {r \in g.rels : /\ m.entity \in g.labels[r.src] /\ m.entity \in g.labels[r.dst]
                                 /\ Fits({r.type}, types)}
      dangling == {r \in members : ~mentioned(r.src) \/ ~mentioned(r.dst)}
  IN  [population |-> Cardinality(members), violations |-> Cardinality(dangling),
       evidence |-> dangling]

ChunkCoverage(g, m) ==
  NodePlan([n \in Matching(g, {m.chunk}) |->
              <<True, Truth(Paths(g, n, m.mentioning, {m.mentions}, {m.entity}) = {})>>])

(* Names with no more bearers than the threshold.                          *)
LabelExplosion(g, threshold) ==
  LET few(S) == Cardinality(S) <= threshold
      rare == {<<"label", l>> : l \in {k \in LabelsInUse(g) : few(Matching(g, {k}))}}
                \cup {<<"relationship_type", t>> :
                        t \in {u \in TypesInUse(g) : few({r \in g.rels : r.type = u})}}
  IN  [population |-> Cardinality(rare), violations |-> Cardinality(rare), evidence |-> rare]

(* Embeddings: [defect, dimension].  The reference dimension is the most   *)
(* frequent one among the sound vectors, the smallest of several; without  *)
(* a sound vector no dimension is wrong.                                   *)
Reference(vectors) ==
  LET sound == {n \in DOMAIN vectors : vectors[n].defect = "none"}
      having(d) == Cardinality({n \in sound : vectors[n].dimension = d})
      dimensions == {vectors[n].dimension : n \in sound}
      modes == {d \in dimensions : \A e \in dimensions : having(d) >= having(e)}
  IN  IF sound = {} THEN {} ELSE {Min(modes)}

Defect(vectors, n) ==
  IF vectors[n].defect # "none" THEN vectors[n].defect
  ELSE IF \E d \in Reference(vectors) : vectors[n].dimension # d THEN "wrong_dimension"
  ELSE "none"

Embeddings(vectors) ==
  LET defective == {n \in DOMAIN vectors : Defect(vectors, n) # "none"}
  IN  [population |-> Cardinality(DOMAIN vectors), violations |-> Cardinality(defective),
       evidence |-> defective]

------------------------------------------------------------------------------
(* Both queries of a plan agree.                                           *)
Agree(plan) == /\ Cardinality(plan.evidence) = plan.violations
               /\ plan.violations <= plan.population
==============================================================================
