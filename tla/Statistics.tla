----------------------------- MODULE Statistics ------------------------------
(***************************************************************************)
(* One number, computed twice: what a drift check measures on a graph now  *)
(* (engine/compiler.py) and what a profile of the same graph recorded for  *)
(* it (profiler.py), as the baseline provider finds it in the snapshot     *)
(* (engine/baseline.py).  Percentiles come from Cypher on the one side and *)
(* from histograms with a pad of zeros on the other.                       *)
(*                                                                         *)
(* A target is a record [metric, label, type, quantile, direction]; None   *)
(* is a part it does not have.  Coverage is in hundredths of a percent.    *)
(***************************************************************************)
EXTENDS PropertyGraph, Sequences, Functions

None == "none"
Quantiles == {"p50", "p95", "max"}
Directions == {"in", "out", "both"}
Directed(direction) == IF direction = "both" THEN "any" ELSE direction
One(x) == IF x = None THEN All ELSE {x}

(* percentileDisc, and its twin over a histogram: the smallest value with  *)
(* enough values up to it.                                                 *)
Percent(quantile) == IF quantile = "p50" THEN 50 ELSE 95
Rank(quantile, total) == Max({1, (Percent(quantile) * total + 99) \div 100})

------------------------------------------------------------------------------
(* The live queries.                                                       *)
Sources(g, type, direction) == {n \in Nodes(g) : Degree(g, n, direction, {type}, All) > 0}

DegreeTarget(t) == /\ t.label # None \/ t.type # None
                   /\ t.label = None => t.direction # "both"

Counted(g, t) == IF t.label # None THEN Matching(g, {t.label})
                 ELSE Sources(g, t.type, Directed(t.direction))

LiveDegree(g, t) ==
  LET degree(n) == Degree(g, n, Directed(t.direction), One(t.type), All)
      nodes == Counted(g, t)
      upTo(v) == Cardinality({n \in nodes : degree(n) <= v})
      values == {degree(n) : n \in nodes}
  IN  IF t.quantile = "max" THEN Max(values)
      ELSE Min({v \in values : upTo(v) >= Rank(t.quantile, Cardinality(nodes))})

LiveCount(g, t) ==
  IF t.metric = "node_count" THEN Cardinality(Matching(g, One(t.label)))
  ELSE Cardinality({r \in g.rels : Fits({r.type}, One(t.type))})

(* The exact ratio, as a numerator and a denominator.                      *)
LiveCoverage(g, label) ==
  LET all == Matching(g, {label})
  IN  [present |-> Cardinality({n \in all : g.values[n] # Absent}), population |-> Cardinality(all)]

(* Properties by the combinations of labels that carry them.               *)
LiveInventory(g) ==
  UNION {{<<"label", l>> : l \in LabelsInUse(g)}, {<<"type", t>> : t \in TypesInUse(g)},
         {<<"property", l>> : l \in UNION {s \in Range(g.labels) :
                                \E n \in Nodes(g) : g.labels[n] = s /\ g.values[n] # Absent}}}

------------------------------------------------------------------------------
(* The profile.  A histogram counts the nodes at each degree.              *)
Histogram(degree) ==
  [v \in Range(degree) |-> Cardinality({n \in DOMAIN degree : degree[n] = v})]

SizeOf(histogram) == SumFunction(histogram)

Percentile(histogram, quantile) ==
  LET upTo(v) == SizeOf([u \in {w \in DOMAIN histogram : w <= v} |-> histogram[u]])
  IN  Min({v \in DOMAIN histogram : upTo(v) >= Rank(quantile, SizeOf(histogram))})

QuantileOf(histogram, quantile) ==
  IF histogram = <<>> THEN 0
  ELSE IF quantile = "max" THEN Max(DOMAIN histogram) ELSE Percentile(histogram, quantile)

(* The edges of a label by type, from either end: the cap keeps the pairs  *)
(* with the most.                                                          *)
EdgeCounts(g) ==
  LET count(l, t) == SumFunction([n \in Matching(g, {l}) |-> Degree(g, n, "any", {t}, All)])
      pairs == LabelsInUse(g) \X TypesInUse(g)
  IN  [p \in {q \in pairs : count(q[1], q[2]) > 0} |-> count(p[1], p[2])]

Kept(g, cap) ==
  LET edges == EdgeCounts(g)
      sorted == CHOOSE s \in [1..Cardinality(DOMAIN edges) -> DOMAIN edges] :
                  /\ IsInjective(s)
                  /\ \A i \in DOMAIN s : \A j \in 1..i : edges[s[j]] >= edges[s[i]]
  IN  {sorted[i] : i \in {j \in DOMAIN sorted : j <= cap}}

PartialReason(g, cap) == IF Cardinality(DOMAIN EdgeCounts(g)) > cap THEN "degree_incomplete" ELSE None

(* Mutant: the nodes without an edge of the type are left out.             *)
Unpadded(histogram, population) == histogram

(* The nodes that OPTIONAL MATCH and the filter on the type dropped.       *)
Padded(histogram, population) ==
  LET zeros == population - SizeOf(histogram)
  IN  IF zeros > 0 THEN [v \in DOMAIN histogram \cup {0} |-> IF v = 0 THEN zeros ELSE histogram[v]]
      ELSE histogram

HistogramFor(g, t) ==
  LET degree(n) == Degree(g, n, Directed(t.direction), One(t.type), All)
      over(nodes) == Histogram([n \in nodes |-> degree(n)])
      labelled == Matching(g, {t.label})
  IN  CASE t.label = None -> over(Sources(g, t.type, Directed(t.direction)))
        [] t.type = None  -> over(labelled)
        [] OTHER -> Padded(over({n \in labelled : degree(n) > 0}), Cardinality(labelled))

(* What is recorded: of a label and a type, the kept pairs with an edge in *)
(* that direction.                                                         *)
Recorded(g, t, cap) ==
  /\ t.label # None => t.label \in LabelsInUse(g)
  /\ t.type # None => t.type \in TypesInUse(g)
  /\ t.label # None /\ t.type # None =>
       /\ <<t.label, t.type>> \in Kept(g, cap)
       /\ \E n \in Matching(g, {t.label}) : Degree(g, n, Directed(t.direction), {t.type}, All) > 0

ProfiledDegree(g, t) == QuantileOf(HistogramFor(g, t), t.quantile)

(* The counts of the schema section, or the total of the statistics.       *)
CountRecorded(g, t) == /\ t.label # None => t.label \in LabelsInUse(g)
                       /\ t.type # None => t.type \in TypesInUse(g)

ProfiledCount(g, t) ==
  IF t.metric = "node_count"
  THEN Cardinality({n \in Nodes(g) : t.label = None \/ t.label \in g.labels[n]})
  ELSE Cardinality({r \in g.rels : t.type = None \/ r.type = t.type})

(* A label's properties are the keys its nodes have; a coverage is rounded *)
(* to two decimals.                                                        *)
PropertyListed(g, label) == \E n \in Nodes(g) : label \in g.labels[n] /\ g.values[n] # Absent

Rounded(present, population) == (20000 * present + population) \div (2 * population)

ProfiledCoverage(g, label) ==
  LET live == LiveCoverage(g, label) IN Rounded(live.present, live.population)

ProfiledInventory(g) ==
  {<<"label", l>> : l \in LabelsInUse(g)} \cup {<<"type", t>> : t \in TypesInUse(g)}
    \cup {<<"property", l>> : l \in {k \in LabelsInUse(g) : PropertyListed(g, k)}}
==============================================================================
