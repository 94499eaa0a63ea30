------------------------------- MODULE Profiler -------------------------------
(***************************************************************************)
(* One `graphcheck profile` (profiler.py): the graph's inventory is        *)
(* collected in stages, each of them reads that may fail, within a budget  *)
(* that may run out at any moment and over a graph that others write to.   *)
(* Whatever has been collected by then becomes a partial baseline.         *)
(*                                                                         *)
(* A label or type is named by its rank and has one property, so that its  *)
(* row of coverage is the pair of owner and name.                          *)
(***************************************************************************)
EXTENDS Integers, Sequences, Functions, FiniteSetsExt

CONSTANTS
  Names,     \* ranks of labels and of relationship types
  MaxCount   \* bound on how far the graph grows

ASSUME ProfilerAssumption ==
  /\ Names \in SUBSET Nat /\ IsFiniteSet(Names)
  /\ MaxCount \in Nat

VARIABLES
  phase,       \* the stage the profiler is in
  names,       \* what remains to be measured in it, the least first
  graph,       \* how many elements each owner and name has now
  counted,     \* what the probe counted in all, per owner
  collected,   \* <<name, count>> measured so far, per owner
  inventory,   \* rows of coverage in the shared inventory
  failure,     \* a label could not be measured
  exceeded,    \* the budget has been used up
  lost,        \* something was not collected (for the properties)
  baseline     \* what comes out

profile == <<phase, names, graph, counted, collected, inventory, failure, exceeded, lost, baseline>>

Owners == {"node", "relationship"}
Pending == [status |-> "pending", reason |-> "none"]
Raised(what) == [status |-> what, reason |-> "none"]

Total(f) == SumFunction(f)

------------------------------------------------------------------------------
ProfilerInit ==
  /\ phase = "probe"
  /\ names = {}
  /\ graph \in [Owners -> [Names -> 0..1]]
  /\ counted = [o \in Owners |-> 0]
  /\ collected = [o \in Owners |-> <<>>]
  /\ inventory = {}
  /\ failure = FALSE
  /\ exceeded = FALSE
  /\ lost = FALSE
  /\ baseline = Pending

(* Others write to the graph, between two reads of the profiler.           *)
Grow(o, n) ==
  /\ phase # "over"
  /\ graph[o][n] < MaxCount
  /\ graph' = [graph EXCEPT ![o][n] = @ + 1]
  /\ UNCHANGED <<phase, names, counted, collected, inventory, failure, exceeded, lost, baseline>>

Exceed ==
  /\ phase # "over" /\ ~exceeded
  /\ exceeded' = TRUE
  /\ UNCHANGED <<phase, names, graph, counted, collected, inventory, failure, lost, baseline>>

(* The contract of a baseline: no label has more nodes than the graph, and *)
(* in a complete one no type more relationships.                           *)
Fits(o) == \A i \in DOMAIN collected[o] : collected[o][i][2] <= counted[o]
Accepted(status) == Fits("node") /\ (status = "complete" => Fits("relationship"))

Finish(document) ==
  /\ baseline' = IF Accepted(document.status) THEN document ELSE Raised("rejected")
  /\ phase' = "over"
  /\ UNCHANGED <<names, graph, counted, collected, inventory, failure, exceeded>>

Document(status, reason, labels, types, rows) ==
  [status |-> status, reason |-> reason, labels |-> labels, types |-> types, rows |-> rows]

(* _partial_profile: what the stage returned, merged with the inventory.   *)
Coverage == inventory

PartialWithout(reason) ==  \* only what the finished stages returned
  Finish(Document("partial", IF exceeded THEN "deadline_exhausted" ELSE reason, collected["node"],
                  IF phase \in {"types", "type"} THEN <<>> ELSE collected["relationship"], {}))

Partial(reason) ==
  Finish(Document("partial", IF exceeded THEN "deadline_exhausted" ELSE reason,
                  collected["node"], collected["relationship"], Coverage))

Reason(stage) ==
  CASE stage = "coverage" -> "property_coverage_incomplete"
    [] stage = "degree"   -> "degree_incomplete"
    [] stage = "probe"    -> "probe_incomplete"
    [] OTHER              -> "schema_incomplete"

(* The stage has returned: out of budget, or on to the next.               *)
After(stage, next) ==
  IF exceeded THEN Partial(Reason(stage)) /\ lost' = TRUE
  ELSE /\ phase' = next
       /\ UNCHANGED <<names, graph, counted, collected, inventory, failure, exceeded, lost, baseline>>

Fails(stage) == Partial(Reason(stage)) /\ lost' = TRUE

------------------------------------------------------------------------------
(* Counts of the whole graph: without them there is no baseline at all.    *)
Probe ==
  /\ phase = "probe"
  /\ \/ /\ ~exceeded
        /\ counted' = [o \in Owners |-> Total(graph[o])]
        /\ phase' = "probed"
        /\ UNCHANGED <<names, graph, collected, inventory, failure, exceeded, lost, baseline>>
     \/ /\ baseline' = Raised("unavailable")
        /\ phase' = "over"
        /\ UNCHANGED <<names, graph, counted, collected, inventory, failure, exceeded, lost>>

Probed == phase = "probed" /\ After("probe", "labels")

(* The names there are now; they are measured in their order.              *)
Listing(stage, o, next) ==
  /\ phase = stage
  /\ \/ /\ ~exceeded
        /\ names' = {n \in Names : graph[o][n] > 0}
        /\ phase' = next
        /\ UNCHANGED <<graph, counted, collected, inventory, failure, exceeded, lost, baseline>>
     \/ Fails(stage)

ListLabels == Listing("labels", "node", "label")
ListTypes == Listing("types", "relationship", "type")

First == Min(names)

(* One query measures a name and its properties.                           *)
Measure(o) ==
  /\ ~exceeded
  /\ collected' = [collected EXCEPT ![o] = Append(@, <<First, graph[o][First]>>)]
  /\ inventory' = inventory \cup {<<o, First>>}
  /\ names' = names \ {First}
  /\ UNCHANGED <<phase, graph, counted, failure, exceeded, lost, baseline>>

(* A label that cannot be measured is remembered and the others follow,    *)
(* unless the budget is gone.                                              *)
MeasureLabel ==
  /\ phase = "label" /\ names # {}
  /\ \/ Measure("node")
     \/ /\ failure' = TRUE
        /\ names' = IF exceeded THEN {} ELSE names \ {First}
        /\ lost' = TRUE
        /\ UNCHANGED <<phase, graph, counted, collected, inventory, exceeded, baseline>>

LabelsDone ==
  /\ phase = "label" /\ names = {}
  /\ IF failure THEN Fails("labels") ELSE After("labels", "types")

(* A type that cannot be measured ends the stage; what the others have     *)
(* given is in the inventory.                                              *)
MeasureType ==
  /\ phase = "type" /\ names # {}
  /\ Measure("relationship") \/ Fails("types")

TypesDone == phase = "type" /\ names = {} /\ After("types", "constraints")

Constraints ==
  /\ phase = "constraints"
  /\ Fails("constraints") \/ After("constraints", "indexes")

Indexes == phase = "indexes" /\ (Fails("indexes") \/ After("indexes", "coverage"))

(* Both inventories are complete: nothing is read again.                   *)
ReuseCoverage == phase = "coverage" /\ After("coverage", "degree")

(* Histograms per label, direction and type; too many pairs are capped.    *)
Degrees ==
  /\ phase = "degree"
  /\ \/ Fails("degree")
     \/ Partial("degree_incomplete") /\ lost' = TRUE
     \/ After("degree", "complete")

Complete ==
  /\ phase = "complete"
  /\ Finish(Document("complete", "none", collected["node"], collected["relationship"], Coverage))
  /\ UNCHANGED lost

ProfilerNext ==
  \/ \E o \in Owners, n \in Names : Grow(o, n)
  \/ Exceed
  \/ Probe \/ Probed \/ ListLabels \/ MeasureLabel \/ LabelsDone \/ ListTypes \/ MeasureType
  \/ TypesDone \/ Constraints \/ Indexes \/ ReuseCoverage \/ Degrees \/ Complete

ProfilerSpec == ProfilerInit /\ [][ProfilerNext]_profile

------------------------------------------------------------------------------
Produced == baseline.status \in {"complete", "partial"}
RowsOf(o, rows) == {<<o, rows[i][1]>> : i \in DOMAIN rows}

(* A baseline accounts for everything that was measured and hides nothing  *)
(* that was not: every label and type a query has answered for is in it    *)
(* with its coverage, in order, also when its stage failed afterwards, and *)
(* it is complete only when no read failed, no cap tripped and the budget  *)
(* held (SPEC-05, rule 13: "MUST NOT silently truncate output").  What has *)
(* been collected is thrown away for one reason only: somebody wrote to the*)
(* graph between the count of the whole and that of a part.                *)
ProfileHidesNothing ==
  /\ Produced =>
       /\ baseline.labels = collected["node"] /\ baseline.types = collected["relationship"]
       /\ baseline.rows = RowsOf("node", baseline.labels) \cup RowsOf("relationship", baseline.types)
       /\ \A i, j \in DOMAIN baseline.labels : i < j => baseline.labels[i][1] < baseline.labels[j][1]
       /\ baseline.status = "complete" => ~lost
  /\ baseline.status = "rejected" => \E o \in Owners : Total(graph[o]) > counted[o]
==============================================================================
