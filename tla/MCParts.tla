------------------------------ MODULE MCParts -------------------------------
(***************************************************************************)
(* The parts that run alone, side by side: a behaviour explores one of     *)
(* them and leaves the variables of the others idle.  It lets a list of    *)
(* results grow (Scoring), reads a competency result row by row            *)
(* (Competency), works with the baseline store (Baselines), profiles a     *)
(* graph (Profiler), generates a suite (Generation), or puts a single      *)
(* question to a pure algorithm and stops there.                           *)
(***************************************************************************)
EXTENDS Scoring, Competency, Baselines, Generation, Profiler, Algorithms

CONSTANT Prime   \* the modulus of the ranking hash

ASSUME PrimeAssumption == IsPrime(Prime)

VARIABLE question

Optional(S) == {{}} \cup {{x} : x \in S}

SomeExpectations ==
  [rows : Optional([min : Optional({1, 2}), max : Optional({1, 2}), exactly : Optional({0, 2})]),
   columns : Optional({"same", "other"}), unique : Optional(BOOLEAN), empty : Optional(BOOLEAN),
   contains : Optional(SUBSET Values \ {{}}),
   equals : Optional({<<>>} \cup [1..1 -> Values] \cup [1..2 -> Values])]

------------------------------------------------------------------------------
(* Questions.                                                               *)
Questions(topic, inputs) == [topic : {topic}, input : inputs]
Machine(topic) == [topic |-> topic, input |-> <<>>]

PointerValues == {Evaluate!NoPointer} \cup [kind : {"node", "aggregate"}, id : 1..2] \cup [kind : {"rel"}, id : {3}]

EvidenceQuestions ==
  Questions("evidence",
    [values : UNION {[1..n -> PointerValues] : n \in 0..4}, cap : 1..2, total : 0..2, aggregates : BOOLEAN])

(* Elements that violate a check or not, and how it may be sampled.         *)
VerdictQuestions ==
  Questions("verdict",
    [check : Evaluate!Coverage \cup Evaluate!Provenance \cup Evaluate!Sampled \cup Evaluate!Plain,
     violates : UNION {[1..n -> BOOLEAN] : n \in 0..3},
     exhaustive : {0, 2}, size : 1..2, cap : 1..2, empty : BOOLEAN])

Limits ==
  [max_drop_pct : Optional({0, 50}), max_increase_pct : Optional({50}), max_change_pct : Optional({0, 50}),
   max_delta : Optional({1}), absolute : Optional({0}), min : Optional({1}), max : Optional({-1, 2})]

DriftQuestions ==
  Questions("drift",
    [metric : {"node_count", "property_coverage"}, current : 0..3, recorded : 0..2, limits : Limits]
      \cup [metric : {"property_coverage"}, current : {99, 100}, recorded : {97, 100}, limits : Limits])

FloydQuestions ==
  Questions("floyd", [population : 3..5, size : 1..3])

HashQuestions ==
  Questions("hash", {w \in [1..4 -> 0..Prime - 1] : \A i, j \in 1..4 : i < j => w[i] < w[j]})

Before(a, b) ==
  \/ Len(a) < Len(b)
  \/ Len(a) = Len(b) /\ \E i \in DOMAIN a : a[i] < b[i] /\ \A j \in 1..i - 1 : a[j] = b[j]

Words == UNION {[1..n -> 0..1] : n \in 1..3}
NameLists ==
  {s \in UNION {[1..n -> Words] : n \in 2..3} : \A i \in 2..Len(s) : Before(s[i - 1], s[i])}

DuplicateQuestions ==
  Questions("duplicates", [keys : NameLists, threshold : {<<1, 2>>, <<2, 3>>, <<1, 1>>}])

(* Graphs of three nodes, with values or with relationships, and vectors.  *)
Written == {Query!Absent} \cup [kind : {"integer", "string"}, v : 1..2] \cup [kind : {"list"}, v : {1}]

Unwritten == [n \in 1..3 |-> Query!Absent]

ValueQuestions ==
  Questions("values",
    [labels : [1..3 -> {{"D"}, {"E"}, {"D", "E"}}], values : [1..3 -> Written], rels : {{}}])

(* Up to the names of the nodes.                                            *)
Labelled(kinds) ==
  {[n \in 1..3 |-> kinds[i[n]]] : i \in {j \in [1..3 -> DOMAIN kinds] : j[1] <= j[2] /\ j[2] <= j[3]}}

(* One or two relationships, in parallel or not, or none.                   *)
Edges(types) ==
  LET edge(id, x) == [id |-> id, src |-> 1 + (x % 3), dst |-> 1 + ((x \div 3) % 3), type |-> types[1 + (x \div 9)]]
  IN  {{}} \cup {{edge(1, x)} : x \in 0..17}
        \cup {{edge(1, p[1]), edge(2, p[2])} : p \in {q \in (0..17) \X (0..17) : q[1] <= q[2]}}

LinkQuestions ==
  Questions("links",
    [labels : Labelled(<<{"D"}, {"C"}, {"E"}, {"D", "C"}>>), values : {Unwritten},
     rels : Edges(<<"contains", "mentions">>)])

VectorQuestions ==
  Questions("vectors",
    [1..4 -> [defect : {"none"}, dimension : 1..3] \cup [defect : {"not_a_list"}, dimension : {0}]])

StatisticsQuestions ==
  Questions("statistics",
    [graph : [labels : Labelled(<<{"D"}, {"D", "E"}, {}>>),
              values : {Unwritten, [Unwritten EXCEPT ![1] = [kind |-> "integer", v |-> 1]]},
              rels : Edges(<<"R", "S">>)],
     cap : {1, 4}])

(* Profiles with one or two labels, and profiles with an index.             *)
LabelBooks ==
  LET known == [count : 1..2, properties : {<<>>, [p |-> "int"], [p |-> "str"]}, degree : 0..1]
  IN  {<<>>} \cup [{"A"} -> known]
        \cup {f \in [{"A", "B"} -> known] : f["B"] = [count |-> 1, properties |-> <<>>, degree |-> 0]}

Books ==
  [version : {"1.1"}, status : {"complete"}, labels : LabelBooks, types : {<<>>} \cup [{"R"} -> 1..2], nodes : {2},
   rels : 2..3, constraints : {<<>>}, indexes : {<<>>}, coverage : {<<>>}]

Definitions ==
  [version : {"1.0", "1.1"}, status : {"complete"}, labels : {<<>>}, types : {<<>>}, nodes : {2}, rels : {2},
   constraints : {<<>>} \cup [{"c"} -> 1..2],
   indexes : {<<>>} \cup [{"i"} -> [definition : 1..2, order : {Compare!Unordered, "xy", "yx"}]],
   coverage : {<<>>} \cup [{"p"} -> {50, 100}]]

DiffQuestions ==
  LET sound(profiles) == {p \in profiles : Compare!WellFormed(p)}
  IN  Questions("diff", (sound(Books) \X sound(Books)) \cup (sound(Definitions) \X sound(Definitions)))

QuestionAsked ==
  \/ question \in EvidenceQuestions
  \/ question \in VerdictQuestions
  \/ question \in DriftQuestions
  \/ question \in FloydQuestions
  \/ question \in HashQuestions
  \/ question \in DuplicateQuestions
  \/ question \in ValueQuestions
  \/ question \in LinkQuestions
  \/ question \in VectorQuestions
  \/ question \in StatisticsQuestions
  \/ question \in DiffQuestions
  \/ question = Machine("scoring")

------------------------------------------------------------------------------
Asked(topic) == question.topic = topic

IdleReading ==
  /\ expect = <<>> /\ stream = <<>> /\ rows = <<>> /\ duplicate = FALSE
  /\ missing = {} /\ left = <<>> /\ read = "idle"

IdleProfile ==
  /\ phase = "idle" /\ names = {} /\ graph = <<>> /\ counted = <<>> /\ collected = <<>>
  /\ inventory = {} /\ failure = FALSE /\ exceeded = FALSE /\ lost = FALSE /\ baseline = Pending

IdleGeneration ==
  /\ stage = "idle" /\ transport = "none" /\ requested = 0 /\ snapshots = <<>> /\ edition = 0
  /\ context = <<>> /\ told = {} /\ sent = <<>> /\ attempt = 0 /\ retried = FALSE /\ amended = FALSE
  /\ retained = <<>> /\ dropped = <<>> /\ trial = 0 /\ temporary = FALSE /\ suites = <<>>

PartsInit ==
  /\ Init
  /\ \/ /\ QuestionAsked
        /\ IdleReading /\ BaselinesInit /\ IdleProfile /\ IdleGeneration
     \/ /\ question = Machine("competency")
        /\ CompetencyInit /\ BaselinesInit /\ IdleProfile /\ IdleGeneration
     \/ /\ question = Machine("baselines")
        /\ IdleReading /\ BaselinesInit /\ IdleProfile /\ IdleGeneration
     \/ /\ question = Machine("profiler")
        /\ IdleReading /\ BaselinesInit /\ ProfilerInit /\ IdleGeneration
     \/ /\ question = Machine("generation")
        /\ IdleReading /\ BaselinesInit /\ IdleProfile /\ GenerationInit

PartsNext ==
  \/ Asked("scoring") /\ AddCheck /\ UNCHANGED <<competency, books, profile, generation, question>>
  \/ Asked("competency") /\ CompetencyNext /\ UNCHANGED <<vars, books, profile, generation, question>>
  \/ Asked("baselines") /\ BaselinesNext /\ UNCHANGED <<vars, competency, profile, generation, question>>
  \/ Asked("profiler") /\ ProfilerNext /\ UNCHANGED <<vars, competency, books, generation, question>>
  \/ Asked("generation") /\ GenerationNext /\ UNCHANGED <<vars, competency, books, profile, question>>

PartsSpec == PartsInit /\ [][PartsNext]_<<vars, competency, books, profile, generation, question>>

------------------------------------------------------------------------------
(* A file keeps its meaning: a published snapshot its content, a suite of   *)
(* another generation its own; and a diff follows the pin only to what is   *)
(* there (baselines.py:53-222, generation/writer.py:54-108).                *)
NamesKeepTheirMeaning ==
  [][SnapshotsArePermanent /\ DiffPinIsChecked /\ RivalsAreKept]_<<books, generation>>

(* Algorithms, of the questions about evidence.                             *)
EvidenceIsListed ==
  Asked("evidence") =>
    LET q == question.input IN EvidenceListsAll(q.values, q.cap, q.total, q.aggregates)

(* Algorithms, of the questions about verdicts and about drift.             *)
VerdictFollowsElements == Asked("verdict") => VerdictFollows(question.input)
DriftIsExplained == Asked("drift") => DriftExplained(question.input)

(* Together: every verdict is what the measurement says, and its evidence   *)
(* is whole or says that it is not.                                         *)
EvidenceIsWhole == EvidenceIsListed /\ VerdictFollowsElements /\ DriftIsExplained

(* A sample is drawn fairly: every subset of its size comes from the same   *)
(* number of draws (engine/sampling.py:117-145).                            *)
SampleIsFair ==
  Asked("floyd") => DrawsAreFair(question.input.population, question.input.size)

(* The ranking hash is four-wise independent over its coefficients: any four *)
(* values take every combination of ranks once                              *)
(* (engine/sampling.py:148-195).                                            *)
HashIsFourWiseIndependent ==
  Asked("hash") => RanksAreIndependent(question.input, Prime)

(* Together, of the two ways a sample is drawn: the draws of Floyd's        *)
(* algorithm are fair, and the ranks Neo4j orders by are four-wise          *)
(* independent.  This does not say that ranking gives every member the same *)
(* chance: elementId decides between equal ranks, and a second hash gates   *)
(* large populations (engine/sampling.py:117-195, core_pack.py:521-560).    *)
SamplesAreFair == SampleIsFair /\ HashIsFourWiseIndependent

(* Near-duplicate groups are the connected components of exact similarity:  *)
(* no pair is lost to the bound that spares comparisons                     *)
(* (engine/graphrag_pack.py:322-372).                                       *)
GroupsAreComponents ==
  Asked("duplicates") => GroupsAreConnected(question.input.keys, question.input.threshold, 2)

(* Together, of small graphs and vectors: the two queries of a check agree, *)
(* and what they count and list is what the check promises to find          *)
(* (engine/core_pack.py:151-700, engine/compiler.py:140-210,                *)
(* engine/graphrag_pack.py:25-240, 347-392; the parts are in Algorithms).   *)
ValueCheck(g) ==
  [label |-> "D", other |-> "E", kind |-> "string", format |-> {1},
   values |-> {[kind |-> "string", v |-> 1]}, ends |-> [n \in 1..3 |-> g.values[1 + (n % 3)]]]

Provenance(direction) ==
  [document |-> "D", chunk |-> "C", entity |-> "E", contains |-> "contains", mentions |-> "mentions",
   containing |-> direction, mentioning |-> direction]

QueriesFindViolations ==
  /\ Asked("values") => ValuesAreJudged(question.input, ValueCheck(question.input))
  /\ Asked("links") =>
       \A d \in {"in", "out", "any"} :
         LinksAreJudged(question.input, Provenance(d), 1, 1) /\ HubsStandOut(question.input, "C", d, 1)
  /\ Asked("vectors") => MajorityIsRight(question.input)

(* On an unchanged graph a drift check finds its baseline's value again,    *)
(* but for the rounding of a coverage; and what the profile did not record  *)
(* is zero on the graph, unless the profile says that it is partial         *)
(* (profiler.py:834-1053, engine/baseline.py:145-308, engine/compiler.py:432-660). *)
ProfileAgreesWithLive ==
  Asked("statistics") => ProfileAgrees(question.input.graph, question.input.cap, {"D", "E"}, {"R", "S"})

(* Algorithms, of small profiles: a diff says that there is drift exactly   *)
(* when it lists some, and reads the same from either side                  *)
(* (diff.py:46-320).                                                        *)
DiffListsWhatDrifted ==
  Asked("diff") => ListsWhatDrifted(question.input[1], question.input[2])
=============================================================================
