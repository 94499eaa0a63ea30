---------------------------- MODULE PropertyGraph ----------------------------
(***************************************************************************)
(* What the queries of the packs and of the profiler use of Neo4j: labels, *)
(* paths of length one, and Cypher's three truth values.  External: known  *)
(* from how the code in engine/ and profiler.py uses it.                   *)
(*                                                                         *)
(* A graph is a record [labels, values, rels]: for each node its labels    *)
(* and its property, and relationships [id, src, type, dst].               *)
(***************************************************************************)
EXTENDS Integers, FiniteSets, FiniteSetsExt

Nodes(g) == DOMAIN g.labels

(* A set of labels or types of which any matches; All matches everything.  *)
All == {}
Fits(have, wanted) == wanted = All \/ have \cap wanted # {}

Matching(g, labels) == {n \in Nodes(g) : Fits(g.labels[n], labels)}

(* (n)-[r:types]-(other:labels) in a direction; a loop is matched once.    *)
Paths(g, n, direction, types, others) ==
  {r \in g.rels :
     /\ Fits({r.type}, types)
     /\ \/ direction # "in"  /\ r.src = n /\ Fits(g.labels[r.dst], others)
        \/ direction # "out" /\ r.dst = n /\ Fits(g.labels[r.src], others)}

Degree(g, n, direction, types, others) == Cardinality(Paths(g, n, direction, types, others))

LabelsInUse(g) == UNION {g.labels[n] : n \in Nodes(g)}
TypesInUse(g) == {r.type : r \in g.rels}

------------------------------------------------------------------------------
(* Truth: AND and OR are the minimum and the maximum, WHERE and CASE WHEN  *)
(* take what is true and leave what is unknown.                            *)
True == 2
Unknown == 1
False == 0
Truth(b) == IF b THEN True ELSE False
Not(x) == 2 - x
And(x, y) == IF x < y THEN x ELSE y
Coalesce(x) == IF x = Unknown THEN False ELSE x
Holds(x) == x = True

(* Values: [kind, v], or Absent.                                           *)
Absent == [kind |-> "absent", v |-> 0]
IsNull(value) == Truth(value = Absent)
Equal(a, b) == IF Absent \in {a, b} THEN Unknown ELSE Truth(a = b)
Less(a, b) == IF Absent \in {a, b} \/ a.kind # b.kind \/ a.kind = "list"
              THEN Unknown ELSE Truth(a.v < b.v)
==============================================================================
