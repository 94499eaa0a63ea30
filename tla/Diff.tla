-------------------------------- MODULE Diff ---------------------------------
(***************************************************************************)
(* Comparing two baseline profiles (diff.py): what `graphcheck diff` lists *)
(* and when it says that there is drift.  A profile is a record            *)
(*   [version, status, labels, types, nodes, rels, constraints, indexes,   *)
(*    coverage],                                                           *)
(* with functions from the names to what is known of each: a label's       *)
(* [count, properties, degree], the count of a type, the definition of a   *)
(* constraint, the [definition, order] of an index, a property's coverage. *)
(***************************************************************************)
EXTENDS Integers, FiniteSets, Functions

Unordered == "unordered"

(* The semantic validation of a complete profile (contracts/profile.py).   *)
WellFormed(p) ==
  /\ p.status \in {"complete", "partial"}
  /\ p.status = "complete" => \A t \in DOMAIN p.types : p.types[t] <= p.rels
  /\ \A l \in DOMAIN p.labels : p.labels[l].count <= p.nodes
  /\ \A i \in DOMAIN p.indexes : p.indexes[i].order # Unordered => p.version = "1.1"

(* The fingerprint is a hash of these, taken to have no collision.         *)
Fingerprint(p) == <<p.labels, p.types, p.nodes, p.rels>>

Comparable(a, b) ==
  /\ a.status = "complete" /\ b.status = "complete"
  /\ a.version = b.version \/ {a.version, b.version} = {"1.0", "1.1"}

Added(a, b) == DOMAIN b \ DOMAIN a
Removed(a, b) == DOMAIN a \ DOMAIN b
Shared(a, b) == DOMAIN a \cap DOMAIN b

Counts(a, b) ==
  [changed |-> {x \in Shared(a, b) : a[x] # b[x]}, added |-> Added(a, b), removed |-> Removed(a, b)]

(* A definition that is not kept has been replaced: it is listed twice.    *)
Definitions(a, b, kept) ==
  [changed |-> {}, added |-> DOMAIN b \ kept, removed |-> DOMAIN a \ kept]

(* An index order is compared only where both profiles know it.            *)
SameIndex(x, y) ==
  x.definition = y.definition /\ (x.order = y.order \/ Unordered \in {x.order, y.order})

(* Mutant: properties are told apart by name only.                         *)
PropertiesByName(a, b) ==
  LET names(p) == {x \in Shared(a, b) \X {"p", "q"} : x[2] \in DOMAIN p[x[1]].properties}
  IN  [changed |-> {}, added |-> names(b) \ names(a), removed |-> names(a) \ names(b)]

(* The properties of the labels both have, by type.                        *)
Properties(a, b) ==
  LET names(p) == UNION {{<<l, q>> : q \in DOMAIN p[l].properties} : l \in Shared(a, b)}
      type(p, x) == p[x[1]].properties[x[2]]
  IN  [changed |-> {x \in names(a) \cap names(b) : type(a, x) # type(b, x)},
       added |-> names(b) \ names(a), removed |-> names(a) \ names(b)]

LabelCounts(p) == [l \in DOMAIN p.labels |-> p.labels[l].count]

Report(a, b) ==
  [labels      |-> Counts(LabelCounts(a), LabelCounts(b)),
   types       |-> Counts(a.types, b.types),
   constraints |-> Definitions(a.constraints, b.constraints,
                      {x \in Shared(a.constraints, b.constraints) : a.constraints[x] = b.constraints[x]}),
   indexes     |-> Definitions(a.indexes, b.indexes,
                      {x \in Shared(a.indexes, b.indexes) : SameIndex(a.indexes[x], b.indexes[x])}),
   coverage    |-> Counts(a.coverage, b.coverage),
   properties  |-> Properties(a.labels, b.labels),
   totals      |-> {t \in {"nodes", "rels"} : a[t] # b[t]},
   degrees     |-> {l \in Shared(a.labels, b.labels) : a.labels[l].degree # b.labels[l].degree},
   reordered   |-> {x \in Shared(a.indexes, b.indexes) :
                      /\ SameIndex(a.indexes[x], b.indexes[x])
                      /\ a.indexes[x].order # b.indexes[x].order},
   fingerprint |-> Fingerprint(a) # Fingerprint(b)]

Empty(section) == section.changed = {} /\ section.added = {} /\ section.removed = {}

(* Which parts decide; the properties are in the fingerprint.              *)
DriftDetected(r) ==
  \/ r.fingerprint \/ r.totals # {} \/ r.degrees # {}
  \/ \E s \in {"labels", "types", "constraints", "indexes", "coverage"} : ~Empty(r[s])

(* render_human: the sections a reader sees, when there is drift.          *)
Rendered(r) ==
  {s \in {"labels", "types", "constraints", "indexes", "coverage", "properties"} : ~Empty(r[s])}
    \cup {s \in {"totals", "degrees"} : r[s] # {}}

Mirrored(section) ==
  [changed |-> section.changed, added |-> section.removed, removed |-> section.added]
==============================================================================
