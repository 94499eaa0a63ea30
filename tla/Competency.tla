------------------------------ MODULE Competency ------------------------------
(***************************************************************************)
(* A competency query read row by row: the connector's bounded read, the   *)
(* incremental assertions that stop it once they are decisive, and the     *)
(* verdict the evaluator gives on what was read.  A row is one of Values,  *)
(* already in the frozen form in which the evaluator compares it.          *)
(***************************************************************************)
EXTENDS Integers, Sequences, FiniteSets

CONSTANTS
  Values,        \* rows, up to the equality of _freeze
  Expectations,  \* the `expect` blocks under consideration
  Limit,         \* engine.result_row_limit
  MaxStream      \* longest result the server returns

(* In an expectation, an absent assertion is the empty set, one that is    *)
(* present a singleton.                                                    *)
Bounds == [min : SUBSET Nat, max : SUBSET Nat, exactly : SUBSET Nat]

ASSUME CompetencyAssumption ==
  /\ Limit \in Nat
  /\ MaxStream \in Nat
  /\ Expectations \subseteq
       [rows : SUBSET Bounds, columns : SUBSET {"same", "other"}, unique : {{}, {TRUE}, {FALSE}},
        empty : SUBSET BOOLEAN, contains : SUBSET SUBSET Values, equals : SUBSET Seq(Values)]

VARIABLES
  expect,     \* the assertions of the check
  stream,     \* the rows the server has for the query
  rows,       \* rows retained so far
  duplicate,  \* whether a row was seen twice
  missing,    \* values of `contains` not seen yet
  left,       \* copies of each value of `equals` not seen yet
  read        \* "reading", "stopped", "ended" or "overflow"

competency == <<expect, stream, rows, duplicate, missing, left, read>>

Count(v, s) == Cardinality({i \in DOMAIN s : s[i] = v})
Elements(s) == {s[i] : i \in DOMAIN s}

------------------------------------------------------------------------------
(* The contract of `expect`: the combinations a suite may declare.         *)
Permits(b, n) ==
  /\ b.exactly \subseteq {n}
  /\ \A k \in b.min : n >= k
  /\ \A k \in b.max : n <= k

PermitsNonempty(b) ==
  IF b.exactly # {} THEN 0 \notin b.exactly ELSE 0 \notin b.max

BoundsAreConsistent(b) ==
  /\ b.min \cup b.max \cup b.exactly # {}
  /\ \A k \in b.min : \A m \in b.max \cup b.exactly : k <= m
  /\ \A k \in b.exactly : \A m \in b.max : k <= m

AssertionsAreConsistent(e) ==
  /\ \E a \in DOMAIN e : e[a] # {}
  /\ \A b \in e.rows :
       /\ BoundsAreConsistent(b)
       /\ TRUE \in e.empty => Permits(b, 0)
       /\ FALSE \in e.empty => PermitsNonempty(b)
       /\ \A s \in e.equals : Permits(b, Len(s))
       /\ e.contains # {} => PermitsNonempty(b)
  /\ TRUE \in e.empty => e.contains = {} /\ e.equals \subseteq {<<>>}
  /\ FALSE \in e.empty => <<>> \notin e.equals
  /\ \A c \in e.contains : \A s \in e.equals : c \subseteq Elements(s)

------------------------------------------------------------------------------
(* CompetencyConsumption: what the rows so far already decide.             *)
Exceeds(b, n) == \E k \in b.max \cup b.exactly : n > k

RefutedBy(row, again) ==
  \/ \E b \in expect.rows : Exceeds(b, Len(rows) + 1)
  \/ TRUE \in expect.empty
  \/ "other" \in expect.columns
  \/ TRUE \in expect.unique /\ again
  \/ expect.equals # {} /\ left[row] <= 0

(* A bound from above that holds so far.                                   *)
RowsPermitted == \A b \in expect.rows : Permits(b, Len(rows) + 1)

(* Bounds from below are met for good.                                     *)
RowsPassEarly ==
  \A b \in expect.rows :
    b.exactly = {} /\ b.max = {} /\ \A k \in b.min : Len(rows) + 1 >= k

AllPassEarly(unseen, again) ==
  /\ RowsPassEarly
  /\ expect.columns \subseteq {"same"}
  /\ expect.unique # {} => FALSE \in expect.unique /\ again
  /\ expect.empty \subseteq {FALSE}
  /\ unseen = {}
  /\ expect.equals = {}

------------------------------------------------------------------------------
Streams == UNION {[1..n -> Values] : n \in 0..MaxStream}

CompetencyInit ==
  /\ expect \in {e \in Expectations : AssertionsAreConsistent(e)}
  /\ stream \in Streams
  /\ rows = <<>>
  /\ duplicate = FALSE
  /\ missing = UNION expect.contains
  /\ left = [v \in Values |-> IF expect.equals = {} THEN 0
                              ELSE Count(v, CHOOSE s \in expect.equals : TRUE)]
  /\ read = "reading"

More == read = "reading" /\ Len(rows) < Len(stream)

(* The next record: retained, and looked at.                               *)
Read ==
  /\ More /\ Len(rows) < Limit
  /\ LET row == stream[Len(rows) + 1]
         again == expect.unique # {} /\ (duplicate \/ row \in Elements(rows))
         unseen == missing \ {row}
     IN  /\ rows' = Append(rows, row)
         /\ duplicate' = again
         /\ missing' = unseen
         /\ left' = IF expect.equals = {} THEN left ELSE [left EXCEPT ![row] = @ - 1]
         /\ read' = IF RefutedBy(row, again) \/ AllPassEarly(unseen, again)
                    THEN "stopped" ELSE "reading"
  /\ UNCHANGED <<expect, stream>>

(* One row more than the ceiling, and nothing decided: the read fails.     *)
Overflow ==
  /\ More /\ Len(rows) >= Limit
  /\ read' = "overflow"
  /\ UNCHANGED <<expect, stream, rows, duplicate, missing, left>>

End ==
  /\ read = "reading" /\ Len(rows) = Len(stream)
  /\ read' = "ended"
  /\ UNCHANGED <<expect, stream, rows, duplicate, missing, left>>

CompetencyNext == Read \/ Overflow \/ End
CompetencySpec == CompetencyInit /\ [][CompetencyNext]_competency

------------------------------------------------------------------------------
(* VerdictEvaluator._competency on the rows it is given.                   *)
IsUnique(s) == Cardinality(Elements(s)) = Len(s)

RowsFail(s, complete) ==
  \E b \in expect.rows :
    \/ complete /\ \E k \in b.min : Len(s) < k
    \/ \E k \in b.max : Len(s) > k
    \/ \E k \in b.exactly : Len(s) > k \/ (complete /\ Len(s) # k)

UniquenessFails(s, complete) ==
  /\ expect.unique # {} /\ (complete \/ ~IsUnique(s))
  /\ IsUnique(s) \notin expect.unique

ContainsFails(s, complete) ==
  complete /\ \E c \in expect.contains : ~ (c \subseteq Elements(s))

EqualsFails(s, complete) ==
  \E t \in expect.equals :
    \/ \E v \in Values : Count(v, s) > Count(v, t)
    \/ complete /\ \E v \in Values : Count(v, s) # Count(v, t)

Passes(s, complete) ==
  /\ ~RowsFail(s, complete)
  /\ expect.columns \subseteq {"same"}
  /\ ~UniquenessFails(s, complete)
  /\ expect.empty \subseteq {s = <<>>}
  /\ ~ContainsFails(s, complete)
  /\ ~EqualsFails(s, complete)

(* The verdict: a failure needs a pointer to a graph entity, in a row or   *)
(* among the parameters (params), and without one the check is an error.   *)
Verdict(s, complete, pointed, params) ==
  IF Passes(s, complete) THEN "pass"
  ELSE IF params \/ Elements(s) \cap pointed # {} THEN "fail"
  ELSE "evidence_missing"

------------------------------------------------------------------------------
(* Stopping early never turns a pass into anything else or anything else   *)
(* into a pass, whichever rows point at a graph entity, although the       *)
(* evaluator is told that the result is incomplete: the verdict on the     *)
(* rows read before the stop is that of the whole result, or a failure     *)
(* whose only pointers are in rows not read becomes an error for want of   *)
(* evidence, which a full read would have found.  One read to its end      *)
(* lacks no row (engine/evaluator.py:37-126, 522-627, 1033,                *)
(* neo4j_adapter.py:454-495).                                              *)
EarlyVerdictIsFinal ==
  /\ read = "stopped" =>
       \A pointed \in SUBSET Values, params \in BOOLEAN :
         LET early == Verdict(rows, FALSE, pointed, params)
             whole == Verdict(stream, TRUE, pointed, params)
         IN  early = whole \/ (early = "evidence_missing" /\ whole = "fail")
  /\ read = "ended" => rows = stream
=============================================================================
