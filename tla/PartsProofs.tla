------------------------------ MODULE PartsProofs ------------------------------
(***************************************************************************)
(* What the parts that run alone promise: a competency result read no      *)
(* further than its verdict needs (Competency), the baseline store and the *)
(* provider of an engine run (Baselines), the data `graphcheck generate`   *)
(* sends and the suites it finds (Generation), what a profile records and  *)
(* refuses (Profiler), the scores of growing lists of results (Scoring),   *)
(* and the answers to the questions put to the algorithms (MCParts).       *)
(***************************************************************************)
EXTENDS MCParts, AlgorithmProofs

------------------------------------------------------------------------------
(* Competency: for any rows, expectations, ceiling and length of result.   *)
Starts(s, t) == Len(s) <= Len(t) /\ \A i \in DOMAIN s : s[i] = t[i]
Repeats(s) == \E i, j \in DOMAIN s : i < j /\ s[i] = s[j]
Wanted == CHOOSE s \in expect.equals : TRUE

ReadInv ==
  /\ expect \in Expectations
  /\ stream \in Seq(Values)
  /\ rows \in Seq(Values)
  /\ Starts(rows, stream)
  /\ duplicate \in BOOLEAN
  /\ duplicate => Repeats(rows)
  /\ missing = (UNION expect.contains) \ Elements(rows)
  /\ left \in [Values -> Int]
  /\ expect.equals # {} => \A v \in Values : left[v] = Count(v, Wanted) - Count(v, rows)
  /\ read = "stopped" => Passes(rows, FALSE) = Passes(stream, TRUE)
  /\ read = "ended" => rows = stream

------------------------------------------------------------------------------
(* Counting rows                                                           *)
LEMMA Places ==
  ASSUME NEW s \in Seq(Values), NEW v
  PROVE  /\ IsFiniteSet({i \in DOMAIN s : s[i] = v})
         /\ Count(v, s) \in Nat
<1>1. DOMAIN s = 1..Len(s) /\ Len(s) \in Int
  OBVIOUS
<1>2. IsFiniteSet(DOMAIN s)
  BY <1>1, FS_Interval
<1>3. IsFiniteSet({i \in DOMAIN s : s[i] = v})
  BY <1>2, FS_Subset
<1> QED
  BY <1>3, FS_CardinalityType DEF Count

LEMMA OneMore ==
  ASSUME NEW s \in Seq(Values), NEW w \in Values, NEW v
  PROVE  Count(v, Append(s, w)) = Count(v, s) + (IF v = w THEN 1 ELSE 0)
<1> DEFINE before == {i \in DOMAIN s : s[i] = v}
           after == {i \in DOMAIN Append(s, w) : Append(s, w)[i] = v}
           last == Len(s) + 1
<1>1. /\ DOMAIN s = 1..Len(s) /\ DOMAIN Append(s, w) = 1..last
      /\ Append(s, w)[last] = w /\ \A i \in DOMAIN s : Append(s, w)[i] = s[i]
      /\ Len(s) \in Nat
  OBVIOUS
<1>2. IsFiniteSet(before) /\ Cardinality(before) \in Nat /\ last \notin before
  <2>1. last \notin DOMAIN s
    BY <1>1
  <2> QED
    BY <2>1, Places, FS_CardinalityType
<1>5. Count(v, s) = Cardinality(before) /\ Count(v, Append(s, w)) = Cardinality(after)
  BY DEF Count
<1>3. CASE v = w
  <2>1. after = before \cup {last}
    BY <1>1, <1>3
  <2> HIDE DEF before, after
  <2> QED
    BY <1>2, <1>3, <1>5, <2>1, FS_AddElement
<1>4. CASE v # w
  <2>1. after = before
    BY <1>1, <1>4
  <2> HIDE DEF before, after
  <2> QED
    BY <1>2, <1>4, <1>5, <2>1
<1> QED
  BY <1>3, <1>4

LEMMA MoreInMore ==
  ASSUME NEW s \in Seq(Values), NEW t \in Seq(Values), Starts(s, t), NEW v
  PROVE  Count(v, s) <= Count(v, t) /\ Elements(s) \subseteq Elements(t)
<1>1. DOMAIN s \subseteq DOMAIN t /\ \A i \in DOMAIN s : s[i] = t[i]
  BY DEF Starts
<1>2. {i \in DOMAIN s : s[i] = v} \subseteq {i \in DOMAIN t : t[i] = v}
  BY <1>1
<1>3. Count(v, s) <= Count(v, t)
  BY <1>2, Places, FS_Subset DEF Count
<1> QED
  BY <1>1, <1>3 DEF Elements

LEMMA RepeatedIsNotUnique ==
  ASSUME NEW s \in Seq(Values), Repeats(s)
  PROVE  ~IsUnique(s)
<1>1. DOMAIN s = 1..Len(s) /\ Len(s) \in Nat
  OBVIOUS
<1>2. IsFiniteSet(DOMAIN s) /\ Cardinality(DOMAIN s) = Len(s)
  BY <1>1, FS_Interval
<1>3. s \in Surjection(DOMAIN s, Elements(s))
  <2>1. s \in [DOMAIN s -> Elements(s)]
    BY DEF Elements
  <2> QED
    BY <2>1 DEF Surjection, Elements
<1>4. s \notin Injection(DOMAIN s, Elements(s))
  BY <1>1 DEF Injection, IsInjective, Repeats
<1>5. Cardinality(Elements(s)) # Cardinality(DOMAIN s)
  BY <1>2, <1>3, <1>4, FS_Surjection
<1> QED
  BY <1>2, <1>5 DEF IsUnique

LEMMA RepeatsStay ==
  ASSUME NEW s \in Seq(Values), NEW t \in Seq(Values), Starts(s, t), Repeats(s)
  PROVE  Repeats(t)
<1>1. DOMAIN s \subseteq DOMAIN t /\ \A i \in DOMAIN s : s[i] = t[i]
  BY DEF Starts
<1> QED
  BY <1>1 DEF Repeats

------------------------------------------------------------------------------
(* Each thing that refutes an assertion refutes it for the whole result,   *)
(* and what passes early passes there.                                     *)
LEMMA RefutedForGood ==
  ASSUME ReadInv, NEW row \in Values, NEW again \in BOOLEAN,
         Starts(Append(rows, row), stream),
         again => Repeats(Append(rows, row)),
         RefutedBy(row, again)
  PROVE  ~Passes(Append(rows, row), FALSE) /\ ~Passes(stream, TRUE)
<1> DEFINE s == Append(rows, row)
<1>1. s \in Seq(Values) /\ stream \in Seq(Values) /\ Len(s) = Len(rows) + 1 /\ Len(rows) \in Nat
      /\ Len(s) <= Len(stream) /\ Len(stream) \in Nat
  BY DEF ReadInv, Starts
<1>2. CASE \E b \in expect.rows : Exceeds(b, Len(rows) + 1)
  <2>1. PICK b \in expect.rows : \E k \in b.max \cup b.exactly : Len(s) > k
    BY <1>1, <1>2 DEF Exceeds
  <2>2. b \in Bounds
    BY CompetencyAssumption DEF ReadInv
  <2>3. PICK k \in b.max \cup b.exactly : k \in Nat /\ Len(s) > k /\ Len(stream) > k
    BY <1>1, <2>1, <2>2 DEF Bounds
  <2>4. RowsFail(s, FALSE) /\ RowsFail(stream, TRUE)
    BY <2>3 DEF RowsFail
  <2> QED
    BY <2>4 DEF Passes
<1>3. CASE TRUE \in expect.empty
  <2>1. s # <<>> /\ stream # <<>>
    BY <1>1
  <2> QED
    BY <1>3, <2>1 DEF Passes
<1>4. CASE "other" \in expect.columns
  BY <1>4 DEF Passes
<1>5. CASE TRUE \in expect.unique /\ again
  <2>1. ~IsUnique(s) /\ ~IsUnique(stream)
    BY <1>1, <1>5, RepeatedIsNotUnique, RepeatsStay
  <2>2. expect.unique = {TRUE}
    BY <1>5, CompetencyAssumption DEF ReadInv
  <2>3. UniquenessFails(s, FALSE) /\ UniquenessFails(stream, TRUE)
    BY <2>1, <2>2 DEF UniquenessFails, IsUnique
  <2> QED
    BY <2>3 DEF Passes
<1>6. CASE expect.equals # {} /\ left[row] <= 0
  <2>1. Wanted \in expect.equals /\ Wanted \in Seq(Values)
    BY <1>6, CompetencyAssumption DEF Wanted, ReadInv
  <2>2. left[row] = Count(row, Wanted) - Count(row, rows)
    BY <1>6 DEF ReadInv
  <2>3. Count(row, s) = Count(row, rows) + 1
    BY OneMore DEF ReadInv
  <2>4. Count(row, s) <= Count(row, stream)
    BY <1>1, MoreInMore
  <2>5. Count(row, rows) \in Nat /\ Count(row, Wanted) \in Nat /\ Count(row, s) \in Nat /\ Count(row, stream) \in Nat
    BY <1>1, <2>1, Places DEF ReadInv
  <2>6. Count(row, s) > Count(row, Wanted) /\ Count(row, stream) > Count(row, Wanted)
    BY <1>6, <2>2, <2>3, <2>4, <2>5
  <2>7. EqualsFails(s, FALSE) /\ EqualsFails(stream, TRUE)
    BY <2>1, <2>6 DEF EqualsFails
  <2> QED
    BY <2>7 DEF Passes
<1> QED
  BY <1>2, <1>3, <1>4, <1>5, <1>6 DEF RefutedBy

LEMMA PassedForGood ==
  ASSUME ReadInv, NEW row \in Values, NEW again \in BOOLEAN,
         Starts(Append(rows, row), stream),
         again => Repeats(Append(rows, row)),
         AllPassEarly(missing \ {row}, again)
  PROVE  Passes(Append(rows, row), FALSE) /\ Passes(stream, TRUE)
<1> DEFINE s == Append(rows, row)
<1>1. s \in Seq(Values) /\ stream \in Seq(Values) /\ Len(s) = Len(rows) + 1 /\ Len(rows) \in Nat
      /\ Len(s) <= Len(stream) /\ Len(stream) \in Nat
  BY DEF ReadInv, Starts
<1>2. ~RowsFail(s, FALSE) /\ ~RowsFail(stream, TRUE)
  <2>1. \A b \in expect.rows : b \in Bounds
    BY CompetencyAssumption DEF ReadInv
  <2>2. \A b \in expect.rows :
          b.exactly = {} /\ b.max = {} /\ \A k \in b.min : k \in Nat /\ Len(s) >= k /\ Len(stream) >= k
    BY <1>1, <2>1 DEF AllPassEarly, RowsPassEarly, Bounds
  <2> QED
    BY <1>1, <2>2 DEF RowsFail
<1>3. ~UniquenessFails(s, FALSE) /\ ~UniquenessFails(stream, TRUE)
  <2>1. CASE expect.unique = {}
    BY <2>1 DEF UniquenessFails
  <2>2. CASE FALSE \in expect.unique /\ again
    <3>1. ~IsUnique(s) /\ ~IsUnique(stream)
      BY <1>1, <2>2, RepeatedIsNotUnique, RepeatsStay
    <3>2. IsUnique(s) = FALSE /\ IsUnique(stream) = FALSE
      BY <3>1 DEF IsUnique
    <3> QED
      BY <2>2, <3>2 DEF UniquenessFails
  <2> QED
    BY <2>1, <2>2 DEF AllPassEarly
<1>4. expect.columns \subseteq {"same"} /\ expect.empty \subseteq {FALSE} /\ expect.equals = {}
  BY DEF AllPassEarly
<1>5. s # <<>> /\ stream # <<>>
  BY <1>1
<1>6. ~ContainsFails(s, FALSE) /\ ~ContainsFails(stream, TRUE)
  <2>1. UNION expect.contains \subseteq Elements(rows) \cup {row}
    <3> DEFINE all == UNION expect.contains
    <3>1. missing \ {row} = {}
      BY DEF AllPassEarly
    <3>2. missing = all \ Elements(rows)
      BY DEF ReadInv
    <3> HIDE DEF all
    <3>3. all \subseteq Elements(rows) \cup {row}
      BY <3>1, <3>2
    <3> QED
      BY <3>3 DEF all
  <2>2. Elements(rows) \cup {row} \subseteq Elements(s)
    <3>1. DOMAIN s = 1..Len(s) /\ DOMAIN rows = 1..Len(rows) /\ s[Len(s)] = row
          /\ \A i \in DOMAIN rows : s[i] = rows[i]
      BY DEF ReadInv
    <3> QED
      BY <1>1, <3>1 DEF Elements
  <2>3. Elements(s) \subseteq Elements(stream)
    BY <1>1, MoreInMore
  <2> QED
    BY <2>1, <2>2, <2>3 DEF ContainsFails
<1>7. ~EqualsFails(s, FALSE) /\ ~EqualsFails(stream, TRUE)
  BY <1>4 DEF EqualsFails
<1> QED
  BY <1>2, <1>3, <1>4, <1>5, <1>6, <1>7 DEF Passes

------------------------------------------------------------------------------
LEMMA ReadAtFirst == CompetencyInit => ReadInv
<1> SUFFICES ASSUME CompetencyInit PROVE ReadInv
  OBVIOUS
<1>1. expect \in Expectations /\ rows = <<>> /\ duplicate = FALSE /\ read = "reading"
  BY DEF CompetencyInit
<1>2. stream \in Seq(Values)
  BY CompetencyAssumption DEF CompetencyInit, Streams
<1>3. rows \in Seq(Values) /\ Starts(rows, stream)
  BY <1>1, <1>2 DEF Starts
<1>4. missing = (UNION expect.contains) \ Elements(rows)
  BY <1>1 DEF CompetencyInit, Elements
<1>5. \A v \in Values : Count(v, rows) = 0
  BY <1>1, FS_EmptySet DEF Count
<1>6. expect.equals # {} => Wanted \in Seq(Values)
  BY <1>1, CompetencyAssumption DEF Wanted
<1>7. left \in [Values -> Int]
      /\ (expect.equals # {} => \A v \in Values : left[v] = Count(v, Wanted) - Count(v, rows))
  <2>1. left = [v \in Values |-> IF expect.equals = {} THEN 0 ELSE Count(v, Wanted)]
    BY DEF CompetencyInit, Wanted
  <2>2. expect.equals # {} => \A v \in Values : Count(v, Wanted) \in Nat
    BY <1>6, Places
  <2> QED
    BY <1>5, <2>1, <2>2
<1> QED
  BY <1>1, <1>2, <1>3, <1>4, <1>7 DEF ReadInv

LEMMA ReadKept == ReadInv /\ [CompetencyNext]_competency => ReadInv'
<1> SUFFICES ASSUME ReadInv, [CompetencyNext]_competency PROVE ReadInv'
  OBVIOUS
<1>1. CASE Read
  <2> DEFINE row == stream[Len(rows) + 1]
             again == expect.unique # {} /\ (duplicate \/ row \in Elements(rows))
  <2>1. row \in Values /\ again \in BOOLEAN
    BY <1>1 DEF Read, More, ReadInv
  <2>2. Starts(Append(rows, row), stream) /\ Append(rows, row) \in Seq(Values)
    BY <1>1 DEF Read, More, ReadInv, Starts
  <2>3. again => Repeats(Append(rows, row))
    <3>1. CASE duplicate
      <4>1. Starts(rows, Append(rows, row))
        BY <2>1 DEF ReadInv, Starts
      <4> QED
        BY <2>2, <3>1, <4>1, RepeatsStay DEF ReadInv
    <3>2. CASE row \in Elements(rows)
      <4>1. PICK i \in DOMAIN rows : rows[i] = row
        BY <3>2 DEF Elements
      <4>2. i \in 1..Len(rows) /\ Append(rows, row)[i] = row /\ Append(rows, row)[Len(rows) + 1] = row
            /\ DOMAIN Append(rows, row) = 1..Len(rows) + 1 /\ Len(rows) \in Nat
        BY <2>1, <4>1 DEF ReadInv
      <4> QED
        BY <4>2 DEF Repeats
    <3> QED
      BY <3>1, <3>2
  <2>4. /\ rows' = Append(rows, row) /\ duplicate' = again /\ missing' = missing \ {row}
        /\ left' = IF expect.equals = {} THEN left ELSE [left EXCEPT ![row] = @ - 1]
        /\ read' = IF RefutedBy(row, again) \/ AllPassEarly(missing \ {row}, again) THEN "stopped" ELSE "reading"
        /\ UNCHANGED <<expect, stream>>
    BY <1>1 DEF Read
  <2> HIDE DEF row, again
  <2>5. missing' = (UNION expect'.contains) \ Elements(rows')
    <3>1. Elements(Append(rows, row)) = Elements(rows) \cup {row}
      <4>1. DOMAIN Append(rows, row) = 1..Len(rows) + 1 /\ DOMAIN rows = 1..Len(rows) /\ Len(rows) \in Nat
            /\ Append(rows, row)[Len(rows) + 1] = row /\ \A i \in DOMAIN rows : Append(rows, row)[i] = rows[i]
        BY <2>1 DEF ReadInv
      <4>2. DOMAIN Append(rows, row) = DOMAIN rows \cup {Len(rows) + 1}
        BY <4>1
      <4> QED
        BY <4>1, <4>2 DEF Elements
    <3> DEFINE all == UNION expect.contains
    <3>2. missing = all \ Elements(rows)
      BY DEF ReadInv
    <3>3. missing' = missing \ {row} /\ rows' = Append(rows, row) /\ expect' = expect
      BY <2>4
    <3> HIDE DEF all
    <3>4. missing' = all \ Elements(rows')
      BY <3>1, <3>2, <3>3
    <3> QED
      BY <3>3, <3>4 DEF all
  <2>6. left' \in [Values -> Int]
        /\ (expect'.equals # {} => \A v \in Values : left'[v] = Count(v, Wanted') - Count(v, rows'))
    <3>1. CASE expect.equals = {}
      BY <2>4, <3>1 DEF ReadInv
    <3>2. CASE expect.equals # {}
      <4>1. Wanted' = Wanted
        BY <2>4 DEF Wanted
      <4>2. Wanted \in Seq(Values)
        BY <3>2, CompetencyAssumption DEF Wanted, ReadInv
      <4>3. \A v \in Values : Count(v, Wanted) \in Nat /\ Count(v, rows) \in Nat
        BY <4>2, Places DEF ReadInv
      <4>4. left' = [left EXCEPT ![row] = left[row] - 1] /\ left \in [Values -> Int]
        BY <2>4, <3>2 DEF ReadInv
      <4>5. \A v \in Values : left[v] = Count(v, Wanted) - Count(v, rows)
        BY <3>2 DEF ReadInv
      <4>6. \A v \in Values : Count(v, rows') = Count(v, rows) + (IF v = row THEN 1 ELSE 0)
        BY <2>1, <2>4, OneMore DEF ReadInv
      <4> QED
        BY <2>1, <4>1, <4>3, <4>4, <4>5, <4>6
    <3> QED
      BY <3>1, <3>2
  <2>7. RefutedBy(row, again) => ~Passes(rows', FALSE) /\ ~Passes(stream, TRUE)
    BY <2>1, <2>2, <2>3, <2>4, RefutedForGood
  <2>8. AllPassEarly(missing \ {row}, again) => Passes(rows', FALSE) /\ Passes(stream, TRUE)
    BY <2>1, <2>2, <2>3, <2>4, PassedForGood
  <2>9. read' = "stopped" => Passes(rows, FALSE)' = Passes(stream, TRUE)'
    <3>1. read' = "stopped" => Passes(rows', FALSE) = Passes(stream, TRUE)
      BY <2>4, <2>7, <2>8 DEF Passes
    <3> QED
      BY <2>4, <3>1 DEF Passes, RowsFail, UniquenessFails, ContainsFails, EqualsFails
  <2>10. read' # "ended"
    BY <2>4
  <2> QED
    BY <2>1, <2>2, <2>3, <2>4, <2>5, <2>6, <2>9, <2>10 DEF ReadInv
<1>2. CASE Overflow
  BY <1>2 DEF Overflow, ReadInv, Wanted
<1>3. CASE End
  <2>1. rows = stream
    BY <1>3 DEF End, ReadInv, Starts
  <2> QED
    BY <1>3, <2>1 DEF End, ReadInv, Wanted
<1>4. CASE UNCHANGED competency
  BY <1>4 DEF competency, ReadInv, Wanted, Passes, RowsFail, UniquenessFails, ContainsFails, EqualsFails
<1> QED
  BY <1>1, <1>2, <1>3, <1>4 DEF CompetencyNext

(* A stop keeps a pass a pass and anything else anything else, and may     *)
(* cost a failure its evidence but never lend it any, for any rows,        *)
(* pointers, expectations that a suite may declare, ceiling and length     *)
(* (engine/evaluator.py:37-126, 522-627, 1033).                            *)
THEOREM StoppingEarlyIsFinal == CompetencySpec => []EarlyVerdictIsFinal
<1>1. ReadInv => EarlyVerdictIsFinal
  <2> SUFFICES ASSUME ReadInv PROVE EarlyVerdictIsFinal
    OBVIOUS
  <2>1. read = "ended" => rows = stream
    BY DEF ReadInv
  <2>2. ASSUME read = "stopped", NEW pointed \in SUBSET Values, NEW params \in BOOLEAN
        PROVE  LET early == Verdict(rows, FALSE, pointed, params)
                   whole == Verdict(stream, TRUE, pointed, params)
               IN  early = whole \/ (early = "evidence_missing" /\ whole = "fail")
    <3>1. Passes(rows, FALSE) <=> Passes(stream, TRUE)
      BY <2>2 DEF ReadInv
    <3>2. Elements(rows) \subseteq Elements(stream)
      BY MoreInMore DEF ReadInv
    <3> QED
      BY <3>1, <3>2 DEF Verdict
  <2> QED
    BY <2>1, <2>2 DEF EarlyVerdictIsFinal
<1>2. ReadInv /\ [CompetencyNext]_competency => ReadInv'
  BY ReadKept
<1>3. CompetencyInit => ReadInv
  BY ReadAtFirst
<1> QED
  BY <1>1, <1>2, <1>3, PTL DEF CompetencySpec

------------------------------------------------------------------------------
(* Baselines: for any writers, workers, references and horizon of time.    *)
Texts == Writers \cup {"invalid"}

StoreInv ==
  /\ files \in [Instants -> Writers \cup {NoFile}]
  /\ stamp \in [Writers -> 0..Horizon]
  /\ pin \in 0..Horizon
  /\ setting \in 0..Horizon
  /\ diffing \in [stage : {"listing", "pin", "missing", "resolved"}, listed : SUBSET Instants,
                  current : 0..Horizon, latest : 0..Horizon]
  /\ diffing.stage = "pin" => Cardinality(diffing.listed) >= 2

(* What a reference stands for is remembered with the first answer, and so *)
(* is what was read there; one worker at a time reads, and only what is    *)
(* not known yet.                                                          *)
Text(known, path) == IF path = MissingPath THEN "missing" ELSE known[path]

Reading(k, r) == answers[k][r] = "reading"

RunInv ==
  /\ paths \in [Refs -> {NoPath, MissingPath} \cup Instants]
  /\ sources \in [Instants -> Texts \cup {"unread"}]
  /\ answers \in [Workers -> [Refs -> Texts \cup {"missing", "unasked", "reading"}]]
  /\ \A k \in Workers, r \in Refs :
       Served(k, r) =>
         /\ paths[r] # NoPath
         /\ answers[k][r] = Text(sources, paths[r])
         /\ paths[r] # MissingPath => sources[paths[r]] # "unread"
  /\ \A k \in Workers, r \in Refs :
       Reading(k, r) =>
         /\ paths[r] \in Instants /\ sources[paths[r]] = "unread"
         /\ \A j \in Workers, q \in Refs : Reading(j, q) => j = k /\ q = r

LEMMA SetsOfTimes ==
  ASSUME NEW S \in SUBSET Instants
  PROVE  IsFiniteSet(S) /\ Cardinality(S) \in Nat /\ \A n \in S : n \in Int
<1>1. IsFiniteSet(Instants) /\ \A n \in Instants : n \in Int
  BY BaselinesAssumption, FS_Interval DEF Instants
<1>2. IsFiniteSet(S)
  BY <1>1, FS_Subset
<1> QED
  BY <1>1, <1>2, FS_CardinalityType

(* The newest of a set of times, as the largest of them: the set of those  *)
(* no older than a time is smallest for the newest.                        *)
LEMMA MaxExists ==
  ASSUME NEW S \in SUBSET Instants, S # {}
  PROVE  Max(S) \in S /\ \A n \in S : n <= Max(S)
<1> DEFINE Since(n) == {m \in S : n <= m}
           Tails == {Since(n) : n \in S}
<1>1. IsFiniteSet(S) /\ \A n \in S : n \in Int
  BY SetsOfTimes
<1>2. Tails \subseteq FiniteSubsetsOf(S) /\ Tails # {}
  <2>1. \A n \in S : Since(n) \in SUBSET S /\ IsFiniteSet(Since(n))
    BY <1>1, FS_Subset
  <2> QED
    BY <2>1 DEF FiniteSubsetsOf
<1>3. PICK U \in Tails : \A V \in Tails : <<V, U>> \notin StrictSubsetOrdering(S)
  <2> HIDE DEF Tails
  <2> QED
    BY <1>2, FS_StrictSubsetOrderingWellFounded, WFMin
<1>4. PICK newest \in S : U = Since(newest)
  OBVIOUS
<1>5. ASSUME NEW n \in S, ~(n <= newest) PROVE FALSE
  <2>1. Since(n) \subseteq Since(newest)
    <3>1. \A m \in Int : n <= m => newest <= m
      BY <1>1, <1>5
    <3> QED
      BY <1>1, <3>1
  <2>2. newest \in Since(newest) /\ newest \notin Since(n)
    BY <1>1, <1>5
  <2>3. <<Since(n), U>> \in StrictSubsetOrdering(S)
    <3>1. Since(n) \in SUBSET S /\ U \in SUBSET S /\ Since(n) # U /\ Since(n) \subseteq U
      BY <1>4, <2>1, <2>2
    <3> QED
      BY <3>1 DEF StrictSubsetOrdering
  <2> QED
    BY <1>3, <2>3
<1>6. \E m \in S : \A n \in S : m >= n
  BY <1>1, <1>5
<1>7. Max(S) \in S /\ \A n \in S : Max(S) >= n
  BY <1>6 DEF Max
<1> QED
  BY <1>1, <1>7

LEMMA PreviousIsOlder ==
  ASSUME NEW S \in SUBSET Instants, Cardinality(S) >= 2
  PROVE  Previous(S) \in S /\ Newest(S) \in S /\ Previous(S) < Newest(S)
<1>1. S # {}
  BY FS_EmptySet
<1>2. S # {Max(S)}
  BY FS_Singleton
<1>3. S \ {Max(S)} # {} /\ Max(S) \in S /\ \A n \in S : n <= Max(S)
  BY <1>1, <1>2, MaxExists
<1> DEFINE rest == S \ {Max(S)}
<1>4. Max(rest) \in rest
  <2>1. rest \in SUBSET Instants /\ rest # {}
    BY <1>3
  <2> HIDE DEF rest
  <2> QED
    BY <2>1, MaxExists
<1>5. \A n \in S : n \in Int
  BY DEF Instants
<1> QED
  BY <1>3, <1>4, <1>5 DEF Previous, Newest

LEMMA BooksAtFirst == BaselinesInit => StoreInv /\ RunInv
BY BaselinesAssumption DEF BaselinesInit, StoreInv, RunInv, Served, Reading, Instants, NoPath

LEMMA StoreKept == StoreInv /\ [BaselinesNext]_books => StoreInv'
<1> SUFFICES ASSUME StoreInv, [BaselinesNext]_books PROVE StoreInv'
  OBVIOUS
<1> USE BaselinesAssumption DEF StoreInv, store, pinning, run, Instants
<1>1. CASE \E w \in Writers : Stage(w)
  BY <1>1 DEF Stage
<1>2. ASSUME NEW w \in Writers, Link(w) PROVE StoreInv'
  BY <1>2 DEF Link
<1>3. CASE \E w \in Writers : Unstage(w) \/ Die(w)
  BY <1>3 DEF Unstage, Die
<1>4. CASE \E n \in Instants : RemoveByHand(n)
  BY <1>4 DEF RemoveByHand
<1>5. CASE SelectCurrent
  <2>1. Visible \in SUBSET Instants /\ Visible # {}
    BY <1>5 DEF SelectCurrent, Visible
  <2>2. Newest(Visible) \in Instants
    BY <2>1, MaxExists DEF Newest
  <2>3. Cardinality(Visible) # 1 => Previous(Visible) \in Instants
    <3>1. IsFiniteSet(Visible) /\ Cardinality(Visible) \in Nat
      BY <2>1, SetsOfTimes
    <3>2. Cardinality(Visible) # 1 => Cardinality(Visible) >= 2
      BY <2>1, <3>1, FS_EmptySet
    <3> QED
      BY <2>1, <3>2, PreviousIsOlder
  <2>4. setting' \in Instants
    BY <1>5, <2>1, <2>2, <2>3 DEF SelectCurrent
  <2> QED
    BY <1>5, <2>4 DEF SelectCurrent
<1>9. CASE WritePin
  BY <1>9 DEF WritePin
<1>6. CASE ListForDiff
  <2>1. Visible \in SUBSET Instants /\ Cardinality(Visible) \in Nat
    BY SetsOfTimes DEF Visible
  <2>2. diffing' = [diffing EXCEPT !.listed = Visible, !.stage = diffing'.stage]
        /\ diffing'.stage \in {"missing", "pin"} /\ diffing'.listed = Visible
        /\ (diffing'.stage = "pin" => ~(Cardinality(Visible) < 2))
    BY <1>6 DEF ListForDiff
  <2>3. UNCHANGED <<files, stamp, pin, setting>>
    BY <1>6 DEF ListForDiff
  <2>4. diffing' \in [stage : {"listing", "pin", "missing", "resolved"}, listed : SUBSET Instants,
                     current : 0..Horizon, latest : 0..Horizon]
    BY <2>1, <2>2
  <2>5. diffing'.stage = "pin" => Cardinality(diffing'.listed) >= 2
    BY <2>1, <2>2
  <2> QED
    BY <2>3, <2>4, <2>5
<1>7. CASE ReadCurrent
  <2>1. Newest(diffing.listed) \in Instants /\ Previous(diffing.listed) \in Instants
    BY <1>7, PreviousIsOlder DEF ReadCurrent
  <2>2. CASE pin # 0 /\ pin \notin Visible
    BY <1>7, <2>2 DEF ReadCurrent
  <2>3. CASE ~(pin # 0 /\ pin \notin Visible)
    <3>1. /\ diffing' = [diffing EXCEPT !.latest = Newest(diffing.listed), !.stage = "resolved",
                                        !.current = IF pin = 0 THEN Previous(diffing.listed) ELSE pin]
          /\ UNCHANGED <<files, stamp, pin, setting>>
      BY <1>7, <2>3 DEF ReadCurrent
    <3> DEFINE newest == Newest(diffing.listed)
               chosen == IF pin = 0 THEN Previous(diffing.listed) ELSE pin
    <3>2. newest \in 0..Horizon /\ chosen \in 0..Horizon
      BY <2>1
    <3>3. diffing' = [diffing EXCEPT !.latest = newest, !.stage = "resolved", !.current = chosen]
      BY <3>1
    <3> HIDE DEF newest, chosen
    <3>4. /\ diffing' \in [stage : {"listing", "pin", "missing", "resolved"}, listed : SUBSET Instants,
                           current : 0..Horizon, latest : 0..Horizon]
          /\ diffing'.stage # "pin"
      BY <3>2, <3>3
    <3> QED
      BY <3>1, <3>4
  <2> QED
    BY <2>2, <2>3
<1>8. CASE Fresh \/ (\E k \in Workers, r \in Refs : Resolve(k, r) \/ ReadSource(k, r)) \/ UNCHANGED books
  BY <1>8 DEF Fresh, Resolve, ChoosePath, ReadSource, books
<1> QED
  BY <1>1, <1>2, <1>3, <1>4, <1>5, <1>6, <1>7, <1>8, <1>9 DEF BaselinesNext

LEMMA RunKept == StoreInv /\ RunInv /\ [BaselinesNext]_books => RunInv'
<1> SUFFICES ASSUME StoreInv, RunInv, [BaselinesNext]_books PROVE RunInv'
  OBVIOUS
<1>1. ASSUME NEW k \in Workers, NEW r \in Refs, Resolve(k, r) PROVE RunInv'
  <2> DEFINE path == PathInRun(r)
             known == {n \in Instants : sources[n] # "unread"}
             answer == IF path = MissingPath THEN "missing"
                       ELSE IF path \in known THEN sources[path] ELSE "reading"
  <2>1. path \in {MissingPath} \cup Instants
    <3>1. Visible \in SUBSET Instants
      BY DEF Visible
    <3>2. Visible # {} => Newest(Visible) \in Instants
      BY <3>1, MaxExists DEF Newest
    <3>3. PathFor(r) \in {MissingPath} \cup Instants
      BY <3>1, <3>2 DEF PathFor
    <3>4. paths[r] # NoPath => paths[r] \in {MissingPath} \cup Instants
      BY DEF RunInv
    <3> QED
      BY <3>3, <3>4 DEF PathInRun
  <2>2. path # NoPath /\ (paths[r] # NoPath => path = paths[r])
    BY <2>1 DEF NoPath, MissingPath, Instants, PathInRun
  <2>3. answer \in Texts \cup {"missing", "reading"}
    BY <2>1 DEF RunInv
  <2>4. answer = "reading" => path \in Instants /\ sources[path] = "unread"
    BY <2>1, BaselinesAssumption DEF RunInv, Texts
  <2>5. answer # "reading" => /\ answer = Text(sources, path)
                              /\ path # MissingPath => sources[path] # "unread"
    BY <2>1 DEF Text
  <2> HIDE DEF path, known, answer
  <2>6. /\ LockIsFree /\ answers[k][r] = "unasked"
        /\ paths' = [paths EXCEPT ![r] = path]
        /\ answers' = [answers EXCEPT ![k][r] = answer]
        /\ sources' = sources
    BY <1>1 DEF Resolve, ChoosePath, path, known, answer
  <2>7. /\ paths' \in [Refs -> {NoPath, MissingPath} \cup Instants]
        /\ sources' \in [Instants -> Texts \cup {"unread"}]
        /\ answers' \in [Workers -> [Refs -> Texts \cup {"missing", "unasked", "reading"}]]
    BY <2>1, <2>3, <2>6 DEF RunInv
  <2>8. /\ answers'[k][r] = answer /\ paths'[r] = path
        /\ \A j \in Workers, q \in Refs : ~(j = k /\ q = r) => answers'[j][q] = answers[j][q]
        /\ \A q \in Refs : paths[q] # NoPath => paths'[q] = paths[q]
    BY <2>2, <2>6 DEF RunInv
  <2>9. ASSUME NEW j \in Workers, NEW q \in Refs, answers'[j][q] \notin {"unasked", "reading"}
        PROVE  /\ paths'[q] # NoPath
               /\ answers'[j][q] = Text(sources', paths'[q])
               /\ paths'[q] # MissingPath => sources'[paths'[q]] # "unread"
    <3>1. CASE j = k /\ q = r
      BY <2>2, <2>5, <2>6, <2>8, <2>9, <3>1
    <3>2. CASE ~(j = k /\ q = r)
      <4>1. Served(j, q)
        BY <2>8, <2>9, <3>2 DEF Served
      <4>2. paths[q] # NoPath /\ answers[j][q] = Text(sources, paths[q])
            /\ (paths[q] # MissingPath => sources[paths[q]] # "unread")
        BY <4>1 DEF RunInv
      <4> QED
        BY <2>6, <2>8, <3>2, <4>2
    <3> QED
      BY <3>1, <3>2
  <2>10. ASSUME NEW j \in Workers, NEW q \in Refs, answers'[j][q] = "reading"
         PROVE  /\ j = k /\ q = r
                /\ paths'[q] \in Instants /\ sources'[paths'[q]] = "unread"
    <3>1. j = k /\ q = r
      BY <2>6, <2>8, <2>10 DEF LockIsFree
    <3> QED
      BY <2>4, <2>6, <2>8, <2>10, <3>1
  <2> QED
    BY <2>7, <2>9, <2>10 DEF RunInv, Served, Reading
<1>5. ASSUME NEW k \in Workers, NEW r \in Refs, ReadSource(k, r) PROVE RunInv'
  <2> DEFINE path == paths[r]
             text == IF files[paths[r]] = NoFile THEN "invalid" ELSE files[paths[r]]
  <2>1. path \in Instants /\ sources[path] = "unread"
        /\ \A j \in Workers, q \in Refs : Reading(j, q) => j = k /\ q = r
    BY <1>5 DEF ReadSource, RunInv, Reading
  <2>2. text \in Texts /\ text \notin {"unread", "unasked", "reading"}
    BY <2>1, BaselinesAssumption DEF StoreInv, Texts
  <2> HIDE DEF text, path
  <2>3. /\ sources' = [sources EXCEPT ![path] = text]
        /\ answers' = [answers EXCEPT ![k][r] = text]
        /\ paths' = paths /\ path = paths[r]
    BY <1>5 DEF ReadSource, text, path
  <2>4. /\ paths' \in [Refs -> {NoPath, MissingPath} \cup Instants]
        /\ sources' \in [Instants -> Texts \cup {"unread"}]
        /\ answers' \in [Workers -> [Refs -> Texts \cup {"missing", "unasked", "reading"}]]
    BY <2>2, <2>3 DEF RunInv
  <2>5. /\ answers'[k][r] = text /\ sources'[path] = text
        /\ \A j \in Workers, q \in Refs : ~(j = k /\ q = r) => answers'[j][q] = answers[j][q]
        /\ \A n \in Instants : n # path => sources'[n] = sources[n]
    BY <2>1, <2>3 DEF RunInv
  <2>6. ASSUME NEW j \in Workers, NEW q \in Refs, answers'[j][q] \notin {"unasked", "reading"}
        PROVE  /\ paths'[q] # NoPath
               /\ answers'[j][q] = Text(sources', paths'[q])
               /\ paths'[q] # MissingPath => sources'[paths'[q]] # "unread"
    <3>1. CASE j = k /\ q = r
      <4>1. path # NoPath /\ path # MissingPath
        BY <2>1 DEF Instants, NoPath, MissingPath
      <4> QED
        BY <2>2, <2>3, <2>5, <3>1, <4>1 DEF Text
    <3>2. CASE ~(j = k /\ q = r)
      <4>1. Served(j, q)
        BY <2>5, <2>6, <3>2 DEF Served
      <4>2. paths[q] # NoPath /\ answers[j][q] = Text(sources, paths[q])
            /\ (paths[q] # MissingPath => sources[paths[q]] # "unread")
            /\ paths[q] \in {NoPath, MissingPath} \cup Instants
        BY <4>1 DEF RunInv
      <4>3. paths[q] # MissingPath => sources'[paths[q]] = sources[paths[q]]
        BY <2>1, <2>5, <4>2
      <4> QED
        BY <2>3, <2>5, <3>2, <4>2, <4>3 DEF Text
    <3> QED
      BY <3>1, <3>2
  <2>7. ASSUME NEW j \in Workers, NEW q \in Refs PROVE answers'[j][q] # "reading"
    BY <2>1, <2>2, <2>5 DEF Reading
  <2> QED
    BY <2>4, <2>6, <2>7 DEF RunInv, Served, Reading
<1>2. CASE Fresh
  BY <1>2 DEF Fresh, RunInv, Served, Reading
<1>3. CASE UNCHANGED run
  BY <1>3 DEF run, RunInv, Text, Served, Reading
<1>4. ASSUME ~Fresh, ~\E k \in Workers, r \in Refs : Resolve(k, r) \/ ReadSource(k, r) PROVE UNCHANGED run
  BY <1>4 DEF BaselinesNext, Stage, Link, Unstage, Die, RemoveByHand, SelectCurrent, WritePin, ListForDiff, ReadCurrent, books
<1> QED
  BY <1>1, <1>2, <1>3, <1>4, <1>5

------------------------------------------------------------------------------
(* All checks of a run that name one baseline are measured against the same*)
(* snapshot, whatever happens to the files meanwhile (engine/baseline.py). *)
THEOREM RunsSeeOneBaseline == BaselinesSpec => []RunSeesOneBaseline
<1>1. StoreInv /\ RunInv => RunSeesOneBaseline
  BY DEF RunSeesOneBaseline, RunInv
<1>2. StoreInv /\ RunInv /\ [BaselinesNext]_books => (StoreInv /\ RunInv)'
  BY StoreKept, RunKept
<1>3. BaselinesInit => StoreInv /\ RunInv
  BY BooksAtFirst
<1> QED
  BY <1>1, <1>2, <1>3, PTL DEF BaselinesSpec

(* A published snapshot keeps its content for as long as it is there, and  *)
(* a diff follows a pin only to a snapshot that is there, with the newest  *)
(* of one listing on the other side (baselines.py:53-222).                 *)
LEMMA SnapshotsKept == StoreInv /\ [BaselinesNext]_books => [SnapshotsArePermanent /\ DiffPinIsChecked]_books
<1> SUFFICES ASSUME StoreInv, BaselinesNext PROVE SnapshotsArePermanent /\ DiffPinIsChecked
  OBVIOUS
<1> USE DEF StoreInv
<1>1. SnapshotsArePermanent
  <2>1. CASE \E w \in Writers : Link(w)
    BY <2>1 DEF Link, SnapshotsArePermanent
  <2>2. CASE \E n \in Instants : RemoveByHand(n)
    BY <2>2 DEF RemoveByHand, SnapshotsArePermanent
  <2>3. CASE UNCHANGED files
    BY <2>3 DEF SnapshotsArePermanent
  <2> QED
    BY <2>1, <2>2, <2>3
    DEF BaselinesNext, Stage, Unstage, Die, SelectCurrent, WritePin, ListForDiff, ReadCurrent, Resolve, ChoosePath, ReadSource, Fresh, store
<1>2. DiffPinIsChecked
  <2> SUFFICES ASSUME diffing.stage = "pin", diffing'.stage = "resolved"
               PROVE  /\ diffing'.latest = Newest(diffing.listed)
                      /\ IF pin # 0 THEN diffing'.current \in Visible ELSE diffing'.current < diffing'.latest
    BY DEF DiffPinIsChecked
  <2>1. diffing' # diffing
    OBVIOUS
  <2>2. ReadCurrent
    BY <2>1 DEF BaselinesNext, Stage, Link, Unstage, Die, RemoveByHand, SelectCurrent, WritePin, ListForDiff, Resolve, ChoosePath, ReadSource, Fresh
  <2>3. ~(pin # 0 /\ pin \notin Visible)
    BY <2>2 DEF ReadCurrent
  <2>4. diffing'.latest = Newest(diffing.listed)
        /\ diffing'.current = IF pin = 0 THEN Previous(diffing.listed) ELSE pin
    BY <2>2, <2>3 DEF ReadCurrent
  <2>5. Previous(diffing.listed) < Newest(diffing.listed)
    BY PreviousIsOlder
  <2> QED
    BY <2>3, <2>4, <2>5
<1> QED
  BY <1>1, <1>2

------------------------------------------------------------------------------
(* Generation: for any ids, counts, answers and baseline directories.      *)
(* Nothing has been sent before the user is told; what is sent is what was *)
(* told; and each attempt sends at most twice.                             *)
Early == {"config", "baseline", "documents", "client", "disclosure"}

TalkInv ==
    /\ attempt \in {1, 2}
    /\ retried \in BOOLEAN
    /\ sent \in Seq(told)
    /\ transport = "plain" => ~retried
    /\ stage \in Early => sent = << >> /\ attempt = 1 /\ ~retried
    /\ stage = "request" =>
         /\ context \in told
         /\ transport = "plain" => Len(sent) = attempt - 1
         /\ Len(sent) <= 2 * attempt - 1
         /\ ~retried => Len(sent) <= 2 * attempt - 2
    /\ Len(sent) <= 4
    /\ transport = "plain" => Len(sent) <= 2

(* The name the writer may withdraw carries its own suite.                 *)
WriterInv ==
    stage \in {"tidy", "reload"} => trial \in DOMAIN suites /\ suites[trial].by = "us"

(* What is retained is of the ids proposed, no id twice, and no more than  *)
(* was asked for; the writer has something to write; the suite found is    *)
(* the one of the name on trial, from the link on; and the temporary is    *)
(* there while it is written, or after a crash.                            *)
Kept(ids) ==
    /\ ids \in Seq(Ids)
    /\ IsInjective(ids)
    /\ Len(ids) <= requested

SuiteInv ==
    /\ requested \in Nat
    /\ Kept(retained)
    /\ stage \in {"name", "stage", "link", "tidy", "reload", "done"} => retained # << >>
    /\ \A n \in DOMAIN suites : suites[n].by = "us" =>
         /\ stage \in {"tidy", "reload"} \cup (Over \ {"failed"})
         /\ n = trial
         /\ suites[n].checks = retained
         /\ retained # << >>
    /\ stage \in {"tidy", "reload", "done"} => trial \in DOMAIN suites /\ suites[trial].by = "us"
    /\ temporary => stage \in {"link", "tidy", "dead", "stranded"}

Steps == LoadConfig \/ LoadBaseline \/ LoadDocuments \/ SetUpClient \/ Disclose
Requests == Answered \/ Garbled \/ Repeated \/ Refused
Writes == PickName \/ StageFile \/ LinkSuite \/ Tidy \/ Reload \/ WriteFails \/ WithdrawalFails

LEMMA NextByPart == GenerationNext <=> Steps \/ Edit \/ Store \/ Requests \/ Writes \/ Interrupt \/ Rival
BY DEF GenerationNext, Steps, Requests, Writes

LEMMA TalkAtFirst == GenerationInit => TalkInv
<1> SUFFICES ASSUME GenerationInit PROVE TalkInv
  OBVIOUS
<1>1. sent = << >> /\ Len(sent) = 0 /\ sent \in Seq(told)
  BY DEF GenerationInit
<1>2. attempt = 1 /\ ~retried /\ retried \in BOOLEAN /\ stage = "config"
  BY DEF GenerationInit
<1> QED
  BY <1>1, <1>2 DEF TalkInv, Early

(* One more request with the context of the disclosure                     *)
LEMMA SentGrows ==
    ASSUME TalkInv, stage = "request", Sends, UNCHANGED told
    PROVE  sent' \in Seq(told') /\ Len(sent') = Len(sent) + 1
<1>1. context \in told /\ sent \in Seq(told)
  BY DEF TalkInv
<1> QED
  BY <1>1 DEF Sends

LEMMA TalkKept == TalkInv /\ [GenerationNext]_generation => TalkInv'
<1> SUFFICES ASSUME TalkInv, [GenerationNext]_generation PROVE TalkInv'
  OBVIOUS
<1>1. CASE Steps
  <2>1. CASE Disclose
    BY <2>1 DEF Disclose, TalkInv, Early, ordered, talking
  <2>2. CASE LoadConfig \/ LoadBaseline \/ LoadDocuments \/ SetUpClient
    <3>1. stage \in Early \ {"disclosure"} /\ stage' \in Early \cup {"failed"}
          /\ UNCHANGED << ordered, told, talking >>
      BY <2>2 DEF LoadConfig, LoadBaseline, LoadDocuments, SetUpClient, Early, heard
    <3> QED
      BY <3>1 DEF TalkInv, Early, ordered, talking
  <2> QED
    BY <1>1, <2>1, <2>2 DEF Steps
<1>2. CASE Requests
  <2>1. stage = "request" /\ Sends /\ UNCHANGED << transport, told, context >>
    BY <1>2 DEF Requests, Answered, Garbled, Repeated, Refused, ordered, heard
  <2>2. sent' \in Seq(told') /\ Len(sent') = Len(sent) + 1 /\ Len(sent) \in Nat
    BY <2>1, SentGrows DEF TalkInv
  <2>3. CASE Repeated
    <3>1. transport # "plain" /\ ~retried /\ retried' = TRUE /\ UNCHANGED << stage, attempt >>
      BY <2>3 DEF Repeated
    <3>2. attempt \in {1, 2} /\ Len(sent) <= 2 * attempt - 2
      BY <2>1, <3>1 DEF TalkInv
    <3>3. Len(sent') <= 2 * attempt - 1 /\ Len(sent') <= 4
      BY <2>2, <3>2
    <3> QED
      BY <2>1, <2>2, <3>1, <3>2, <3>3 DEF TalkInv, Early
  <2>4. CASE \E kept : Advance(kept)
    <3>1. CASE stage' = "request" /\ attempt = 1 /\ attempt' = 2 /\ retried' = FALSE
      <4>1. ~retried' /\ retried' \in BOOLEAN
        BY <3>1
      <4>2. Len(sent) <= 1 /\ (transport = "plain" => Len(sent) = 0)
        BY <2>1, <3>1 DEF TalkInv
      <4> QED
        BY <2>1, <2>2, <3>1, <4>1, <4>2 DEF TalkInv, Early
    <3>2. CASE stage' \in {"failed", "name"} /\ UNCHANGED << attempt, retried >>
      BY <2>1, <2>2, <3>2 DEF TalkInv, Early
    <3> QED
      BY <2>4, <3>1, <3>2 DEF Advance, Corrects
  <2>5. CASE stage' \in {"failed", "name"} /\ UNCHANGED << attempt, retried >>
    BY <2>1, <2>2, <2>5 DEF TalkInv, Early
  <2>6. Answered => \E kept : Advance(kept)
    BY DEF Answered
  <2>7. Garbled \/ Refused =>
          \/ \E kept : Advance(kept)
          \/ stage' \in {"failed", "name"} /\ UNCHANGED << attempt, retried >>
    BY DEF Garbled, Refused
  <2> QED
    BY <1>2, <2>3, <2>4, <2>5, <2>6, <2>7 DEF Requests
<1>3. CASE Writes
  <2>1. stage \notin Early \cup {"request"} /\ stage' \notin Early \cup {"request"}
        /\ UNCHANGED << transport, told, sent, attempt, retried >>
    BY <1>3 DEF Writes, PickName, StageFile, LinkSuite, Tidy, Reload, WriteFails, WithdrawalFails, Quiet,
                ordered, heard, talking, Early
  <2> QED
    BY <2>1 DEF TalkInv, Early
<1>4. CASE Edit \/ Store \/ Rival \/ UNCHANGED generation
  <2>1. UNCHANGED << stage, transport, context, told, sent, attempt, retried >>
    BY <1>4 DEF Edit, Store, Rival, Quiet, generation, ordered, heard, talking
  <2> QED
    BY <2>1 DEF TalkInv
<1>5. CASE Interrupt
  <2>1. stage' = "dead" /\ UNCHANGED << transport, told, sent, attempt, retried >>
    BY <1>5 DEF Interrupt, Quiet, ordered, heard, talking
  <2> QED
    BY <2>1 DEF TalkInv, Early
<1> QED
  BY <1>1, <1>2, <1>3, <1>4, <1>5, NextByPart

(* Nothing leaves the machine that the user has not been told, whatever is *)
(* edited or stored meanwhile and whatever the provider answers, and there *)
(* are no more than two requests, repetitions apart (service.py:139-167).  *)
THEOREM OnlyTheDisclosedIsSent == GenerationSpec => []SentAsDisclosed
<1>1. TalkInv => SentAsDisclosed
  <2> SUFFICES ASSUME TalkInv PROVE SentAsDisclosed
    OBVIOUS
  <2>1. \A i \in DOMAIN sent : sent[i] \in told
    BY DEF TalkInv
  <2>2. Len(sent) <= IF transport = "plain" THEN 2 ELSE 4
    BY DEF TalkInv
  <2> QED
    BY <2>1, <2>2 DEF SentAsDisclosed
<1> QED
  BY <1>1, TalkAtFirst, TalkKept, PTL DEF GenerationSpec

LEMMA WriterKept == WriterInv /\ [GenerationNext]_generation => WriterInv'
<1> SUFFICES ASSUME WriterInv, [GenerationNext]_generation, stage' \in {"tidy", "reload"}
             PROVE  trial' \in DOMAIN suites' /\ suites'[trial'].by = "us"
  BY DEF WriterInv
<1>1. CASE LinkSuite
  BY <1>1 DEF LinkSuite, Publish, Quiet
<1>2. CASE Tidy \/ Edit \/ Store \/ UNCHANGED generation
  <2>1. stage \in {"tidy", "reload"} /\ UNCHANGED << trial, suites >>
    BY <1>2 DEF Tidy, Edit, Store, generation, written
  <2> QED
    BY <2>1 DEF WriterInv
<1>3. CASE Rival
  <2>1. stage \in {"tidy", "reload"} /\ trial \in DOMAIN suites /\ suites[trial].by = "us"
        /\ UNCHANGED trial
    BY <1>3 DEF Rival, WriterInv
  <2>2. PICK name \in Busy \ DOMAIN suites :
          suites' = [n \in DOMAIN suites \cup {name} |->
                       IF n = name THEN [by |-> "rival", checks |-> << >>] ELSE suites[n]]
    BY <1>3 DEF Rival
  <2> QED
    BY <2>1, <2>2
<1>4. ~Steps /\ ~Requests /\ ~PickName /\ ~StageFile /\ ~Reload /\ ~WriteFails /\ ~WithdrawalFails /\ ~Interrupt
  BY DEF Steps, LoadConfig, LoadBaseline, LoadDocuments, SetUpClient, Disclose,
         Requests, Answered, Garbled, Repeated, Refused, Advance,
         PickName, StageFile, Reload, WriteFails, WithdrawalFails, Interrupt
<1> QED
  BY <1>1, <1>2, <1>3, <1>4, NextByPart DEF Writes

(* No suite of another run is ever replaced or removed: neither by a       *)
(* publication under a name found free, nor by the withdrawal of a suite   *)
(* that does not load or whose temporary cannot be removed                 *)
(* (writer.py:54-108).                                                     *)
LEMMA SuitesKept == WriterInv /\ [GenerationNext]_generation => [RivalsAreKept]_generation
<1> SUFFICES ASSUME WriterInv, GenerationNext, NEW n \in DOMAIN suites, suites[n].by = "rival"
             PROVE  n \in DOMAIN suites' /\ suites'[n] = suites[n]
  BY DEF RivalsAreKept
<1>1. CASE LinkSuite
  BY <1>1 DEF LinkSuite, Publish
<1>2. CASE Rival
  BY <1>2 DEF Rival
<1>3. CASE stage \in {"tidy", "reload"} /\ suites' = Unpublished
  <2>1. n # trial
    BY <1>3 DEF WriterInv
  <2> QED
    BY <1>3, <2>1 DEF Unpublished
<1>4. CASE UNCHANGED suites
  BY <1>4
<1>5. Reload \/ WriteFails \/ WithdrawalFails =>
        UNCHANGED suites \/ (stage \in {"tidy", "reload"} /\ suites' = Unpublished)
  BY DEF Reload, WriteFails, WithdrawalFails, Withdrawn
<1>6. Steps \/ Edit \/ Store \/ Requests \/ PickName \/ StageFile \/ Tidy \/ Interrupt => UNCHANGED suites
  BY DEF Steps, LoadConfig, LoadBaseline, LoadDocuments, SetUpClient, Disclose, Edit, Store,
         Requests, Answered, Garbled, Repeated, Refused, PickName, StageFile, Tidy, Interrupt, written
<1> QED
  BY <1>1, <1>2, <1>3, <1>4, <1>5, <1>6, NextByPart DEF Writes

(* A proposal is weighed without losing what holds of the ids kept.        *)
LEMMA WeighKeeps ==
    ASSUME requested \in Nat, NEW account, Kept(account.kept), NEW proposal \in Ids \cup {Bad}
    PROVE  Kept(Weigh(account, proposal).kept)
<1>1. CASE CodeOf(proposal, account.kept) # "retained"
  BY <1>1 DEF Weigh
<1>2. CASE CodeOf(proposal, account.kept) = "retained"
  <2> DEFINE kept == account.kept
             more == Append(kept, proposal)
  <2>1. proposal \in Ids /\ proposal \notin ToSet(kept) /\ ~(Len(kept) >= requested)
    BY <1>2 DEF CodeOf
  <2>2. kept \in Seq(Ids) /\ IsInjective(kept) /\ Len(kept) \in Nat
    BY DEF Kept
  <2>3. more \in Seq(Ids) /\ Len(more) = Len(kept) + 1 /\ Len(more) <= requested
    BY <2>1, <2>2
  <2>4. \A i \in DOMAIN kept : kept[i] # proposal
    BY <2>1 DEF ToSet
  <2>5. IsInjective(more)
    <3>1. DOMAIN kept = 1..Len(kept) /\ DOMAIN more = 1..(Len(kept) + 1)
      BY <2>2, <2>3
    <3>2. more[Len(kept) + 1] = proposal /\ \A i \in DOMAIN kept : more[i] = kept[i]
      BY <2>1, <2>2
    <3>3. \A i \in DOMAIN more : i \in DOMAIN kept \/ i = Len(kept) + 1
      BY <2>2, <3>1
    <3> HIDE DEF more, kept
    <3> QED
      BY <2>2, <2>4, <3>2, <3>3 DEF IsInjective
  <2>6. Weigh(account, proposal).kept = more
    BY <1>2 DEF Weigh
  <2> QED
    BY <2>3, <2>5, <2>6 DEF Kept
<1> QED
  BY <1>1, <1>2

LEMMA BatchKeeps ==
    ASSUME requested \in Nat, Kept(retained), NEW batch \in Seq(Ids \cup {Bad})
    PROVE  Kept(ProcessBatch(batch).kept)
<1> DEFINE base == [kept |-> retained, lost |-> dropped]
           Ahead(f, i) == IF i = 0 THEN base ELSE Weigh(f[i - 1], batch[i])
           Sums(n) == \E f : f = [i \in 0..n |-> Ahead(f, i)]
           account == CHOOSE f : f = [i \in 0..Len(batch) |-> Ahead(f, i)]
           T == {n \in Nat : Sums(n)}
           U == {n \in Nat : n <= Len(batch) => Kept(account[n].kept)}
<1>1. Len(batch) \in Nat /\ \A i \in 1..Len(batch) : batch[i] \in Ids \cup {Bad}
  OBVIOUS
<1>2. Sums(Len(batch))
  <2>1. 0 \in T
    <3> DEFINE f == [i \in 0..0 |-> base]
    <3>1. \A i \in 0..0 : i = 0
      OBVIOUS
    <3>2. f = [i \in 0..0 |-> Ahead(f, i)]
      BY <3>1
    <3> QED
      BY <3>2
  <2>2. ASSUME NEW n \in T PROVE n + 1 \in T
    <3>1. PICK f : f = [i \in 0..n |-> Ahead(f, i)]
      OBVIOUS
    <3> DEFINE g == [i \in 0..(n + 1) |-> IF i <= n THEN f[i] ELSE Weigh(f[n], batch[n + 1])]
    <3>2. \A i \in 0..n : f[i] = Ahead(f, i)
      BY <3>1
    <3>3. n \in Nat /\ \A i \in 0..(n + 1) : i = 0 \/ (i - 1 \in 0..n /\ i - 1 <= n)
      OBVIOUS
    <3>4. \A i \in 0..(n + 1) : (i <= n /\ i \in 0..n) \/ (i = n + 1 /\ ~(i <= n) /\ i - 1 = n /\ i # 0)
      OBVIOUS
    <3>5. \A i \in 0..n : g[i] = f[i]
      BY <3>3
    <3>6. \A i \in 0..(n + 1) : g[i] = Ahead(g, i)
      <4> SUFFICES ASSUME NEW i \in 0..(n + 1) PROVE g[i] = Ahead(g, i)
        OBVIOUS
      <4>1. CASE i = 0
        <5>1. 0 \in 0..n
          BY <3>3
        <5> HIDE DEF base, g
        <5> QED
          BY <4>1, <5>1, <3>2, <3>5
      <4>2. CASE i # 0
        <5>1. i - 1 \in 0..n /\ g[i - 1] = f[i - 1]
          BY <4>2, <3>3, <3>5
        <5>2. CASE i <= n /\ i \in 0..n
          <6>1. g[i] = f[i] /\ f[i] = Weigh(f[i - 1], batch[i])
            BY <5>2, <4>2, <3>2, <3>5
          <6> HIDE DEF g
          <6> QED
            BY <6>1, <5>1, <4>2
        <5>3. CASE i = n + 1 /\ ~(i <= n) /\ i - 1 = n
          <6>1. g[i] = Weigh(f[i - 1], batch[i])
            BY <5>3
          <6> HIDE DEF g
          <6> QED
            BY <6>1, <5>1, <4>2
        <5> QED
          BY <5>2, <5>3, <3>4
      <4> QED
        BY <4>1, <4>2
    <3>7. g = [i \in 0..(n + 1) |-> Ahead(g, i)]
      <4>1. g = [i \in 0..(n + 1) |-> g[i]]
        OBVIOUS
      <4> HIDE DEF g, Ahead
      <4> QED
        BY <3>6, <4>1
    <3>8. Sums(n + 1)
      <4> HIDE DEF g, Ahead
      <4> QED
        BY <3>7
    <3> HIDE DEF Sums
    <3> QED
      BY <3>3, <3>8
  <2> HIDE DEF Sums
  <2>3. T = Nat
    <3>1. T \in SUBSET Nat
      OBVIOUS
    <3> HIDE DEF T
    <3> QED
      BY <2>1, <2>2, <3>1, Induction
  <2> QED
    BY <1>1, <2>3
<1>3. account = [i \in 0..Len(batch) |-> Ahead(account, i)]
  <2> HIDE DEF Ahead
  <2> QED
    BY <1>2
<1>4. U = Nat
  <2> HIDE DEF account
  <2>1. 0 \in U
    <3>1. account[0] = base
      BY <1>1, <1>3
    <3> QED
      BY <3>1
  <2>2. ASSUME NEW n \in U PROVE n + 1 \in U
    <3>1. SUFFICES ASSUME n + 1 <= Len(batch) PROVE Kept(account[n + 1].kept)
      OBVIOUS
    <3>2. n \in Nat /\ n <= Len(batch) /\ n + 1 \in 1..Len(batch) /\ n + 1 \in 0..Len(batch)
          /\ n + 1 # 0 /\ (n + 1) - 1 = n
      BY <1>1, <3>1
    <3>3. Kept(account[n].kept)
      BY <3>2
    <3>4. account[n + 1] = Weigh(account[n], batch[n + 1])
      <4>1. account[n + 1] = Ahead(account, n + 1)
        <5> HIDE DEF Ahead
        <5> QED
          BY <1>3, <3>2
      <4> QED
        BY <4>1, <3>2
    <3> QED
      BY <1>1, <3>2, <3>3, <3>4, WeighKeeps
  <2>3. U \in SUBSET Nat
    OBVIOUS
  <2> HIDE DEF U
  <2> QED
    BY <2>1, <2>2, <2>3, Induction
<1>5. ProcessBatch(batch) = account[Len(batch)]
  BY DEF ProcessBatch
<1> HIDE DEF account
<1> QED
  BY <1>1, <1>4, <1>5

(* An answer or its failure leaves what is retained within the request, and *)
(* leads to the writer only with something to write.                        *)
LEMMA RequestsKeep ==
    ASSUME SuiteInv, Requests
    PROVE  /\ stage = "request" /\ stage' \in {"request", "failed", "name"}
           /\ UNCHANGED << requested, trial, temporary, suites >>
           /\ Kept(retained')
           /\ stage' = "name" => retained' # << >>
<1>1. stage = "request" /\ UNCHANGED << requested, trial, temporary, suites >>
  BY DEF Requests, Answered, Garbled, Repeated, Refused, ordered, written
<1>2. requested \in Nat /\ Kept(retained)
  BY DEF SuiteInv
<1>3. CASE Answered
  <2>1. PICK batch \in Proposals : /\ retained' = ProcessBatch(batch).kept
                                   /\ Advance(ProcessBatch(batch).kept)
    BY <1>3 DEF Answered
  <2>2. batch \in Seq(Ids \cup {Bad})
    BY DEF Proposals, SeqOf
  <2>3. Kept(ProcessBatch(batch).kept)
    BY <1>2, <2>2, BatchKeeps
  <2>4. Kept(retained')
    BY <1>1, <2>1, <2>3 DEF Kept
  <2>5. stage' \in {"request", "failed", "name"} /\ (stage' = "name" => retained' # << >>)
    BY <2>1 DEF Advance
  <2> QED
    BY <1>1, <2>4, <2>5
<1>4. CASE Garbled \/ Repeated \/ Refused
  <2>1. retained' = retained
    BY <1>4 DEF Garbled, Repeated, Refused, keeping
  <2>2. stage' \in {"request", "failed", "name"} /\ (stage' = "name" => retained' # << >>)
    BY <1>4 DEF Garbled, Repeated, Refused, Advance
  <2> QED
    BY <1>1, <1>2, <2>1, <2>2 DEF Kept
<1> QED
  BY <1>1, <1>3, <1>4 DEF Requests

LEMMA SuiteKept == SuiteInv /\ [GenerationNext]_generation => SuiteInv'
<1> SUFFICES ASSUME SuiteInv, [GenerationNext]_generation PROVE SuiteInv'
  OBVIOUS
<1>1. CASE Requests
  <2>1. /\ stage = "request" /\ stage' \in {"request", "failed", "name"}
        /\ UNCHANGED << requested, trial, temporary, suites >>
        /\ Kept(retained)'
        /\ stage' = "name" => retained' # << >>
    BY <1>1, RequestsKeep DEF Kept
  <2> QED
    BY <2>1 DEF SuiteInv, Over
<1>2. ASSUME ~Requests PROVE Kept(retained)' /\ UNCHANGED << requested, retained >> /\ requested' \in Nat
  <2>1. UNCHANGED << requested, retained >>
    BY <1>2, NextByPart DEF Steps, LoadConfig, LoadBaseline, LoadDocuments, SetUpClient, Disclose,
           Edit, Store, Rival, Interrupt, Writes, PickName, StageFile, LinkSuite, Tidy, Reload,
           WriteFails, WithdrawalFails, Quiet, generation, ordered, keeping
  <2> QED
    BY <2>1 DEF SuiteInv, Kept
<1>3. CASE Steps \/ Edit \/ Store \/ UNCHANGED generation
  <2>1. /\ stage' = stage \/ stage' \in Early \cup {"request", "failed"}
        /\ stage' # stage => stage \in Early
        /\ UNCHANGED << requested, retained, trial, temporary, suites >>
    BY <1>3 DEF Steps, LoadConfig, LoadBaseline, LoadDocuments, SetUpClient, Disclose, Edit, Store,
           generation, ordered, keeping, written, Early
  <2>2. Kept(retained)'
    BY <2>1 DEF SuiteInv, Kept
  <2> QED
    BY <2>1, <2>2 DEF SuiteInv, Early, Over
<1>4. CASE Interrupt
  <2>1. stage' = "dead" /\ UNCHANGED << requested, retained, trial, temporary, suites >>
    BY <1>4 DEF Interrupt, Quiet, ordered, keeping, written
  <2>2. Kept(retained)'
    BY <2>1 DEF SuiteInv, Kept
  <2> QED
    BY <2>1, <2>2 DEF SuiteInv, Over
<1>5. CASE Rival
  <2>1. UNCHANGED << stage, requested, retained, trial, temporary >>
    BY <1>5 DEF Rival, Quiet, ordered, keeping
  <2>2. PICK name \in Busy \ DOMAIN suites :
          suites' = [n \in DOMAIN suites \cup {name} |->
                       IF n = name THEN [by |-> "rival", checks |-> << >>] ELSE suites[n]]
    BY <1>5 DEF Rival
  <2>3. \A n \in DOMAIN suites : n \in DOMAIN suites' /\ suites'[n] = suites[n]
    BY <2>2
  <2>4. \A n \in DOMAIN suites' : suites'[n].by = "us" => n \in DOMAIN suites
    BY <2>2
  <2>5. Kept(retained)'
    BY <2>1 DEF SuiteInv, Kept
  <2> QED
    BY <2>1, <2>3, <2>4, <2>5 DEF SuiteInv
<1>6. CASE Writes
  <2>1. ~Requests
    BY <1>6 DEF Writes, PickName, StageFile, LinkSuite, Tidy, Reload, WriteFails, WithdrawalFails, Requests,
           Answered, Garbled, Repeated, Refused
  <2>2. Kept(retained)' /\ UNCHANGED << requested, retained >> /\ requested' \in Nat
    BY <1>2, <2>1
  <2>3. CASE PickName \/ StageFile \/ Tidy
    BY <2>2, <2>3 DEF PickName, StageFile, Tidy, Quiet, SuiteInv, Over
  <2>4. CASE LinkSuite
    <3>1. CASE trial \in DOMAIN suites
      BY <2>2, <2>4, <3>1 DEF LinkSuite, SuiteInv, Over
    <3>2. CASE trial \notin DOMAIN suites
      <4>1. /\ stage = "link" /\ stage' = "tidy" /\ UNCHANGED << temporary, trial >>
            /\ suites' = [n \in DOMAIN suites \cup {trial} |->
                            IF n = trial THEN [by |-> "us", checks |-> retained] ELSE suites[n]]
        BY <2>4, <3>2 DEF LinkSuite, Publish
      <4>2. \A n \in DOMAIN suites : suites[n].by # "us"
        BY <4>1 DEF SuiteInv, Over
      <4>3. trial \in DOMAIN suites' /\ suites'[trial] = [by |-> "us", checks |-> retained]
        BY <4>1
      <4>4. \A n \in DOMAIN suites' : suites'[n].by = "us" => n = trial
        BY <4>1, <4>2
      <4> QED
        BY <2>2, <4>1, <4>3, <4>4 DEF SuiteInv
    <3> QED
      BY <3>1, <3>2
  <2>5. CASE /\ suites' = Unpublished /\ stage \in {"tidy", "reload"}
             /\ \/ stage' = "failed" /\ ~temporary'
                \/ stage' = "stranded"
    <3>1. \A n \in DOMAIN suites' : n \in DOMAIN suites /\ n # trial /\ suites'[n] = suites[n]
      BY <2>5 DEF Unpublished
    <3>2. \A n \in DOMAIN suites' : suites'[n].by # "us"
      BY <3>1 DEF SuiteInv
    <3> QED
      BY <2>2, <2>5, <3>2 DEF SuiteInv
  <2>6. CASE WriteFails /\ stage # "tidy"
    <3>1. stage \in {"stage", "link"} /\ UNCHANGED suites /\ stage' = "failed" /\ temporary' = FALSE
      BY <2>6 DEF WriteFails, Withdrawn
    <3> QED
      BY <2>2, <3>1 DEF SuiteInv, Over
  <2>7. WriteFails /\ stage = "tidy" => suites' = Unpublished /\ stage' = "failed" /\ ~temporary'
    BY DEF WriteFails, Withdrawn
  <2>8. CASE Reload
    <3>1. stage = "reload" /\ ~temporary' /\ UNCHANGED trial
      BY <2>8 DEF Reload, SuiteInv
    <3>2. CASE stage' \in {"done", "stranded"} /\ UNCHANGED suites
      BY <2>2, <3>1, <3>2 DEF SuiteInv, Over
    <3> QED
      BY <2>5, <2>8, <3>1, <3>2 DEF Reload
  <2>9. CASE WithdrawalFails
    <3>1. /\ stage' = "stranded" /\ UNCHANGED trial
          /\ UNCHANGED suites \/ (stage = "tidy" /\ suites' = Unpublished)
      BY <2>9 DEF WithdrawalFails, Withdrawn, Quiet
    <3>2. CASE UNCHANGED suites
      BY <2>2, <3>1, <3>2 DEF SuiteInv, Over
    <3> QED
      BY <2>5, <3>1, <3>2
  <2> QED
    BY <1>6, <2>3, <2>4, <2>5, <2>6, <2>7, <2>8, <2>9 DEF Writes
<1> QED
  BY <1>1, <1>3, <1>4, <1>5, <1>6, NextByPart

(* The checks directory shows nothing of a command that failed and could   *)
(* clean up, and of one that succeeded a single suite with the retained    *)
(* candidates: at least one, no more than asked for, no id twice; a crash, *)
(* or a withdrawal that fails too, leaves a whole suite or none            *)
(* (generation/service.py:270-330, writer.py:54-108).                      *)
THEOREM GeneratedSuiteIsExact == GenerationSpec => []SuiteIsExact
<1>1. GenerationInit => SuiteInv
  <2> SUFFICES ASSUME GenerationInit PROVE SuiteInv
    OBVIOUS
  <2>1. requested \in Nat /\ requested >= 1
    BY GenerationAssumption DEF GenerationInit
  <2>2. retained = << >> /\ Len(retained) = 0 /\ retained \in Seq(Ids)
        /\ \A i \in DOMAIN retained : FALSE
    BY DEF GenerationInit
  <2>3. Kept(retained)
    BY <2>1, <2>2 DEF Kept, IsInjective
  <2> QED
    BY <2>1, <2>3 DEF GenerationInit, SuiteInv
<1>2. SuiteInv => SuiteIsExact
  <2> SUFFICES ASSUME SuiteInv PROVE SuiteIsExact
    OBVIOUS
  <2>1. ASSUME Ours # {}
        PROVE  /\ stage \in {"tidy", "reload"} \cup (Over \ {"failed"})
               /\ Ours = {trial}
               /\ suites[trial].checks = retained
               /\ retained # << >>
    BY <2>1 DEF SuiteInv, Ours
  <2>2. retained # << >> => Len(retained) \in 1..requested
    BY DEF SuiteInv, Kept
  <2>3. IsInjective(retained)
    BY DEF SuiteInv, Kept
  <2>4. stage = "done" => Ours # {} /\ ~temporary
    BY DEF SuiteInv, Ours
  <2>5. stage = "failed" => ~temporary
    BY DEF SuiteInv
  <2> QED
    BY <2>1, <2>2, <2>3, <2>4, <2>5 DEF SuiteIsExact
<1> QED
  BY <1>1, <1>2, SuiteKept, PTL DEF GenerationSpec

------------------------------------------------------------------------------
(* Profiler: for any finite set of names and any growth of the graph.      *)
Stages == {"probe", "probed", "labels", "label", "types", "type", "constraints", "indexes",
           "coverage", "degree", "complete", "over"}

Rows == RowsOf("node", collected["node"]) \cup RowsOf("relationship", collected["relationship"])
Ascending(listed) == \A i, j \in DOMAIN listed : i < j => listed[i][1] < listed[j][1]

ProfileType ==
  /\ phase \in Stages
  /\ names \in SUBSET Names
  /\ graph \in [Owners -> [Names -> Nat]]
  /\ counted \in [Owners -> Int]
  /\ collected \in [Owners -> Seq(Names \X Nat)]

(* What has been measured is in the graph, which only grows; labels are    *)
(* measured in order; the inventory has a row for each measurement; what   *)
(* got lost is remembered until the profile is made of it; and the profile *)
(* is made once.                                                           *)
ProfileInv ==
  /\ ProfileType
  /\ \A o \in Owners : \A i \in DOMAIN collected[o] : collected[o][i][2] <= graph[o][collected[o][i][1]]
  /\ inventory = Rows
  /\ Ascending(collected["node"])
  /\ phase \in {"probe", "probed", "labels"} => collected["node"] = <<>>
  /\ phase = "label" =>
       \A i \in DOMAIN collected["node"] : \A n \in names : collected["node"][i][1] < n
  /\ phase # "over" => baseline = Pending
  /\ lost => phase = "over" \/ (phase = "label" /\ failure)
  /\ phase = "over" => ProfileHidesNothing

LEMMA FirstIsLeast ==
  ASSUME NEW S \in SUBSET Nat, S # {}
  PROVE  Min(S) \in S /\ \A n \in S : Min(S) <= n
<1>1. PICK x \in S : \A y \in S : <<y, x>> \notin {pair \in Nat \X Nat : pair[1] < pair[2]}
  <2>1. IsWellFoundedOn({pair \in Nat \X Nat : pair[1] < pair[2]}, S)
    BY NatOrder DEF IsWellFoundedOn
  <2> QED
    BY NatOrder, WFMin
<1>2. ASSUME NEW y \in S PROVE x <= y
  <2>1. <<y, x>> \in Nat \X Nat /\ ~(y < x)
    BY <1>1
  <2> QED
    BY <2>1
<1> QED
  BY <1>2 DEF Min

(* No part is larger than the whole.                                       *)
LEMMA PartsFitTotal ==
  ASSUME NEW f \in [Names -> Nat]
  PROVE  Total(f) \in Nat /\ \A n \in Names : f[n] <= Total(f)
BY ProfilerAssumption, SumCovers DEF Total, SumFunction

LEMMA RowsGrow ==
  ASSUME NEW o, NEW s \in Seq(Names \X Nat), NEW n \in Names, NEW m \in Nat
  PROVE  RowsOf(o, Append(s, <<n, m>>)) = RowsOf(o, s) \cup {<<o, n>>}
<1> DEFINE t == Append(s, <<n, m>>)
<1>1. /\ DOMAIN s = 1..Len(s) /\ DOMAIN t = 1..(Len(s) + 1) /\ Len(s) \in Nat
      /\ t[Len(s) + 1] = <<n, m>> /\ \A i \in DOMAIN s : t[i] = s[i]
  OBVIOUS
<1>2. \A i \in DOMAIN t : i \in DOMAIN s \/ i = Len(s) + 1
  BY <1>1
<1>3. Len(s) + 1 \in DOMAIN t /\ DOMAIN s \subseteq DOMAIN t
  BY <1>1
<1> HIDE DEF t
<1> QED
  BY <1>1, <1>2, <1>3 DEF RowsOf

(* A profile made of what has been collected is accepted, or the graph has *)
(* outgrown the counts.                                                    *)
LEMMA FinishKeeps ==
  ASSUME ProfileInv, phase # "over", NEW status \in {"partial", "complete"}, NEW reason,
         Finish(Document(status, reason, collected["node"], collected["relationship"], inventory)),
         status = "complete" => ~lost'
  PROVE  ProfileInv'
<1> DEFINE document == Document(status, reason, collected["node"], collected["relationship"], inventory)
<1>1. /\ phase' = "over"
      /\ UNCHANGED <<names, graph, counted, collected, inventory, failure, exceeded>>
      /\ baseline' = IF Accepted(status) THEN document ELSE Raised("rejected")
  BY DEF Finish, Document
<1>2. ProfileHidesNothing'
  <2>1. CASE Accepted(status)
    <3>1. /\ baseline'.status = status /\ status # "rejected"
          /\ baseline'.labels = collected["node"] /\ baseline'.types = collected["relationship"]
          /\ baseline'.rows = inventory
      BY <1>1, <2>1 DEF Document
    <3>2. inventory = Rows /\ Ascending(collected["node"])
      BY DEF ProfileInv
    <3> QED
      BY <1>1, <3>1, <3>2 DEF ProfileHidesNothing, Produced, Rows, Ascending, RowsOf
  <2>2. CASE ~Accepted(status)
    <3>1. PICK o \in Owners : ~Fits(o)
      BY <2>2 DEF Accepted, Owners
    <3>2. PICK i \in DOMAIN collected[o] : ~(collected[o][i][2] <= counted[o])
      BY <3>1 DEF Fits
    <3>3. /\ collected[o] \in Seq(Names \X Nat) /\ counted[o] \in Int /\ graph[o] \in [Names -> Nat]
          /\ collected[o][i][2] <= graph[o][collected[o][i][1]]
      BY DEF ProfileInv, ProfileType
    <3>4. collected[o][i] \in Names \X Nat
      BY <3>3
    <3>5. Total(graph[o]) \in Nat /\ graph[o][collected[o][i][1]] <= Total(graph[o])
      BY <3>3, <3>4, PartsFitTotal
    <3>6. graph[o][collected[o][i][1]] \in Nat /\ collected[o][i][2] \in Nat
      BY <3>3, <3>4
    <3>7. Total(graph[o]) > counted[o]
      BY <3>2, <3>3, <3>5, <3>6
    <3>8. (\E p \in Owners : Total(graph[p]) > counted[p])'
      BY <1>1, <3>7
    <3>9. baseline'.status = "rejected"
      BY <1>1, <2>2 DEF Raised
    <3> QED
      BY <3>8, <3>9 DEF ProfileHidesNothing, Produced
  <2> QED
    BY <2>1, <2>2
<1>3. ProfileType'
  BY <1>1 DEF ProfileInv, ProfileType, Stages
<1> QED
  BY <1>1, <1>2, <1>3 DEF ProfileInv, Rows, Ascending, RowsOf

LEMMA PartialKeeps ==
  ASSUME ProfileInv, phase # "over", NEW reason, Partial(reason), lost'
  PROVE  ProfileInv'
<1>1. /\ "partial" \in {"partial", "complete"}
      /\ Finish(Document("partial", IF exceeded THEN "deadline_exhausted" ELSE reason,
                         collected["node"], collected["relationship"], inventory))
  BY DEF Partial, Coverage
<1> QED
  BY <1>1, FinishKeeps

(* The profiler goes on to a stage after those of the labels, or to the    *)
(* labels with nothing collected.                                          *)
LEMMA GoingOn ==
  ASSUME ProfileInv, phase # "over", phase' \in Stages \ {"over", "probe"},
         phase' \in {"probed", "labels"} => phase \in {"probe", "probed"},
         phase' = "label" => phase = "labels",
         names' \in SUBSET Names, counted' \in [Owners -> Int], ~lost,
         UNCHANGED <<graph, collected, inventory, lost, baseline>>
  PROVE  ProfileInv'
<1>1. ProfileType'
  BY DEF ProfileInv, ProfileType
<1>2. phase' = "label" => collected["node"] = <<>>
  BY DEF ProfileInv
<1>3. phase' = "label" => \A i \in DOMAIN collected["node"] : FALSE
  BY <1>2
<1>4. phase' \in {"probed", "labels"} => collected["node"] = <<>>
  BY DEF ProfileInv
<1> QED
  BY <1>1, <1>3, <1>4 DEF ProfileInv, Rows, Ascending, RowsOf, Stages

LEMMA MeasureKeeps ==
  ASSUME ProfileInv, NEW o \in Owners, phase = IF o = "node" THEN "label" ELSE "type",
         names # {}, Measure(o)
  PROVE  ProfileInv'
<1> DEFINE row == <<First, graph[o][First]>>
<1>1. /\ names \in SUBSET Names /\ names \in SUBSET Nat /\ graph[o] \in [Names -> Nat]
      /\ collected \in [Owners -> Seq(Names \X Nat)]
  BY ProfilerAssumption DEF ProfileInv, ProfileType
<1>2. First \in names /\ \A n \in names : First <= n
  BY <1>1, FirstIsLeast DEF First
<1>3. First \in Names /\ graph[o][First] \in Nat /\ row \in Names \X Nat
  BY <1>1, <1>2
<1>4. /\ UNCHANGED <<phase, graph, counted, failure, lost, baseline>>
      /\ collected' = [collected EXCEPT ![o] = Append(collected[o], row)]
      /\ inventory' = inventory \cup {<<o, First>>}
      /\ names' = names \ {First}
  BY DEF Measure
<1>5. /\ collected[o] \in Seq(Names \X Nat) /\ collected'[o] = Append(collected[o], row)
      /\ \A p \in Owners \ {o} : collected'[p] = collected[p]
  BY <1>1, <1>4
<1>6. /\ Append(collected[o], row) \in Seq(Names \X Nat)
      /\ DOMAIN collected'[o] = 1..(Len(collected[o]) + 1) /\ Len(collected[o]) \in Nat
      /\ DOMAIN collected[o] = 1..Len(collected[o])
      /\ collected'[o][Len(collected[o]) + 1] = row
      /\ \A i \in DOMAIN collected[o] : collected'[o][i] = collected[o][i]
  BY <1>3, <1>5
<1> HIDE DEF row
<1>7. \A i \in DOMAIN collected'[o] : i \in DOMAIN collected[o] \/ i = Len(collected[o]) + 1
  BY <1>6
<1>8. ProfileType'
  <2>1. collected' \in [Owners -> Seq(Names \X Nat)]
    BY <1>1, <1>4, <1>6
  <2> QED
    BY <1>4, <2>1 DEF ProfileInv, ProfileType
<1>9. \A p \in Owners : \A i \in DOMAIN collected'[p] : collected'[p][i][2] <= graph[p][collected'[p][i][1]]
  <2>1. row[1] = First /\ row[2] = graph[o][First]
    BY DEF row
  <2>2. row[2] <= graph[o][row[1]]
    BY <1>3, <2>1
  <2>3. \A i \in DOMAIN collected'[o] : collected'[o][i][2] <= graph[o][collected'[o][i][1]]
    BY <1>6, <1>7, <2>2 DEF ProfileInv
  <2> QED
    BY <1>5, <2>3 DEF ProfileInv
<1>10. inventory' = Rows'
  <2>1. RowsOf(o, collected'[o]) = RowsOf(o, collected[o]) \cup {<<o, First>>}
    <3>1. PICK s \in Seq(Names \X Nat), n \in Names, m \in Nat :
            s = collected[o] /\ n = First /\ m = graph[o][First]
      BY <1>3, <1>5
    <3>2. RowsOf(o, Append(s, <<n, m>>)) = RowsOf(o, s) \cup {<<o, n>>}
      BY RowsGrow
    <3> QED
      BY <1>5, <3>1, <3>2 DEF row
  <2>2. \A p \in Owners \ {o} : RowsOf(p, collected'[p]) = RowsOf(p, collected[p])
    BY <1>5
  <2>3. Rows' = UNION {RowsOf(p, collected'[p]) : p \in Owners} /\ Rows = UNION {RowsOf(p, collected[p]) : p \in Owners}
    BY DEF Rows, Owners, RowsOf
  <2>4. Rows' = Rows \cup {<<o, First>>}
    <3>1. CASE o = "node"
      BY <2>1, <2>2, <3>1 DEF Rows, Owners, RowsOf
    <3>2. CASE o = "relationship"
      BY <2>1, <2>2, <3>2 DEF Rows, Owners, RowsOf
    <3> QED
      BY <3>1, <3>2 DEF Owners
  <2> QED
    BY <1>4, <2>4 DEF ProfileInv
<1>11. Ascending(collected'["node"]) /\ (phase = "label" =>
         \A i \in DOMAIN collected'["node"] : \A n \in names' : collected'["node"][i][1] < n)
  <2>1. CASE o # "node"
    <3>1. collected'["node"] = collected["node"] /\ phase # "label"
      BY <1>5, <2>1 DEF Owners
    <3> QED
      BY <3>1 DEF ProfileInv
  <2>2. CASE o = "node"
    <3>1. Ascending(collected[o]) /\ \A i \in DOMAIN collected[o] : \A n \in names : collected[o][i][1] < n
      BY <2>2 DEF ProfileInv
    <3>2. row[1] = First
      BY DEF row
    <3>3. \A i \in DOMAIN collected[o] : collected[o][i][1] \in Nat
      <4>1. \A i \in DOMAIN collected[o] : collected[o][i] \in Names \X Nat
        BY <1>5
      <4> QED
        BY <4>1, ProfilerAssumption
    <3>4. Ascending(collected'[o])
      <4> SUFFICES ASSUME NEW i \in DOMAIN collected'[o], NEW j \in DOMAIN collected'[o], i < j
                   PROVE  collected'[o][i][1] < collected'[o][j][1]
        BY DEF Ascending
      <4>1. i \in DOMAIN collected[o]
        BY <1>6
      <4>2. CASE j \in DOMAIN collected[o]
        BY <1>6, <3>1, <4>1, <4>2 DEF Ascending
      <4>3. CASE j = Len(collected[o]) + 1
        BY <1>2, <1>6, <3>1, <3>2, <4>1, <4>3
      <4> QED
        BY <1>7, <4>2, <4>3
    <3>5. ASSUME NEW i \in DOMAIN collected'[o], NEW n \in names \ {First}
          PROVE  collected'[o][i][1] < n
      <4>1. CASE i \in DOMAIN collected[o]
        BY <1>6, <3>1, <4>1
      <4>2. CASE i = Len(collected[o]) + 1
        <5>1. First < n
          BY <1>1, <1>2
        <5> QED
          BY <1>6, <3>2, <4>2, <5>1
      <4> QED
        BY <1>7, <4>1, <4>2
    <3> QED
      BY <1>4, <2>2, <3>4, <3>5
  <2> QED
    BY <2>1, <2>2
<1>12. phase' \in {"label", "type"} /\ phase' # "over" /\ phase' \notin {"probe", "probed", "labels"}
  BY <1>4
<1>13. baseline' = Pending /\ (lost' => phase' = "label" /\ failure')
  BY <1>4, <1>12 DEF ProfileInv
<1> QED
  BY <1>4, <1>8, <1>9, <1>10, <1>11, <1>12, <1>13 DEF ProfileInv, Ascending

LEMMA AfterKeeps ==
  ASSUME ProfileInv, phase \notin {"over", "probe"}, NEW place,
         NEW next \in {"labels", "types", "constraints", "indexes", "coverage", "degree", "complete"},
         ~lost, next = "labels" => phase = "probed", After(place, next)
  PROVE  ProfileInv'
<1>1. CASE exceeded
  BY <1>1, PartialKeeps DEF After
<1>2. CASE ~exceeded
  <2>1. /\ phase' = next
        /\ UNCHANGED <<names, graph, counted, collected, inventory, failure, exceeded, lost, baseline>>
    BY <1>2 DEF After
  <2>2. names \in SUBSET Names /\ counted \in [Owners -> Int] /\ phase' \in Stages \ {"over", "probe"}
    BY <2>1 DEF ProfileInv, ProfileType, Stages
  <2> QED
    BY <2>1, <2>2, GoingOn
<1> QED
  BY <1>1, <1>2

LEMMA FailsKeeps ==
  ASSUME ProfileInv, phase # "over", NEW place, Fails(place)
  PROVE  ProfileInv'
BY PartialKeeps DEF Fails

LEMMA ListingKeeps ==
  ASSUME ProfileInv, NEW o \in Owners, NEW place, NEW next, Listing(place, o, next),
         <<place, next>> \in {<<"labels", "label">>, <<"types", "type">>}
  PROVE  ProfileInv'
<1>1. phase = place /\ phase # "over" /\ ~lost
  BY DEF Listing, ProfileInv
<1>2. CASE Fails(place)
  BY <1>1, <1>2, FailsKeeps
<1>3. CASE ~Fails(place)
  <2>1. /\ phase' = next /\ names' = {n \in Names : graph[o][n] > 0}
        /\ UNCHANGED <<graph, counted, collected, inventory, failure, exceeded, lost, baseline>>
    BY <1>3 DEF Listing
  <2>2. names' \in SUBSET Names /\ counted' \in [Owners -> Int]
    BY <2>1 DEF ProfileInv, ProfileType
  <2>3. phase' \in {"label", "type"} /\ (phase' = "label" => phase = "labels")
    BY <1>1, <2>1
  <2> QED
    BY <1>1, <2>1, <2>2, <2>3, GoingOn DEF Stages
<1> QED
  BY <1>2, <1>3

LEMMA ProfileKept == ProfileInv /\ [ProfilerNext]_profile => ProfileInv'
<1> SUFFICES ASSUME ProfileInv, [ProfilerNext]_profile PROVE ProfileInv'
  OBVIOUS
<1>1. CASE UNCHANGED profile
  BY <1>1 DEF profile, ProfileInv, ProfileType, Rows, RowsOf, Ascending, ProfileHidesNothing, Produced, Total
<1>2. ASSUME NEW o \in Owners, NEW n \in Names, Grow(o, n) PROVE ProfileInv'
  <2>1. /\ phase # "over" /\ graph' = [graph EXCEPT ![o] = [graph[o] EXCEPT ![n] = graph[o][n] + 1]]
        /\ UNCHANGED <<phase, names, counted, collected, inventory, failure, exceeded, lost, baseline>>
    BY <1>2 DEF Grow
  <2>2. graph \in [Owners -> [Names -> Nat]]
    BY DEF ProfileInv, ProfileType
  <2>3. /\ graph' \in [Owners -> [Names -> Nat]]
        /\ \A p \in Owners : \A m \in Names : graph[p][m] <= graph'[p][m]
    BY <2>1, <2>2
  <2>4. ASSUME NEW p \in Owners, NEW i \in DOMAIN collected[p]
        PROVE  collected[p][i][2] <= graph'[p][collected[p][i][1]]
    <3>1. collected[p] \in Seq(Names \X Nat)
      BY DEF ProfileInv, ProfileType
    <3>2. collected[p][i] \in Names \X Nat
      BY <3>1
    <3>3. PICK m \in Names : m = collected[p][i][1]
      BY <3>2
    <3>4. collected[p][i][2] \in Nat /\ graph[p][m] \in Nat /\ graph'[p][m] \in Nat
      BY <2>2, <2>3, <3>2
    <3>5. collected[p][i][2] <= graph[p][m] /\ graph[p][m] <= graph'[p][m]
      BY <2>3, <3>3 DEF ProfileInv
    <3> QED
      BY <3>3, <3>4, <3>5
  <2>5. ProfileType'
    BY <2>1, <2>3 DEF ProfileInv, ProfileType
  <2> QED
    BY <2>1, <2>4, <2>5 DEF ProfileInv, Rows, RowsOf, Ascending
<1>3. CASE Exceed
  <2>1. phase # "over" /\ UNCHANGED <<phase, names, graph, counted, collected, inventory, failure, lost, baseline>>
    BY <1>3 DEF Exceed
  <2> QED
    BY <2>1 DEF ProfileInv, ProfileType, Rows, RowsOf, Ascending
<1>4. CASE Probe
  <2>0. phase = "probe" /\ phase # "over" /\ ~lost
    BY <1>4 DEF Probe, ProfileInv
  <2>1. CASE baseline' = Raised("unavailable") /\ phase' = "over"
             /\ UNCHANGED <<names, graph, counted, collected, inventory, failure, exceeded, lost>>
    <3>1. ProfileHidesNothing'
      BY <2>1 DEF ProfileHidesNothing, Produced, Raised
    <3> QED
      BY <2>1, <3>1 DEF ProfileInv, ProfileType, Rows, RowsOf, Ascending, Stages
  <2>2. CASE counted' = [p \in Owners |-> Total(graph[p])] /\ phase' = "probed"
             /\ UNCHANGED <<names, graph, collected, inventory, failure, exceeded, lost, baseline>>
    <3>1. \A p \in Owners : graph[p] \in [Names -> Nat]
      BY DEF ProfileInv, ProfileType
    <3>2. \A p \in Owners : Total(graph[p]) \in Int
      BY <3>1, PartsFitTotal
    <3>3. counted' \in [Owners -> Int]
      BY <2>2, <3>2
    <3>4. names' \in SUBSET Names
      BY <2>2 DEF ProfileInv, ProfileType
    <3> QED
      BY <2>0, <2>2, <3>3, <3>4, GoingOn DEF Stages
  <2> QED
    BY <1>4, <2>1, <2>2 DEF Probe
<1>5. CASE Probed
  BY <1>5, AfterKeeps DEF Probed, ProfileInv
<1>6. CASE ListLabels \/ ListTypes
  BY <1>6, ListingKeeps DEF ListLabels, ListTypes, Owners
<1>7. CASE MeasureLabel
  <2>1. CASE Measure("node")
    BY <1>7, <2>1, MeasureKeeps DEF MeasureLabel, Owners
  <2>2. CASE ~Measure("node")
    <3>1. /\ phase = "label" /\ failure' = TRUE /\ lost' = TRUE
          /\ names' = IF exceeded THEN {} ELSE names \ {First}
          /\ UNCHANGED <<phase, graph, counted, collected, inventory, exceeded, baseline>>
      BY <1>7, <2>2 DEF MeasureLabel
    <3>2. names' \subseteq names
      BY <3>1
    <3> QED
      BY <3>1, <3>2 DEF ProfileInv, ProfileType, Rows, RowsOf, Ascending
  <2> QED
    BY <2>1, <2>2
<1>8. CASE LabelsDone
  <2>1. phase = "label"
    BY <1>8 DEF LabelsDone
  <2>2. CASE failure
    BY <1>8, <2>1, <2>2, FailsKeeps DEF LabelsDone
  <2>3. CASE ~failure
    <3>1. ~lost
      BY <2>1, <2>3 DEF ProfileInv
    <3> QED
      BY <1>8, <2>1, <2>3, <3>1, AfterKeeps DEF LabelsDone
  <2> QED
    BY <2>2, <2>3
<1>9. CASE MeasureType
  <2>1. CASE Measure("relationship")
    BY <1>9, <2>1, MeasureKeeps DEF MeasureType, Owners
  <2> QED
    BY <1>9, <2>1, FailsKeeps DEF MeasureType
<1>10. CASE TypesDone \/ ReuseCoverage
  BY <1>10, AfterKeeps DEF TypesDone, ReuseCoverage, ProfileInv
<1>11. CASE Constraints \/ Indexes
  BY <1>11, AfterKeeps, FailsKeeps DEF Constraints, Indexes, ProfileInv
<1>12. CASE Degrees
  <2>1. phase = "degree" /\ ~lost
    BY <1>12 DEF Degrees, ProfileInv
  <2> QED
    BY <1>12, <2>1, AfterKeeps, FailsKeeps, PartialKeeps DEF Degrees
<1>13. CASE Complete
  <2>1. phase = "complete" /\ ~lost /\ ~lost'
    BY <1>13 DEF Complete, ProfileInv
  <2>2. Finish(Document("complete", "none", collected["node"], collected["relationship"], inventory))
    BY <1>13 DEF Complete, Coverage
  <2> QED
    BY <2>1, <2>2, FinishKeeps
<1> QED
  BY <1>1, <1>2, <1>3, <1>4, <1>5, <1>6, <1>7, <1>8, <1>9, <1>10, <1>11, <1>12, <1>13 DEF ProfilerNext

(* A baseline accounts for everything that was measured and hides nothing  *)
(* that was not; and what has been collected is thrown away only when      *)
(* somebody wrote to the graph between the count of the whole and that of  *)
(* a part (profiler.py:140-480, contracts/profile.py).                     *)
THEOREM ProfilesHideNothing == ProfilerSpec => []ProfileHidesNothing
<1>1. ProfilerInit => ProfileInv
  <2> SUFFICES ASSUME ProfilerInit PROVE ProfileInv
    OBVIOUS
  <2>1. phase = "probe" /\ ~lost /\ baseline = Pending /\ names = {}
    BY DEF ProfilerInit
  <2>2. graph \in [Owners -> [Names -> Nat]] /\ counted \in [Owners -> Int]
    BY DEF ProfilerInit
  <2>3. collected = [o \in Owners |-> <<>>] /\ inventory = {}
    BY DEF ProfilerInit
  <2>4. collected \in [Owners -> Seq(Names \X Nat)] /\ \A o \in Owners : \A i \in DOMAIN collected[o] : FALSE
    BY <2>3
  <2>5. collected["node"] = <<>> /\ "node" \in Owners /\ "relationship" \in Owners
    BY <2>3 DEF Owners
  <2>6. Rows = {}
    BY <2>4, <2>5 DEF Rows, RowsOf
  <2> QED
    BY <2>1, <2>2, <2>3, <2>4, <2>5, <2>6 DEF ProfileInv, ProfileType, Ascending, Stages
<1>2. ProfileInv => ProfileHidesNothing
  <2>1. baseline = Pending => ProfileHidesNothing
    BY DEF Pending, ProfileHidesNothing, Produced
  <2> QED
    BY <2>1 DEF ProfileInv
<1> QED
  BY <1>1, <1>2, ProfileKept, PTL DEF ProfilerSpec

------------------------------------------------------------------------------
(* Questions put to the pure algorithms: a question is never replaced, and  *)
(* AlgorithmProofs answers it.                                              *)
QuestionInv ==
  /\ Asked("evidence") => question \in EvidenceQuestions
  /\ Asked("verdict") => question \in VerdictQuestions
  /\ Asked("drift") => question \in DriftQuestions
  /\ Asked("floyd") => question \in FloydQuestions
  /\ Asked("hash") => question \in HashQuestions
  /\ Asked("duplicates") => question \in DuplicateQuestions
  /\ Asked("values") => question \in ValueQuestions
  /\ Asked("links") => question \in LinkQuestions
  /\ Asked("vectors") => question \in VectorQuestions
  /\ Asked("statistics") => question \in StatisticsQuestions
  /\ Asked("diff") => question \in DiffQuestions

LEMMA QuestionsStart == PartsInit => QuestionInv
<1> SUFFICES ASSUME PartsInit PROVE QuestionInv
  OBVIOUS
<1>1. ASSUME NEW topic, NEW inputs, question \in Questions(topic, inputs)
      PROVE  question.topic = topic
  BY <1>1 DEF Questions
<1>2. /\ question \in EvidenceQuestions => question.topic = "evidence"
      /\ question \in VerdictQuestions => question.topic = "verdict"
      /\ question \in DriftQuestions => question.topic = "drift"
      /\ question \in FloydQuestions => question.topic = "floyd"
  BY <1>1 DEF EvidenceQuestions, VerdictQuestions, DriftQuestions, FloydQuestions
<1>3. /\ question \in HashQuestions => question.topic = "hash"
      /\ question \in DuplicateQuestions => question.topic = "duplicates"
      /\ question \in StatisticsQuestions => question.topic = "statistics"
  BY <1>1 DEF HashQuestions, DuplicateQuestions, StatisticsQuestions
<1>4. /\ question \in ValueQuestions => question.topic = "values"
      /\ question \in LinkQuestions => question.topic = "links"
      /\ question \in VectorQuestions => question.topic = "vectors"
      /\ question \in DiffQuestions => question.topic = "diff"
  BY <1>1 DEF ValueQuestions, LinkQuestions, VectorQuestions, DiffQuestions
<1>5. \A topic : question = Machine(topic) => question.topic = topic
  BY DEF Machine
<1>6. QuestionAsked \/ \E topic \in {"competency", "baselines", "profiler", "generation"} : question = Machine(topic)
  BY DEF PartsInit
<1> QED
  BY <1>2, <1>3, <1>4, <1>5, <1>6 DEF QuestionAsked, QuestionInv, Asked

LEMMA QuestionStays == PartsSpec => []QuestionInv
<1>1. ASSUME QuestionInv, [PartsNext]_<<vars, competency, books, profile, generation, question>>
      PROVE  QuestionInv'
  <2>1. question' = question
    BY <1>1 DEF PartsNext
  <2> QED
    BY <1>1, <2>1 DEF QuestionInv, Asked
<1> QED
  BY <1>1, QuestionsStart, PTL DEF PartsSpec

LEMMA FunctionsAreMaps == ASSUME NEW S, NEW T, NEW f \in [S -> T] PROVE IsMap(f)
BY DEF IsMap

LEMMA NothingIsAMap == IsMap(<<>>) /\ DOMAIN <<>> = {}
BY DEF IsMap

LEMMA LabelBooksAreMaps ==
  ASSUME NEW l \in LabelBooks
  PROVE  IsMap(l) /\ \A k \in DOMAIN l :
           /\ l[k] = [count |-> l[k].count, properties |-> l[k].properties, degree |-> l[k].degree]
           /\ IsMap(l[k].properties)
<1> DEFINE Known == [count : 1..2, properties : {<<>>, [p |-> "int"], [p |-> "str"]}, degree : 0..1]
<1>1. l = <<>> \/ l \in [{"A"} -> Known] \/ l \in [{"A", "B"} -> Known]
  BY DEF LabelBooks
<1>2. IsMap([p |-> "int"]) /\ IsMap([p |-> "str"])
  BY DEF IsMap
<1>3. \A known \in Known :
        /\ known = [count |-> known.count, properties |-> known.properties, degree |-> known.degree]
        /\ IsMap(known.properties)
  BY <1>2, NothingIsAMap
<1> HIDE DEF Known
<1>4. IsMap(l) /\ \A k \in DOMAIN l : l[k] \in Known
  BY <1>1, NothingIsAMap, FunctionsAreMaps
<1> QED
  BY <1>3, <1>4

LEMMA BooksAreProfiles == \A p \in Books \cup Definitions : IsProfile(p)
<1>2. ASSUME NEW p \in Books PROVE IsProfile(p)
  <2>1. /\ p.labels \in LabelBooks /\ p.types \in {<<>>} \cup [{"R"} -> 1..2]
        /\ p.constraints = <<>> /\ p.indexes = <<>> /\ p.coverage = <<>>
    BY DEF Books
  <2>2. IsMap(p.types)
    BY <2>1, NothingIsAMap, FunctionsAreMaps
  <2> QED
    BY <2>1, <2>2, NothingIsAMap, LabelBooksAreMaps DEF IsProfile
<1>3. ASSUME NEW p \in Definitions PROVE IsProfile(p)
  <2> DEFINE Kinds == [definition : 1..2, order : {Compare!Unordered, "xy", "yx"}]
  <2>1. /\ p.labels = <<>> /\ p.types = <<>>
        /\ p.constraints \in {<<>>} \cup [{"c"} -> 1..2]
        /\ p.indexes \in {<<>>} \cup [{"i"} -> Kinds]
        /\ p.coverage \in {<<>>} \cup [{"p"} -> {50, 100}]
    BY DEF Definitions
  <2> HIDE DEF Kinds
  <2>2. IsMap(p.constraints) /\ IsMap(p.indexes) /\ IsMap(p.coverage)
    BY <2>1, NothingIsAMap, FunctionsAreMaps
  <2> QED
    BY <2>1, <2>2, NothingIsAMap DEF IsProfile
<1> QED
  BY <1>2, <1>3

(* MCParts: every diff that is asked for lists what drifted (diff.py:46-320), *)
(* as any diff does.                                                        *)
THEOREM DiffsListWhatDrifted == PartsSpec => []DiffListsWhatDrifted
<1>1. QuestionInv => DiffListsWhatDrifted
  <2> SUFFICES ASSUME question \in DiffQuestions
               PROVE  ListsWhatDrifted(question.input[1], question.input[2])
    BY DEF QuestionInv, DiffListsWhatDrifted
  <2>1. question.input \in (Books \cup Definitions) \X (Books \cup Definitions)
    <3>1. question.input \in (Books \X Books) \cup (Definitions \X Definitions)
      BY DEF DiffQuestions, Questions
    <3> QED
      BY <3>1
  <2>2. IsProfile(question.input[1]) /\ IsProfile(question.input[2])
    BY <2>1, BooksAreProfiles
  <2> QED
    BY <2>2, DiffsListDrift
<1> QED
  BY <1>1, QuestionStays, PTL

LEMMA EdgesHaveEnds ==
  ASSUME NEW types, NEW rels \in Edges(types)
  PROVE  IsFiniteSet(rels) /\ \A r \in rels : r.src \in 1..3 /\ r.dst \in 1..3
<1> DEFINE edge(id, x) == [id |-> id, src |-> 1 + (x % 3), dst |-> 1 + ((x \div 3) % 3), type |-> types[1 + (x \div 9)]]
<1>1. \A x \in Nat : x % 3 \in 0..2 /\ x \div 3 \in Nat
  OBVIOUS
<1>2. ASSUME NEW id, NEW x \in 0..17 PROVE edge(id, x).src \in 1..3 /\ edge(id, x).dst \in 1..3
  <2>1. x % 3 \in 0..2 /\ (x \div 3) % 3 \in 0..2
    BY <1>1
  <2> QED
    BY <2>1
<1> HIDE DEF edge
<1>3. CASE rels = {}
  BY <1>3, FS_EmptySet
<1>4. ASSUME NEW x \in 0..17, rels = {edge(1, x)}
      PROVE  IsFiniteSet(rels) /\ \A r \in rels : r.src \in 1..3 /\ r.dst \in 1..3
  BY <1>2, <1>4, FS_Singleton
<1>5. ASSUME NEW p \in (0..17) \X (0..17), rels = {edge(1, p[1]), edge(2, p[2])}
      PROVE  IsFiniteSet(rels) /\ \A r \in rels : r.src \in 1..3 /\ r.dst \in 1..3
  <2>1. p[1] \in 0..17 /\ p[2] \in 0..17
    OBVIOUS
  <2>2. rels = {edge(1, p[1])} \cup {edge(2, p[2])}
    BY <1>5
  <2>3. IsFiniteSet({edge(1, p[1])}) /\ IsFiniteSet({edge(2, p[2])})
    BY FS_Singleton
  <2>4. IsFiniteSet(rels)
    BY <2>2, <2>3, FS_Union
  <2> QED
    BY <1>2, <2>1, <2>2, <2>4
<1> QED
  BY <1>3, <1>4, <1>5 DEF Edges, edge

LEMMA SmallGraphs ==
  ASSUME NEW g, DOMAIN g.labels = 1..3, NEW kinds, IsFiniteSet(kinds),
         \A n \in 1..3 : g.labels[n] \in kinds, \A k \in kinds : IsFiniteSet(k),
         IsFiniteSet(g.rels), \A r \in g.rels : r.src \in 1..3 /\ r.dst \in 1..3
  PROVE  IsGraph(g)
<1>1. IsFiniteSet(1..3)
  <2>1. PICK n \in Nat : n = 3
    OBVIOUS
  <2>2. IsFiniteSet(1..n)
    BY FS_Interval
  <2> QED
    BY <2>1, <2>2
<1> QED
  BY <1>1 DEF IsGraph

LEMMA LabelledThree ==
  ASSUME NEW kinds \in Seq(SUBSET {"D", "C", "E"}), NEW labels \in Labelled(kinds)
  PROVE  DOMAIN labels = 1..3 /\ \A n \in 1..3 : labels[n] \in SUBSET {"D", "C", "E"}
<1>1. PICK i \in [1..3 -> DOMAIN kinds] : labels = [n \in 1..3 |-> kinds[i[n]]]
  BY DEF Labelled
<1>2. \A k \in DOMAIN kinds : kinds[k] \in SUBSET {"D", "C", "E"}
  OBVIOUS
<1> QED
  BY <1>1, <1>2

LEMMA LabelSetsAreFinite ==
  IsFiniteSet(SUBSET {"D", "C", "E"}) /\ \A k \in SUBSET {"D", "C", "E"} : IsFiniteSet(k)
<1>1. IsFiniteSet({"D", "C"})
  <2>1. {"D", "C"} = {"D"} \cup {"C"} /\ IsFiniteSet({"D"})
    BY FS_Singleton
  <2> QED
    BY <2>1, FS_AddElement
<1>2. IsFiniteSet({"D", "C", "E"})
  <2>1. {"D", "C", "E"} = {"D", "C"} \cup {"E"}
    OBVIOUS
  <2> QED
    BY <1>1, <2>1, FS_AddElement
<1> QED
  BY <1>2, FS_SUBSET, FS_Subset

(* MCParts: of every graph and every list of vectors that is asked for, the *)
(* two queries of a check agree, and what they find is what the check is    *)
(* about (engine/core_pack.py:151-700, engine/graphrag_pack.py:25-392), as  *)
(* of any.                                                                  *)
THEOREM QueriesFindWhatIsAsked == PartsSpec => []QueriesFindViolations
<1>1. ASSUME question \in ValueQuestions
      PROVE  ValuesAreJudged(question.input, ValueCheck(question.input))
  <2> DEFINE g == question.input
  <2>1. g \in [labels : [1..3 -> {{"D"}, {"E"}, {"D", "E"}}], values : [1..3 -> Written], rels : {{}}]
    BY <1>1 DEF ValueQuestions, Questions
  <2>2. /\ DOMAIN g.labels = 1..3 /\ g.rels = {}
        /\ \A n \in 1..3 : g.labels[n] \in SUBSET {"D", "C", "E"}
    BY <2>1
  <2>3. IsGraph(g)
    BY <2>2, LabelSetsAreFinite, FS_EmptySet, SmallGraphs
  <2>4. ValueCheck(g).kind = "string"
    BY DEF ValueCheck
  <2> QED
    BY <2>3, <2>4, ValueChecksAreExact
<1>2. ASSUME question \in LinkQuestions, NEW d \in {"in", "out", "any"}
      PROVE  LinksAreJudged(question.input, Provenance(d), 1, 1) /\ HubsStandOut(question.input, "C", d, 1)
  <2> DEFINE g == question.input
             kinds == <<{"D"}, {"C"}, {"E"}, {"D", "C"}>>
  <2>1. g.labels \in Labelled(kinds) /\ g.rels \in Edges(<<"contains", "mentions">>)
    BY <1>2 DEF LinkQuestions, Questions
  <2>2. kinds \in Seq(SUBSET {"D", "C", "E"})
    OBVIOUS
  <2> HIDE DEF kinds
  <2>3. IsGraph(g)
    BY <2>1, <2>2, LabelledThree, LabelSetsAreFinite, EdgesHaveEnds, SmallGraphs
  <2>4. Provenance(d).containing \in Ways /\ Provenance(d).mentioning \in Ways
    BY DEF Provenance, Ways
  <2>5. LinksAreJudged(g, Provenance(d), 1, 1)
    BY <2>3, <2>4, LinkChecksAreExact
  <2>6. HubsStandOut(g, "C", d, 1)
    BY <2>3, HubsAreExact
  <2> QED
    BY <2>5, <2>6
<1>3. ASSUME question \in VectorQuestions
      PROVE  MajorityIsRight(question.input)
  <2>1. question.input \in [1..4 -> [defect : {"none"}, dimension : 1..3] \cup [defect : {"not_a_list"}, dimension : {0}]]
    BY <1>3 DEF VectorQuestions, Questions
  <2>2. PICK n \in Nat : n = 4
    OBVIOUS
  <2>3. IsFiniteSet(1..n)
    BY FS_Interval
  <2>4. DOMAIN question.input = 1..4 /\ IsFiniteSet(DOMAIN question.input)
    BY <2>1, <2>2, <2>3
  <2>5. AreVectors(question.input)
    BY <2>1, <2>4 DEF AreVectors
  <2> QED
    BY <2>5, MajoritiesAreRight
<1>4. QuestionInv => QueriesFindViolations
  BY <1>1, <1>2, <1>3 DEF QuestionInv, QueriesFindViolations
<1> QED
  BY <1>4, QuestionStays, PTL

------------------------------------------------------------------------------
(* MCParts: the evidence of every question lists what there is, a verdict   *)
(* follows its elements, and a drift explains itself (engine/evaluator.py:   *)
(* 153-519, 619-683, 995-1055), as for any values, elements and limits.     *)
THEOREM EvidenceStaysWhole == PartsSpec => []EvidenceIsWhole
<1>1. ASSUME question \in EvidenceQuestions
      PROVE  EvidenceListsAll(question.input.values, question.input.cap, question.input.total, question.input.aggregates)
  <2> DEFINE q == question.input
  <2>1. /\ q.values \in UNION {[1..n -> PointerValues] : n \in 0..4}
        /\ q.cap \in 1..2 /\ q.total \in 0..2
    BY <1>1 DEF EvidenceQuestions, Questions
  <2> HIDE DEF q
  <2>2. PICK n \in 0..4 : q.values \in [1..n -> PointerValues]
    BY <2>1
  <2>3. q.values \in Seq(PointerValues)
    BY <2>2
  <2>4. q.cap \in Nat \ {0} /\ q.total \in Nat
    BY <2>1
  <2>5. EvidenceListsAll(q.values, q.cap, q.total, q.aggregates)
    BY <2>3, <2>4, EvidenceListsEverything
  <2> QED
    BY <2>5 DEF q
<1>2. ASSUME question \in VerdictQuestions
      PROVE  VerdictFollows(question.input)
  <2> DEFINE q == question.input
  <2>1. /\ q.check \in Evaluate!Coverage \cup Evaluate!Provenance \cup Evaluate!Sampled \cup Evaluate!Plain
        /\ q.violates \in UNION {[1..n -> BOOLEAN] : n \in 0..3} /\ q.empty \in BOOLEAN
        /\ q.exhaustive \in {0, 2} /\ q.size \in 1..2 /\ q.cap \in 1..2
    BY <1>2 DEF VerdictQuestions, Questions
  <2> HIDE DEF q
  <2>2. PICK n \in 0..3 : q.violates \in [1..n -> BOOLEAN]
    BY <2>1
  <2>3. q.violates \in Seq(BOOLEAN)
    BY <2>2
  <2>4. q.exhaustive \in Nat /\ q.size \in Nat \ {0} /\ q.cap \in Nat \ {0}
    BY <2>1
  <2>5. AsksVerdict(q)
    BY <2>1, <2>3, <2>4 DEF AsksVerdict
  <2>6. VerdictFollows(q)
    BY <2>5, VerdictsFollow
  <2> QED
    BY <2>6 DEF q
<1>3. ASSUME question \in DriftQuestions
      PROVE  DriftExplained(question.input)
  <2> DEFINE q == question.input
  <2>1. /\ q.metric \in {"node_count", "property_coverage"} /\ q.limits \in Limits
        /\ q.current \in 0..3 \cup {99, 100} /\ q.recorded \in 0..2 \cup {97, 100}
    <3>1. PICK metric, current, recorded, limits : 
            /\ q = [metric |-> metric, current |-> current, recorded |-> recorded, limits |-> limits]
            /\ metric \in {"node_count", "property_coverage"} /\ limits \in Limits
            /\ current \in 0..3 \cup {99, 100} /\ recorded \in 0..2 \cup {97, 100}
      BY <1>3 DEF DriftQuestions, Questions
    <3> HIDE DEF q
    <3>2. q.metric = metric /\ q.limits = limits /\ q.current = current /\ q.recorded = recorded
      BY <3>1
    <3> QED
      BY <3>1, <3>2
  <2> HIDE DEF q
  <2>2. /\ q.current \in 0..100 /\ q.recorded \in 0..100
        /\ q.current \in Nat /\ q.recorded \in Nat
    BY <2>1
  <2>3. q.limits \in [max_drop_pct : SUBSET Nat, max_increase_pct : SUBSET Nat, max_change_pct : SUBSET Nat,
                      max_delta : SUBSET Nat, absolute : SUBSET Nat, min : SUBSET Int, max : SUBSET Int]
    <3>1. /\ Optional({0, 50}) \subseteq SUBSET Nat /\ Optional({50}) \subseteq SUBSET Nat
          /\ Optional({1}) \subseteq SUBSET Nat /\ Optional({0}) \subseteq SUBSET Nat
          /\ Optional({1}) \subseteq SUBSET Int /\ Optional({-1, 2}) \subseteq SUBSET Int
      BY DEF Optional
    <3>2. q.limits \in
            [max_drop_pct : Optional({0, 50}), max_increase_pct : Optional({50}), max_change_pct : Optional({0, 50}),
             max_delta : Optional({1}), absolute : Optional({0}), min : Optional({1}), max : Optional({-1, 2})]
      BY <2>1 DEF Limits
    <3> QED
      BY <3>1, <3>2
  <2>4. AsksDrift(q)
    BY <2>1, <2>2, <2>3 DEF AsksDrift
  <2>5. DriftExplained(q)
    BY <2>4, DriftsAreExplained
  <2> QED
    BY <2>5 DEF q
<1>4. QuestionInv => EvidenceIsWhole
  BY <1>1, <1>2, <1>3 DEF QuestionInv, EvidenceIsWhole, EvidenceIsListed, VerdictFollowsElements, DriftIsExplained
<1> QED
  BY <1>4, QuestionStays, PTL

------------------------------------------------------------------------------
(* MCParts: of every graph that is asked for, what a profile recorded is    *)
(* what a drift check measures (profiler.py:834-1053,                       *)
(* engine/baseline.py:145-308, engine/compiler.py:432-660), as of any.      *)
THEOREM ProfilesStayTrue == PartsSpec => []ProfileAgreesWithLive
<1>1. ASSUME question \in StatisticsQuestions
      PROVE  ProfileAgrees(question.input.graph, question.input.cap, {"D", "E"}, {"R", "S"})
  <2> DEFINE g == question.input.graph
             kinds == <<{"D"}, {"D", "E"}, {}>>
  <2>1. /\ g.labels \in Labelled(kinds) /\ g.rels \in Edges(<<"R", "S">>)
        /\ question.input.cap \in Nat
    BY <1>1 DEF StatisticsQuestions, Questions
  <2>2. kinds \in Seq(SUBSET {"D", "C", "E"})
    OBVIOUS
  <2> HIDE DEF kinds, g
  <2>3. IsGraph(g)
    BY <2>1, <2>2, LabelledThree, LabelSetsAreFinite, EdgesHaveEnds, SmallGraphs
  <2> QED
    BY <2>1, <2>3, ProfilesMatchGraphs DEF g
<1>2. QuestionInv => ProfileAgreesWithLive
  BY <1>1 DEF QuestionInv, ProfileAgreesWithLive
<1> QED
  BY <1>2, QuestionStays, PTL

------------------------------------------------------------------------------
(* MCParts: the groups of near duplicates among the names the run asks      *)
(* about are the connected components of similarity, whatever comparison    *)
(* the bound spares (engine/graphrag_pack.py:289-344), as for any names.    *)
THEOREM GroupsStayComponents == PartsSpec => []GroupsAreComponents
<1>1. ASSUME question \in DuplicateQuestions
      PROVE  GroupsAreConnected(question.input.keys, question.input.threshold, 2)
  <2> DEFINE ks == question.input.keys
             t == question.input.threshold
  <2>1. ks \in NameLists /\ t \in {<<1, 2>>, <<2, 3>>, <<1, 1>>}
    BY <1>1 DEF DuplicateQuestions, Questions
  <2>2. IsThreshold(t)
    BY <2>1 DEF IsThreshold
  <2>3. ASSUME NEW w \in Words PROVE w \in Seq(Nat) \ {<<>>}
    <3>1. PICK n \in 1..3 : w \in [1..n -> 0..1]
      BY DEF Words
    <3>2. n \in Nat /\ n # 0
      OBVIOUS
    <3>3. w \in Seq(0..1) /\ Len(w) = n
      BY <3>1, <3>2
    <3> QED
      BY <3>2, <3>3
  <2> HIDE DEF ks, t
  <2>4. PICK n \in 2..3 : ks \in [1..n -> Words]
    BY <2>1 DEF NameLists
  <2>5. AreNames(ks)
    BY <2>3, <2>4 DEF AreNames
  <2>6. GroupsAreConnected(ks, t, 2)
    BY <2>2, <2>5, GroupsAreExact
  <2> QED
    BY <2>6 DEF ks, t
<1>2. QuestionInv => GroupsAreComponents
  BY <1>1 DEF QuestionInv, GroupsAreComponents
<1> QED
  BY <1>2, QuestionStays, PTL

------------------------------------------------------------------------------
(* MCParts: the draws from a population the run asks about are fair, and    *)
(* the ranks of any four values are independent, as they are of any         *)
(* population and any prime modulus (engine/sampling.py:117-195).           *)
THEOREM SamplesStayFair == PartsSpec => []SamplesAreFair
<1>1. ASSUME question \in FloydQuestions
      PROVE  DrawsAreFair(question.input.population, question.input.size)
  <2> DEFINE n == question.input.population
             k == question.input.size
  <2>1. n \in 3..5 /\ k \in 1..3
    BY <1>1 DEF FloydQuestions, Questions
  <2>2. n \in Nat /\ k \in Nat /\ k <= n
    BY <2>1
  <2> HIDE DEF n, k
  <2>3. DrawsAreFair(n, k)
    BY <2>2, SubsetsAreEquallyLikely
  <2> QED
    BY <2>3 DEF n, k
<1>2. ASSUME question \in HashQuestions
      PROVE  RanksAreIndependent(question.input, Prime)
  <2> DEFINE w == question.input
  <2>1. w \in [1..4 -> 0..Prime - 1] /\ \A i, j \in 1..4 : i < j => w[i] < w[j]
    BY <1>2 DEF HashQuestions, Questions
  <2>2. Prime \in Nat /\ Prime > 1
    BY PrimeAssumption DEF IsPrime
  <2> HIDE DEF w
  <2>3. \A i \in 1..4 : w[i] % Prime = w[i]
    <3>1. \A x \in 0..Prime - 1 : x % Prime = x
      BY <2>2, SMT
    <3> QED
      BY <2>1, <3>1
  <2>4. w \in [1..4 -> Int]
    BY <2>1, <2>2
  <2>5. \A i, j \in 1..4 : i # j => w[i] % Prime # w[j] % Prime
    <3>1. \A i, j \in 1..4 : i # j => w[i] # w[j]
      <4>1. \A i, j \in 1..4 : i # j => i < j \/ j < i
        OBVIOUS
      <4> QED
        BY <2>1, <2>2, <4>1
    <3> QED
      BY <2>3, <3>1
  <2>6. RanksAreIndependent(w, Prime)
    BY <2>4, <2>5, PrimeAssumption, RanksAreFourWiseIndependent
  <2> QED
    BY <2>6 DEF w
<1>3. QuestionInv => SamplesAreFair
  BY <1>1, <1>2 DEF QuestionInv, SamplesAreFair, SampleIsFair, HashIsFourWiseIndependent
<1> QED
  BY <1>3, QuestionStays, PTL

------------------------------------------------------------------------------
(* A file keeps its meaning: a published snapshot its content, a suite of   *)
(* another generation its own; and a diff follows the pin only to what is   *)
(* there (baselines.py:53-222, generation/writer.py:54-108).                *)
THEOREM NamesAreKept == PartsSpec => NamesKeepTheirMeaning
<1> DEFINE Act == SnapshotsArePermanent /\ DiffPinIsChecked /\ RivalsAreKept
           all == <<vars, competency, books, profile, generation, question>>
<1>1. PartsInit => StoreInv /\ WriterInv
  <2>1. PartsInit => BaselinesInit /\ (IdleGeneration \/ GenerationInit)
    BY DEF PartsInit
  <2>2. IdleGeneration \/ GenerationInit => WriterInv
    BY DEF IdleGeneration, GenerationInit, WriterInv
  <2> QED
    BY <2>1, <2>2, BooksAtFirst
<1>2. ASSUME [PartsNext]_all
      PROVE  [BaselinesNext]_books /\ [GenerationNext]_generation /\ (UNCHANGED books \/ UNCHANGED generation)
  BY <1>2 DEF PartsNext
<1>3. StoreInv /\ WriterInv /\ [PartsNext]_all => StoreInv' /\ WriterInv'
  BY <1>2, StoreKept, WriterKept
<1>4. StoreInv /\ WriterInv /\ [PartsNext]_all => [Act]_<<books, generation>>
  <2> SUFFICES ASSUME StoreInv, WriterInv, [PartsNext]_all, <<books, generation>>' # <<books, generation>>
               PROVE  Act
    OBVIOUS
  <2>1. UNCHANGED books => SnapshotsArePermanent /\ DiffPinIsChecked
    BY DEF books, store, SnapshotsArePermanent, DiffPinIsChecked
  <2>2. UNCHANGED generation => RivalsAreKept
    BY DEF generation, RivalsAreKept
  <2>3. [SnapshotsArePermanent /\ DiffPinIsChecked]_books /\ [RivalsAreKept]_generation
    BY <1>2, SnapshotsKept, SuitesKept
  <2> QED
    BY <2>1, <2>2, <2>3
<1> QED
  BY <1>1, <1>3, <1>4, PTL DEF PartsSpec, NamesKeepTheirMeaning
------------------------------------------------------------------------------
(* Scoring: for any list of results, of any length.                          *)
(* In a total order of a finite set, as many elements have a rank below u   *)
(* as there are numbers below u.                                            *)
IsOrder(B, S) ==
  /\ B \in SUBSET (S \X S)
  /\ \A i \in S : <<i, i>> \notin B
  /\ \A i, j, k \in S : <<i, j>> \in B /\ <<j, k>> \in B => <<i, k>> \in B
  /\ \A i, j \in S : i = j \/ <<i, j>> \in B \/ <<j, i>> \in B

LEMMA RanksAreApart ==
  ASSUME NEW S, IsFiniteSet(S), NEW B, IsOrder(B, S), NEW u \in Nat, u <= Cardinality(S)
  PROVE  Cardinality({i \in S : Cardinality({j \in S : <<j, i>> \in B}) < u}) = u
<1> DEFINE pred(i) == {j \in S : <<j, i>> \in B}
           rank == [i \in S |-> Cardinality(pred(i))]
           n == Cardinality(S)
           low == {i \in S : rank[i] < u}
           r == [i \in low |-> rank[i]]
<1>0. n \in Nat
  BY FS_CardinalityType
<1>1. ASSUME NEW i \in S PROVE rank[i] \in 0..n - 1 /\ IsFiniteSet(pred(i))
  <2>1. pred(i) \in SUBSET (S \ {i})
    BY DEF IsOrder
  <2>2. IsFiniteSet(S \ {i}) /\ Cardinality(S \ {i}) = n - 1
    BY FS_RemoveElement
  <2>3. IsFiniteSet(pred(i)) /\ Cardinality(pred(i)) <= n - 1
    BY <2>1, <2>2, FS_Subset
  <2> QED
    BY <1>0, <2>3, FS_CardinalityType
<1>2. ASSUME NEW i \in S, NEW j \in S, <<i, j>> \in B PROVE rank[i] < rank[j]
  <2>1. pred(i) \cup {i} \in SUBSET pred(j) /\ i \notin pred(i)
    BY <1>2 DEF IsOrder
  <2>2. Cardinality(pred(i) \cup {i}) = Cardinality(pred(i)) + 1
    BY <1>1, <2>1, FS_AddElement
  <2>3. Cardinality(pred(i) \cup {i}) <= Cardinality(pred(j))
    BY <1>1, <2>1, FS_Subset
  <2> QED
    BY <1>1, <2>2, <2>3
<1>3. \A i, j \in S : rank[i] = rank[j] => i = j
  <2>1. \A i \in S : rank[i] \in Int
    BY <1>1
  <2>2. \A i, j \in S : <<i, j>> \in B => rank[i] < rank[j]
    BY <1>2
  <2>3. \A i, j \in S : i = j \/ <<i, j>> \in B \/ <<j, i>> \in B
    BY DEF IsOrder
  <2> HIDE DEF rank
  <2>4. \A i, j \in S : rank[i] = rank[j] => <<i, j>> \notin B /\ <<j, i>> \notin B
    BY <2>1, <2>2
  <2> QED
    BY <2>3, <2>4
<1>4. rank \in Surjection(S, 0..n - 1)
  <2>1. rank \in [S -> 0..n - 1]
    BY <1>1
  <2>2. rank \in Injection(S, 0..n - 1)
    <3> HIDE DEF rank
    <3> QED
      BY <1>3, <2>1 DEF Injection, IsInjective
  <2>3. IsFiniteSet(0..n - 1) /\ Cardinality(0..n - 1) = n
    BY <1>0, Below
  <2> HIDE DEF rank
  <2> QED
    BY <2>2, <2>3, FS_Injection
<1>5. \A i \in S : rank[i] \in 0..n - 1
  BY <1>1
<1> HIDE DEF rank
<1>6. r \in Bijection(low, 0..u - 1)
  <2>1. r \in [low -> 0..u - 1]
    BY <1>5
  <2>2. IsInjective(r)
    BY <1>3 DEF IsInjective
  <2>3. ASSUME NEW m \in 0..u - 1 PROVE \E i \in low : r[i] = m
    <3>1. m \in 0..n - 1
      BY <1>0
    <3>2. PICK i \in S : rank[i] = m
      BY <1>4, <3>1 DEF Surjection
    <3> QED
      BY <3>2
  <2> HIDE DEF r, low
  <2> QED
    BY <2>1, <2>2, <2>3 DEF Bijection, Injection, Surjection
<1>7. IsFiniteSet(low) /\ IsFiniteSet(0..u - 1) /\ Cardinality(0..u - 1) = u
  BY FS_Subset, Below
<1>8. Cardinality(low) = u
  BY <1>6, <1>7, FS_Bijection DEF ExistsBijection
<1>9. low = {i \in S : Cardinality({j \in S : <<j, i>> \in B}) < u}
  BY DEF rank
<1> HIDE DEF low
<1> QED
  BY <1>8, <1>9

------------------------------------------------------------------------------
(* Dividing.                                                                *)
LEMMA QuotientIs ==
  ASSUME NEW b \in Nat \ {0}, NEW q \in Int, NEW p \in Int, b * q < b * (p + 1)
  PROVE  q <= p
<1>1. SUFFICES ASSUME q >= p + 1 PROVE FALSE
  OBVIOUS
<1>2. b * q >= b * (p + 1)
  BY <1>1, SMT
<1> QED
  BY <1>2

(* Rounding half to even never exchanges two fractions of one numerator.    *)
LEMMA RoundingKeepsOrder ==
  ASSUME NEW a \in Nat, NEW b \in Nat \ {0}, NEW d \in Nat, b <= d
  PROVE  RoundPercentage(a, d) <= RoundPercentage(a, b)
<1> DEFINE x == a * 100
           q == x \div b
           r == x % b
           p == x \div d
           s == x % d
           up(c, m) == c > 0 \/ (c = 0 /\ m % 2 = 1)
<1>3. RoundPercentage(a, b) = IF up(2 * r - b, q) THEN q + 1 ELSE q
  BY DEF RoundPercentage
<1>4. RoundPercentage(a, d) = IF up(2 * s - d, p) THEN p + 1 ELSE p
  BY DEF RoundPercentage
<1>0. x \in Nat /\ d \in Nat \ {0}
  OBVIOUS
<1> HIDE DEF x
<1>1. q \in Nat /\ r \in 0..b - 1 /\ x = b * q + r /\ x \in Nat
  BY <1>0, Divided
<1>2. p \in Nat /\ s \in 0..d - 1 /\ x = d * p + s
  BY <1>0, Divided
<1> HIDE DEF q, r, p, s
<1>5. b * p <= d * p
  BY <1>2, SMT
<1>6. p <= q
  <2>1. b * p <= x /\ x < b * q + b /\ b * (q + 1) = b * q + b
    BY <1>1, <1>2, <1>5
  <2>2. b * p < b * (q + 1)
    BY <1>1, <1>2, <2>1
  <2> QED
    BY <1>1, <1>2, <2>2, QuotientIs
<1>7. CASE p < q
  BY <1>1, <1>2, <1>3, <1>4, <1>7
<1>8. CASE p = q
  <2>1. s <= r
    BY <1>1, <1>2, <1>5, <1>8
  <2> QED
    BY <1>1, <1>2, <1>3, <1>4, <1>8, <2>1
<1> QED
  BY <1>1, <1>2, <1>6, <1>7, <1>8

LEMMA RoundingBounds ==
  ASSUME NEW a \in Nat, NEW b \in Nat \ {0}, a <= b
  PROVE  RoundPercentage(a, b) \in 0..100 /\ RoundPercentage(b, b) = 100
<1> DEFINE x == a * 100
           q == x \div b
           r == x % b
<1>3. RoundPercentage(a, b) = IF 2 * r - b > 0 \/ (2 * r - b = 0 /\ q % 2 = 1) THEN q + 1 ELSE q
  BY DEF RoundPercentage
<1>2. x \in Nat /\ x <= b * 100
  OBVIOUS
<1> HIDE DEF x
<1>1. q \in Nat /\ r \in 0..b - 1 /\ x = b * q + r
  BY <1>2, Divided
<1> HIDE DEF q, r
<1>4. q <= 100
  <2>1. b * q < b * (100 + 1)
    <3>1. b * q <= b * 100 /\ b * 100 < b * (100 + 1)
      BY <1>1, <1>2
    <3> QED
      BY <1>1, <3>1
  <2> QED
    BY <1>1, <2>1, QuotientIs
<1>5. q = 100 => r = 0
  BY <1>1, <1>2
<1>6. RoundPercentage(b, b) = 100
  <2>1. (b * 100) \div b = 100 /\ (b * 100) % b = 0
    <3> DEFINE y == b * 100
               m == y \div b
               t == y % b
    <3>0. y \in Nat
      OBVIOUS
    <3>1. m \in Nat /\ t \in 0..b - 1 /\ y = b * m + t /\ y \in Nat
      <4> HIDE DEF y
      <4> QED
        BY <3>0, Divided
    <3> HIDE DEF m, t
    <3>2. b * m < b * (100 + 1) /\ b * 100 < b * (m + 1)
      BY <3>1
    <3>3. m = 100
      <4>1. m <= 100
        BY <3>1, <3>2, QuotientIs
      <4>2. 100 <= m
        BY <3>1, <3>2, QuotientIs
      <4> QED
        BY <3>1, <4>1, <4>2
    <3>4. t = 0
      BY <3>1, <3>3
    <3> QED
      BY <3>3, <3>4 DEF m, t
  <2> QED
    BY <2>1 DEF RoundPercentage
<1> QED
  BY <1>1, <1>3, <1>4, <1>5, <1>6

------------------------------------------------------------------------------
(* Weights.                                                                 *)
LEMMA WeightsAddUp ==
  ASSUME NEW P, IsFiniteSet(P), NEW kind, \A i \in P : kind[i] \in Severities
  PROVE  /\ WeightOf(P, kind) \in Nat
         /\ P # {} => WeightOf(P, kind) # 0
         /\ SumFunctionOnSet([i \in P |-> Weight(kind[i])], P) = WeightOf(P, kind)
<1> DEFINE E == {i \in P : kind[i] = "error"}
           W == {i \in P : kind[i] = "warn"}
           e == [i \in P |-> IF i \in E THEN 1 ELSE 0]
           w == [i \in P |-> IF i \in W THEN 1 ELSE 0]
           h == [i \in P |-> Weight(kind[i])]
<1>1. /\ IsFiniteSet(E) /\ Cardinality(E) \in Nat /\ (E # {} => Cardinality(E) # 0)
      /\ IsFiniteSet(W) /\ Cardinality(W) \in Nat /\ (W # {} => Cardinality(W) # 0)
  BY FS_Subset, FS_CardinalityType, FS_EmptySet
<1>2. P = E \cup W /\ E \in SUBSET P /\ W \in SUBSET P
  BY DEF Severities
<1>3. \A i \in P : h[i] = 3 * e[i] + w[i]
  BY DEF Severities, Weight
<1>4. e \in [P -> Int] /\ w \in [P -> Int] /\ h \in [P -> Int]
  BY DEF Weight
<1>5. /\ \A i \in P : e[i] = IF i \in E THEN 1 ELSE 0
      /\ \A i \in P : w[i] = IF i \in W THEN 1 ELSE 0
  OBVIOUS
<1> HIDE DEF e, w, h
<1>6. SumFunctionOnSet(h, P) = 3 * SumFunctionOnSet(e, P) + SumFunctionOnSet(w, P)
  BY <1>3, <1>4, SumLinear
<1>7. SumFunctionOnSet(e, P) = Cardinality(E) /\ SumFunctionOnSet(w, P) = Cardinality(W)
  <2> HIDE DEF E, W
  <2> QED
    BY <1>2, <1>4, <1>5, SumCounts
<1>8. WeightOf(P, kind) = 3 * Cardinality(E) + Cardinality(W)
  BY DEF WeightOf
<1>9. P # {} => E # {} \/ W # {}
  BY <1>2
<1>10. WeightOf(P, kind) \in Nat /\ (P # {} => WeightOf(P, kind) # 0)
  <2> HIDE DEF E, W
  <2> QED
    BY <1>1, <1>8, <1>9
<1> HIDE DEF E, W
<1>11. SumFunctionOnSet(h, P) = WeightOf(P, kind)
  BY <1>1, <1>6, <1>7, <1>8
<1> QED
  BY <1>10, <1>11 DEF h

(* More checks weigh more.                                                  *)
LEMMA WeightGrows ==
  ASSUME NEW P, IsFiniteSet(P), NEW kind, NEW O \in SUBSET P
  PROVE  /\ WeightOf(O, kind) \in Nat /\ WeightOf(P, kind) \in Nat
         /\ WeightOf(O, kind) <= WeightOf(P, kind)
<1> DEFINE of(S, severe) == {i \in S : kind[i] = severe}
<1>1. ASSUME NEW severe
      PROVE  /\ Cardinality(of(O, severe)) \in Nat /\ Cardinality(of(P, severe)) \in Nat
             /\ Cardinality(of(O, severe)) <= Cardinality(of(P, severe))
  <2>1. IsFiniteSet(of(P, severe)) /\ of(O, severe) \in SUBSET of(P, severe)
    BY FS_Subset
  <2> HIDE DEF of
  <2> QED
    BY <2>1, FS_Subset, FS_CardinalityType
<1>2. \A S : WeightOf(S, kind) = 3 * Cardinality(of(S, "error")) + Cardinality(of(S, "warn"))
  BY DEF WeightOf
<1> HIDE DEF of
<1> QED
  BY <1>1, <1>2

(* Largest remainders: what the divisions leave over is less than one point *)
(* per check, and handing out one each to the first of a total order makes  *)
(* up for it.                                                               *)
Allocation(P, w, X, L, whole, over, low, all) ==
  /\ w \in [P -> Nat] /\ X \in Nat /\ L \in Nat \ {0} /\ SumFunctionOnSet(w, P) = L
  /\ whole = [i \in P |-> (X * w[i]) \div L]
  /\ over = X - SumFunctionOnSet(whole, P)
  /\ low \in SUBSET P
  /\ over \in Nat /\ over <= Cardinality(P) => Cardinality(low) = over
  /\ all = [i \in P |-> whole[i] + (IF i \in low THEN 1 ELSE 0)]

LEMMA SharesAddUp ==
  ASSUME NEW P, IsFiniteSet(P), P # {}, NEW w, NEW X, NEW L, NEW whole, NEW over, NEW low, NEW all,
         Allocation(P, w, X, L, whole, over, low, all)
  PROVE  /\ over \in Nat /\ over <= Cardinality(P)
         /\ SumFunctionOnSet(all, P) = X
<1> DEFINE rem == [i \in P |-> (X * w[i]) % L]
           share == [i \in P |-> X * w[i]]
           zero == [i \in P |-> 0]
           one == [i \in P |-> IF i \in low THEN 1 ELSE 0]
           Q == SumFunctionOnSet(whole, P)
           R == SumFunctionOnSet(rem, P)
<1>a. X \in Nat /\ L \in Nat \ {0} /\ w \in [P -> Nat] /\ SumFunctionOnSet(w, P) = L
  BY DEF Allocation
<1>b. whole = [i \in P |-> (X * w[i]) \div L]
  BY DEF Allocation
<1>c. over = X - SumFunctionOnSet(whole, P) /\ low \in SUBSET P
      /\ (over \in Nat /\ over <= Cardinality(P) => Cardinality(low) = over)
  BY DEF Allocation
<1>d. all = [i \in P |-> whole[i] + (IF i \in low THEN 1 ELSE 0)]
  BY DEF Allocation
<1>1. \A i \in P : /\ whole[i] \in Nat /\ rem[i] \in 0..L - 1
                   /\ share[i] = L * whole[i] + rem[i]
  <2> TAKE i \in P
  <2>1. PICK y \in Nat : y = X * w[i]
    BY <1>a
  <2>2. y \div L \in Nat /\ y % L \in 0..L - 1 /\ y = L * (y \div L) + (y % L)
    BY <1>a, Divided
  <2> QED
    BY <1>b, <2>1, <2>2
<1>2. /\ w \in [P -> Int] /\ share \in [P -> Int] /\ zero \in [P -> Int]
      /\ whole \in [P -> Int] /\ rem \in [P -> Nat] /\ rem \in [P -> Int]
      /\ \A i \in P : rem[i] < L
      /\ one \in [P -> Int] /\ all \in [P -> Int]
  <2>1. w \in [P -> Int] /\ share \in [P -> Int] /\ zero \in [P -> Int] /\ one \in [P -> Int]
    BY <1>a
  <2>2. whole \in [P -> Int]
    BY <1>1, <1>b
  <2>3. rem \in [P -> Nat] /\ rem \in [P -> Int] /\ \A i \in P : rem[i] < L
    <3>1. \A i \in P : rem[i] \in Nat /\ rem[i] \in Int /\ rem[i] < L
      BY <1>1, <1>a
    <3> QED
      BY <3>1
  <2>4. all \in [P -> Int]
    BY <1>1, <1>d
  <2> QED
    BY <2>1, <2>2, <2>3, <2>4
<1>3. /\ \A i \in P : share[i] = X * w[i] + zero[i]
      /\ \A i \in P : zero[i] = IF i \in {} THEN 1 ELSE 0
      /\ \A i \in P : all[i] = 1 * whole[i] + one[i]
      /\ \A i \in P : one[i] = IF i \in low THEN 1 ELSE 0
  BY <1>1, <1>a, <1>d
<1>0. X \in Int /\ L \in Int /\ 1 \in Int
  BY <1>a
<1> HIDE DEF rem, share, zero, one
<1>4. SumFunctionOnSet(zero, P) = 0
  <2>1. SumFunctionOnSet(zero, P) = Cardinality({})
    <3>1. {} \in SUBSET P
      OBVIOUS
    <3> QED
      BY <1>2, <1>3, <3>1, SumCounts
  <2> QED
    BY <2>1, FS_EmptySet
<1>5. SumFunctionOnSet(share, P) = X * L
  <2>1. SumFunctionOnSet(share, P) = X * SumFunctionOnSet(w, P) + SumFunctionOnSet(zero, P)
    <3>1. \A i \in P : share[i] = X * w[i] + zero[i]
      BY <1>3
    <3>2. w \in [P -> Int] /\ zero \in [P -> Int] /\ share \in [P -> Int]
      BY <1>2
    <3> QED
      BY <1>0, <3>1, <3>2, SumLinear
  <2> QED
    BY <1>4, <1>a, <2>1
<1>6. SumFunctionOnSet(share, P) = L * Q + R
  <2>1. \A i \in P : share[i] = L * whole[i] + rem[i]
    BY <1>1
  <2>2. whole \in [P -> Int] /\ rem \in [P -> Int] /\ share \in [P -> Int]
    BY <1>2
  <2> QED
    BY <1>0, <2>1, <2>2, SumLinear DEF Q, R
<1>7. Q \in Int /\ R \in Nat /\ R < L * Cardinality(P) /\ Cardinality(P) \in Nat
  <2>1. Q \in Int
    <3>1. P \in SUBSET P
      OBVIOUS
    <3> QED
      BY <1>2, <3>1, SumGrows
  <2>2. R \in Nat /\ R < L * Cardinality(P)
    BY <1>2, <1>a, SumBelow
  <2> QED
    BY <2>1, <2>2, FS_CardinalityType
<1> HIDE DEF Q, R
<1>8. over \in Int /\ over = X - Q /\ X = over + Q
  BY <1>7, <1>a, <1>c DEF Q
<1>9. L * over = R
  <2>1. L * (over + Q) = L * over + L * Q
    BY <1>7, <1>8, <1>a
  <2>2. X * L = L * X
    BY <1>a
  <2>3. L * Q + R = L * over + L * Q
    BY <1>5, <1>6, <1>8, <2>1, <2>2
  <2>4. L * Q \in Int /\ L * over \in Int
    BY <1>7, <1>8, <1>a
  <2> QED
    BY <1>7, <2>3, <2>4
<1>10. over \in Nat /\ over <= Cardinality(P)
  <2>1. over <= Cardinality(P)
    <3>1. L * over < L * (Cardinality(P) + 1)
      <4>1. L * (Cardinality(P) + 1) = L * Cardinality(P) + L
        BY <1>7, <1>a
      <4>2. L * Cardinality(P) \in Nat
        BY <1>7, <1>a
      <4> QED
        BY <1>7, <1>9, <1>a, <4>1, <4>2
    <3> QED
      BY <1>7, <1>8, <1>a, <3>1, QuotientIs
  <2>2. 0 <= over
    <3>1. L * 0 < L * (over + 1)
      <4>1. L * (over + 1) = L * over + L
        BY <1>8, <1>a
      <4> QED
        BY <1>7, <1>9, <1>a, <4>1
    <3> QED
      BY <1>8, <1>a, <3>1, QuotientIs
  <2> QED
    BY <1>8, <2>1, <2>2
<1>11. SumFunctionOnSet(one, P) = over
  <2>1. low \in SUBSET P /\ Cardinality(low) = over
    BY <1>10, <1>c
  <2> QED
    BY <1>2, <1>3, <2>1, SumCounts
<1>12. SumFunctionOnSet(all, P) = 1 * Q + SumFunctionOnSet(one, P)
  <2>1. \A i \in P : all[i] = 1 * whole[i] + one[i]
    BY <1>3
  <2>2. whole \in [P -> Int] /\ one \in [P -> Int] /\ all \in [P -> Int]
    BY <1>2
  <2> QED
    BY <1>0, <2>1, <2>2, SumLinear DEF Q
<1> QED
  BY <1>7, <1>8, <1>10, <1>11, <1>12

------------------------------------------------------------------------------
(* A list of results and the severities of their checks.                    *)
ScoreInv ==
  /\ result \in Seq(Results)
  /\ severity \in Seq(Severities)
  /\ Len(result) = Len(severity)

Evaluated == {i \in Members : Executed(result[i])}
Passed == {i \in Members : result[i] = "pass"}

LEMMA ScoreOf ==
  ASSUME ScoreInv
  PROVE  /\ IsFiniteSet(Members) /\ Members \in SUBSET Nat
         /\ \A i \in Members : severity[i] \in Severities /\ result[i] \in Results
         /\ IsFiniteSet(Evaluated) /\ Penalized \in SUBSET Evaluated /\ Passed \in SUBSET Evaluated
         /\ WeightOf(Evaluated, severity) \in Nat /\ WeightOf(Passed, severity) \in Nat
         /\ WeightOf(Passed, severity) <= WeightOf(Evaluated, severity)
         /\ Evaluated # {} =>
              /\ WeightOf(Evaluated, severity) # 0
              /\ Score(Members, result, severity) =
                   RoundPercentage(WeightOf(Passed, severity), WeightOf(Evaluated, severity))
              /\ Score(Members, result, severity) \in 0..100
         /\ Evaluated = {} => Score(Members, result, severity) = NoScore
<1>1. Members = 1..Len(result) /\ Members = DOMAIN severity /\ Len(result) \in Nat
  BY DEF ScoreInv, Members
<1>2. IsFiniteSet(Members) /\ Members \in SUBSET Nat
  BY <1>1, FS_Interval
<1>3. \A i \in Members : severity[i] \in Severities /\ result[i] \in Results
  BY <1>1 DEF ScoreInv, Members
<1>4. IsFiniteSet(Evaluated) /\ Penalized \in SUBSET Evaluated /\ Passed \in SUBSET Evaluated
  BY <1>2, FS_Subset DEF Evaluated, Penalized, Passed, Executed, Skipped, Gaps
<1>5. /\ WeightOf(Evaluated, severity) \in Nat /\ WeightOf(Passed, severity) \in Nat
      /\ WeightOf(Passed, severity) <= WeightOf(Evaluated, severity)
  BY <1>4, WeightGrows
<1>6. Score(Members, result, severity) =
        IF WeightOf(Evaluated, severity) = 0 THEN NoScore
        ELSE RoundPercentage(WeightOf(Passed, severity), WeightOf(Evaluated, severity))
  BY DEF Score, Evaluated, Passed
<1>7. Evaluated # {} => WeightOf(Evaluated, severity) # 0
  <2>1. \A i \in Evaluated : severity[i] \in Severities
    BY <1>3 DEF Evaluated
  <2> QED
    BY <1>4, <2>1, WeightsAddUp
<1>8. Evaluated = {} => WeightOf(Evaluated, severity) = 0
  <2>1. WeightOf({}, severity) = 3 * Cardinality({}) + Cardinality({})
    <3>1. {i \in {} : severity[i] = "error"} = {} /\ {i \in {} : severity[i] = "warn"} = {}
      OBVIOUS
    <3> QED
      BY <3>1 DEF WeightOf
  <2> QED
    BY <2>1, FS_EmptySet
<1>9. Evaluated # {} => Score(Members, result, severity) \in 0..100
  BY <1>5, <1>6, <1>7, RoundingBounds
<1> QED
  BY <1>2, <1>3, <1>4, <1>5, <1>6, <1>7, <1>8, <1>9

(* The points handed out are the points lost.                               *)
LEMMA PointsAreHandedOut == ScoreInv => DeductionsAddUp
<1> SUFFICES ASSUME ScoreInv, Penalized # {}
             PROVE  SumFunction([i \in Penalized |-> Deduction(i)]) = PointsLost
  BY DEF DeductionsAddUp
<1> DEFINE P == Penalized
           L == WeightOf(P, severity)
           w == [i \in P |-> Weight(severity[i])]
           share(j) == PointsLost * Weight(severity[j])
           whole == [i \in P |-> (PointsLost * w[i]) \div L]
           over == PointsLost - SumFunctionOnSet(whole, P)
           before(j, k) == \/ share(j) % L > share(k) % L
                           \/ share(j) % L = share(k) % L /\ j < k
           B == {pair \in P \X P : before(pair[1], pair[2])}
           low == {i \in P : Cardinality({j \in P : <<j, i>> \in B}) < over}
           all == [i \in P |-> whole[i] + (IF i \in low THEN 1 ELSE 0)]
<1>1. /\ IsFiniteSet(P) /\ P \in SUBSET Nat /\ \A i \in P : severity[i] \in Severities
      /\ PointsLost \in Nat
  <2>1. Evaluated # {} /\ Penalized \in SUBSET Evaluated /\ IsFiniteSet(Evaluated)
    BY ScoreOf
  <2>2. PointsLost \in Nat
    BY <2>1, ScoreOf DEF PointsLost
  <2>3. \A i \in P : i \in Nat /\ severity[i] \in Severities
    BY ScoreOf DEF Penalized
  <2> QED
    BY <2>1, <2>2, <2>3, FS_Subset
<1>2. L \in Nat \ {0} /\ w \in [P -> Nat] /\ SumFunctionOnSet(w, P) = L
  <2>1. w \in [P -> Nat]
    BY DEF Weight
  <2> QED
    BY <1>1, <2>1, WeightsAddUp
<1>3. IsOrder(B, P)
  <2> DEFINE rem(j) == share(j) % L
  <2>1. \A j \in P : rem(j) \in Int
    <3> TAKE j \in P
    <3>1. PICK y \in Nat : y = share(j)
      BY <1>1 DEF Weight
    <3>2. y % L \in 0..L - 1
      BY <1>2, Divided
    <3> QED
      BY <3>1, <3>2
  <2>2. \A j, k \in P : <<j, k>> \in B <=> rem(j) > rem(k) \/ (rem(j) = rem(k) /\ j < k)
    OBVIOUS
  <2>3. B \in SUBSET (P \X P) /\ \A j \in P : j \in Nat
    BY <1>1
  <2> HIDE DEF B, rem, P
  <2> QED
    BY <2>1, <2>2, <2>3 DEF IsOrder
<1>4. over \in Nat /\ over <= Cardinality(P) => Cardinality(low) = over
  <2> HIDE DEF B, P, over
  <2> QED
    BY <1>1, <1>3, RanksAreApart
<1>5. Allocation(P, w, PointsLost, L, whole, over, low, all)
  <2>1. low \in SUBSET P
    OBVIOUS
  <2> HIDE DEF low, P, L, w
  <2> QED
    BY <1>1, <1>2, <1>4, <2>1 DEF Allocation
<1>6. SumFunctionOnSet(all, P) = PointsLost
  <2> HIDE DEF low, P, L, w, whole, over, all
  <2> QED
    BY <1>1, <1>5, SharesAddUp DEF P
<1>7. [i \in P |-> Deduction(i)] = all
  <2>1. ASSUME NEW i \in P PROVE Deduction(i) = all[i]
    <3>1. {j \in P : <<j, i>> \in B} = {j \in P : before(j, i)}
      OBVIOUS
    <3>2. whole = [j \in P |-> share(j) \div L]
      OBVIOUS
    <3>3. SumFunction(whole) = SumFunctionOnSet(whole, P)
      BY DEF SumFunction
    <3>4. over = PointsLost - SumFunction([j \in P |-> share(j) \div L])
      BY <3>2, <3>3
    <3>5. Deduction(i) = (share(i) \div L) + (IF Cardinality({j \in P : before(j, i)}) < over THEN 1 ELSE 0)
      <4> HIDE DEF over
      <4> QED
        BY <3>4 DEF Deduction
    <3> QED
      BY <3>1, <3>5
  <2> HIDE DEF all
  <2>2. DOMAIN all = P /\ all = [i \in P |-> all[i]]
    BY DEF all
  <2> QED
    BY <2>1, <2>2
<1> QED
  BY <1>6, <1>7 DEF SumFunction

(* The exit code of an accepted status, as the cases of the proofs take it. *)
Hard(status) == \E i \in Members : IsHard(status, result[i], severity[i])
Soft == \E i \in Members : IsSoft(result[i], severity[i])

ExitFacts ==
  \A status \in {"complete", "partial"} :
    Exit(status) = IF Hard(status) THEN 1
                   ELSE IF status = "partial" \/ NothingEvaluated(Members, result) \/ Soft THEN 2
                   ELSE 0

LEMMA ExitOf == ExitFacts
BY DEF ExitFacts, Exit, ExitCode, Hard, Soft

LEMMA TwoStatuses == Allowed \subseteq {"complete", "partial"}
BY DEF Allowed, RunStatuses

(* Exit 0 leaves nothing but passes among what was evaluated.               *)
LEMMA GreenIsFull == ScoreInv => GreenMeansFullScore
<1> SUFFICES ASSUME ScoreInv, NEW status \in Allowed, Exit(status) = 0
             PROVE  /\ status = "complete"
                    /\ Score(Members, result, severity) \in {100, NoScore}
                    /\ \A i \in Members : result[i] \in {"pass", "generated", "model_absent"}
                    /\ \/ \E i \in Members : result[i] = "pass"
                       \/ Members # {} /\ \A i \in Members : result[i] = "model_absent"
  BY DEF GreenMeansFullScore
<1>1. status = "complete" /\ ~Hard(status) /\ ~Soft /\ ~NothingEvaluated(Members, result)
  BY ExitOf, TwoStatuses DEF ExitFacts
<1>2. \A i \in Members : severity[i] \in Severities /\ result[i] \in Results
  BY ScoreOf
<1>3. \A i \in Members : result[i] \notin Gaps
  BY <1>1 DEF Allowed, Accepts
<1>4. \A i \in Members : result[i] \in {"pass", "generated", "model_absent"}
  BY <1>1, <1>2, <1>3 DEF Hard, Soft, IsHard, IsSoft, Skipped, Results, Measured, Errored, Severities
<1>5. \/ \E i \in Members : result[i] = "pass"
      \/ Members # {} /\ \A i \in Members : result[i] = "model_absent"
  BY <1>1, <1>4 DEF NothingEvaluated, Executed, Skipped
<1>6. Evaluated = Passed
  BY <1>4 DEF Evaluated, Passed, Executed, Skipped, Gaps
<1>7. CASE Evaluated = {}
  BY <1>1, <1>4, <1>5, <1>7, ScoreOf
<1>8. CASE Evaluated # {}
  <2>1. WeightOf(Evaluated, severity) \in Nat \ {0}
    BY <1>8, ScoreOf
  <2>2. RoundPercentage(WeightOf(Evaluated, severity), WeightOf(Evaluated, severity)) = 100
    BY <2>1, RoundingBounds
  <2>3. Score(Members, result, severity) = RoundPercentage(WeightOf(Passed, severity), WeightOf(Evaluated, severity))
    BY <1>8, ScoreOf
  <2> QED
    BY <1>1, <1>4, <1>5, <1>6, <2>2, <2>3
<1> QED
  BY <1>7, <1>8

LEMMA WeightSame ==
  ASSUME NEW S, NEW kind, NEW other, \A i \in S : kind[i] = other[i]
  PROVE  WeightOf(S, kind) = WeightOf(S, other)
<1>1. \A severe : {i \in S : kind[i] = severe} = {i \in S : other[i] = severe}
  OBVIOUS
<1> QED
  BY <1>1 DEF WeightOf

(* One more check.                                                          *)
LEMMA ListGrows ==
  ASSUME ScoreInv, AddCheck
  PROVE  /\ ScoreInv'
         /\ Members' = Members \cup {Len(result')}
         /\ \A i \in Members : result'[i] = result[i] /\ severity'[i] = severity[i]
<1>1. PICK s \in Severities : \E r \in Possible(s) : severity' = Append(severity, s) /\ result' = Append(result, r)
  BY DEF AddCheck
<1>0. PICK r \in Possible(s) : severity' = Append(severity, s) /\ result' = Append(result, r)
  BY <1>1
<1>2. r \in Results
  BY DEF Possible
<1>3. result \in Seq(Results) /\ severity \in Seq(Severities) /\ Len(result) = Len(severity)
  BY DEF ScoreInv
<1>4. Append(result, r) \in Seq(Results) /\ Append(severity, s) \in Seq(Severities)
  BY <1>2, <1>3
<1>5. Len(Append(result, r)) = Len(result) + 1 /\ Len(Append(severity, s)) = Len(severity) + 1
  BY <1>3
<1>6. /\ \A i \in 1..Len(result) : Append(result, r)[i] = result[i]
      /\ \A i \in 1..Len(severity) : Append(severity, s)[i] = severity[i]
  BY <1>3
<1>7. Len(result) \in Nat /\ Members = 1..Len(result) /\ DOMAIN Append(result, r) = 1..Len(result) + 1
  BY <1>3, <1>4, <1>5 DEF Members
<1>8. ScoreInv'
  BY <1>0, <1>3, <1>4, <1>5 DEF ScoreInv
<1>9. Members' = Members \cup {Len(result')}
  <2>1. 1..Len(result) + 1 = (1..Len(result)) \cup {Len(result) + 1}
    BY <1>7
  <2> QED
    BY <1>0, <1>5, <1>7, <2>1 DEF Members
<1>10. \A i \in Members : result'[i] = result[i] /\ severity'[i] = severity[i]
  BY <1>0, <1>3, <1>6, <1>7
<1> QED
  BY <1>8, <1>9, <1>10

(* What ScoreOf says, by name, to say it of the list after a step.          *)
ScoreFacts ==
  /\ IsFiniteSet(Evaluated) /\ WeightOf(Evaluated, severity) \in Nat
  /\ Evaluated # {} => Score(Members, result, severity) =
                         RoundPercentage(WeightOf(Passed, severity), WeightOf(Evaluated, severity))

LEMMA FactsAfter == ScoreInv' => ExitFacts' /\ ScoreFacts'
<1>1. ScoreInv => ScoreFacts
  BY ScoreOf DEF ScoreFacts
<1> QED
  BY <1>1, ExitOf, PTL

LEMMA ScoreAfter ==
  ASSUME ScoreInv'
  PROVE  /\ IsFiniteSet(Evaluated') /\ WeightOf(Evaluated', severity') \in Nat
         /\ Evaluated' # {} => Score(Members', result', severity') =
                                 RoundPercentage(WeightOf(Passed', severity'), WeightOf(Evaluated', severity'))
BY FactsAfter DEF ScoreFacts

(* The exit code after one more check.                                      *)
LEMMA CodeKept ==
  ASSUME ScoreInv, AddCheck, \E i \in Members : Executed(result[i]),
         NEW b \in Allowed, NEW a \in {b, "partial"}
  PROVE  \/ Gravity(Exit(a)') >= Gravity(Exit(b))
         \/ b = "complete" /\ a = "partial" /\ OnlyTimeouts(b)
<1>1. /\ ScoreInv' /\ Members \subseteq Members'
      /\ \A i \in Members : result'[i] = result[i] /\ severity'[i] = severity[i]
  BY ListGrows
<1>2. a \in {"complete", "partial"} /\ b \in {"complete", "partial"}
  BY TwoStatuses
<1>3. Exit(a)' = IF Hard(a)' THEN 1
                 ELSE IF a = "partial" \/ NothingEvaluated(Members', result') \/ Soft' THEN 2
                 ELSE 0
  BY <1>1, <1>2, FactsAfter DEF ExitFacts
<1>4. Exit(b) = IF Hard(b) THEN 1
                ELSE IF b = "partial" \/ NothingEvaluated(Members, result) \/ Soft THEN 2
                ELSE 0
  BY <1>2, ExitOf DEF ExitFacts
<1>5. Gravity(0) = 0 /\ Gravity(2) = 1 /\ Gravity(1) = 2
  BY DEF Gravity
<1>6. ~NothingEvaluated(Members, result)
  BY DEF NothingEvaluated
<1>7. Soft => Soft'
  BY <1>1 DEF Soft
<1>8. CASE Hard(b)
  <2>1. PICK i \in Members : IsHard(b, result[i], severity[i])
    BY <1>8 DEF Hard
  <2>2. CASE a = b
    <3>1. Hard(a)'
      BY <1>1, <2>1, <2>2 DEF Hard
    <3> QED
      BY <1>3, <1>4, <1>5, <1>8, <3>1
  <2>3. CASE a # b /\ ~OnlyTimeouts(b)
    <3>1. PICK j \in Members : IsHard(b, result[j], severity[j]) /\ result[j] # "timeout"
      BY <2>3 DEF OnlyTimeouts
    <3>2. IsHard(a, result'[j], severity'[j])
      BY <1>1, <3>1 DEF IsHard
    <3>3. Hard(a)'
      BY <1>1, <3>2 DEF Hard
    <3> QED
      BY <1>3, <1>4, <1>5, <1>8, <3>3
  <2> QED
    BY <1>2, <2>2, <2>3
<1>9. CASE ~Hard(b) /\ (b = "partial" \/ Soft)
  <2>1. Exit(b) = 2 /\ Exit(a)' \in {1, 2}
    BY <1>3, <1>4, <1>7, <1>9
  <2> QED
    BY <1>5, <2>1
<1>10. CASE ~Hard(b) /\ b # "partial" /\ ~Soft
  <2>1. Exit(b) = 0 /\ Exit(a)' \in {0, 1, 2}
    BY <1>3, <1>4, <1>6, <1>10
  <2> QED
    BY <1>5, <2>1
<1> QED
  BY <1>8, <1>9, <1>10

LEMMA NothingFlatters ==
  ASSUME ScoreInv, AddCheck
  PROVE  NeverFlatters
<1> SUFFICES ASSUME \E i \in Members : Executed(result[i])
             PROVE  /\ \A before \in Allowed : \A after \in {before, "partial"} :
                         \/ Gravity(Exit(after)') >= Gravity(Exit(before))
                         \/ before = "complete" /\ after = "partial" /\ OnlyTimeouts(before)
                    /\ result'[Len(result')] # "pass" =>
                         Score(Members, result, severity)' <= Score(Members, result, severity)
  BY DEF NeverFlatters
<1>1. /\ ScoreInv' /\ Members' = Members \cup {Len(result')}
      /\ \A i \in Members : result'[i] = result[i] /\ severity'[i] = severity[i]
  BY ListGrows
<1>2. \A before \in Allowed : \A after \in {before, "partial"} :
        \/ Gravity(Exit(after)') >= Gravity(Exit(before))
        \/ before = "complete" /\ after = "partial" /\ OnlyTimeouts(before)
  BY CodeKept
<1>3. ASSUME result'[Len(result')] # "pass"
      PROVE  Score(Members, result, severity)' <= Score(Members, result, severity)
  <2> DEFINE E == Evaluated
             F == Evaluated'
  <2>1. Passed' = Passed
    BY <1>1, <1>3 DEF Passed
  <2>2. E \in SUBSET F /\ E # {} /\ F # {}
    BY <1>1 DEF Evaluated
  <2>3. /\ WeightOf(E, severity) \in Nat \ {0} /\ WeightOf(Passed, severity) \in Nat
        /\ Score(Members, result, severity) = RoundPercentage(WeightOf(Passed, severity), WeightOf(E, severity))
    BY <2>2, ScoreOf
  <2>4. /\ IsFiniteSet(F) /\ WeightOf(F, severity') \in Nat
        /\ Score(Members', result', severity') = RoundPercentage(WeightOf(Passed', severity'), WeightOf(F, severity'))
    BY <1>1, <2>2, ScoreAfter
  <2>5. WeightOf(Passed, severity') = WeightOf(Passed, severity) /\ WeightOf(E, severity') = WeightOf(E, severity)
    <3>1. \A i \in Passed \cup Evaluated : severity'[i] = severity[i]
      BY <1>1 DEF Passed, Evaluated
    <3> QED
      BY <3>1, WeightSame
  <2>6. WeightOf(E, severity') <= WeightOf(F, severity')
    BY <2>2, <2>4, WeightGrows
  <2> DEFINE e == WeightOf(E, severity)
             f == WeightOf(F, severity')
             got == WeightOf(Passed, severity)
  <2>7. e \in Nat \ {0} /\ f \in Nat /\ got \in Nat /\ e <= f
    BY <2>3, <2>4, <2>5, <2>6
  <2>8. Score(Members, result, severity)' = RoundPercentage(got, f) /\ Score(Members, result, severity) = RoundPercentage(got, e)
    BY <2>1, <2>3, <2>4, <2>5
  <2> HIDE DEF e, f, got
  <2> QED
    BY <2>7, <2>8, RoundingKeepsOrder
<1> QED
  BY <1>2, <1>3

(* Scoring, of a list of any length: but for the budget timeouts that a     *)
(* partial run forgives no further check makes a run that evaluated         *)
(* something look better than it did, the points attributed to the checks   *)
(* are the points the score lost, and a green run is complete, has lost     *)
(* none and checked something, or found its model absent                    *)
(* (scoring.py:51-152, contracts/results.py:219-246, 397-401).              *)
THEOREM ScoresStayHonest == Spec => ScoresAreHonest
<1>1. Init => ScoreInv
  BY DEF Init, ScoreInv
<1>2. ScoreInv /\ [Next]_vars => ScoreInv'
  <2>1. ScoreInv /\ AddCheck => ScoreInv'
    BY ListGrows
  <2>2. ScoreInv /\ UNCHANGED vars => ScoreInv'
    BY DEF ScoreInv, vars
  <2> QED
    BY <2>1, <2>2 DEF Next
<1>3. ScoreInv /\ [Next]_vars => [NeverFlatters /\ DeductionsAddUp' /\ GreenMeansFullScore']_vars
  <2>1. (ScoreInv => DeductionsAddUp /\ GreenMeansFullScore)'
    BY PointsAreHandedOut, GreenIsFull, PTL
  <2> QED
    BY <1>2, <2>1, NothingFlatters DEF Next
<1> QED
  BY <1>1, <1>2, <1>3, PTL DEF Spec, ScoresAreHonest
================================================================================
