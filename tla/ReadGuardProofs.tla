--------------------------- MODULE ReadGuardProofs ---------------------------
(***************************************************************************)
(* The safety properties of ReadGuard, for any calls, queries, allowances, *)
(* deadlines and cache capacity.                                           *)
(***************************************************************************)
EXTENDS ReadGuard, TLAPS

(* A preflight in flight is led by a call that is classifying that key and *)
(* has an event; while the client is open every classifying call leads;    *)
(* and whoever waits has been told to look again or waits for the leader.  *)
LeadersInv ==
  \A k \in Keys : inflight[k] # Nobody =>
    /\ inflight[k] \in Classifying \cap events
    /\ Key(inflight[k]) = k
    /\ ~Cached(k)

OpenInv == ~closed => \A c \in Classifying : inflight[Key(c)] = c

WaitInv ==
  \A c \in Calls : pc[c] = "waiting" =>
    waitsFor[c] \in signalled \/ (waitsFor[c] # Nobody /\ inflight[Key(c)] = waitsFor[c])

FlightInv == LeadersInv /\ OpenInv /\ WaitInv

CacheInv == Range(entries) \subseteq Reads

GuardInv ==
  TypeOK /\ CacheInv /\ AdmitsOnlyReads /\ NothingOutlivesClose /\ FlightInv

------------------------------------------------------------------------------
(* What the cache's own operations return.                                 *)

LEMMA KeyType == \A c \in Calls : Key(c) \in Keys
BY GuardAssumption DEF Key, Keys, Allowance, Allowances

LEMMA MovedToEnd ==
  ASSUME NEW s \in Seq(Keys), NEW k \in Keys
  PROVE  /\ MoveToEnd(s, k) \in Seq(Keys)
         /\ Len(MoveToEnd(s, k)) = IF k \in Range(s) THEN Len(s) ELSE Len(s) + 1
         /\ Range(MoveToEnd(s, k)) \subseteq Range(s) \cup {k}
<1> DEFINE p == Position(s, k)
<1> DEFINE before == SubSeq(s, 1, p - 1)
<1> DEFINE after == SubSeq(s, p + 1, Len(s))
<1>1. p \in 1..(Len(s) + 1) /\ (k \in Range(s) => p \in 1..Len(s))
      /\ (k \notin Range(s) => p = Len(s) + 1)
  <2>1. CASE k \in Range(s)
    <3>1. \E q \in DOMAIN s : s[q] = k
      BY <2>1 DEF Range
    <3>2. p \in DOMAIN s
      BY <2>1, <3>1 DEF Position
    <3> QED
      BY <2>1, <3>2
  <2>2. CASE k \notin Range(s)
    BY <2>2 DEF Position
  <2> QED
    BY <2>1, <2>2
<1> HIDE DEF p
<1>2. /\ before \in Seq(Keys)
      /\ Len(before) = p - 1
      /\ \A i \in 1..Len(before) : before[i] = s[i]
  BY <1>1
<1>3. /\ after \in Seq(Keys)
      /\ Len(after) = IF p <= Len(s) THEN Len(s) - p ELSE 0
      /\ \A i \in 1..Len(after) : after[i] = s[p + i]
  BY <1>1
<1> HIDE DEF before, after
<1>4. MoveToEnd(s, k) = before \o after \o <<k>>
  BY DEF MoveToEnd, before, after, p
<1>5. /\ MoveToEnd(s, k) \in Seq(Keys)
      /\ Len(MoveToEnd(s, k)) = Len(before) + Len(after) + 1
  BY <1>2, <1>3, <1>4
<1>6. \A i \in DOMAIN MoveToEnd(s, k) : MoveToEnd(s, k)[i] \in Range(s) \cup {k}
  <2> TAKE i \in DOMAIN MoveToEnd(s, k)
  <2>1. i \in 1..(Len(before) + Len(after) + 1)
    BY <1>5
  <2>2. CASE i <= Len(before)
    <3>1. i \in 1..Len(before) /\ i \in DOMAIN s
      BY <1>1, <1>2, <2>1, <2>2
    <3>2. MoveToEnd(s, k)[i] = before[i]
      BY <1>2, <1>3, <1>4, <3>1
    <3> QED
      BY <1>2, <3>1, <3>2 DEF Range
  <2>3. CASE Len(before) < i /\ i <= Len(before) + Len(after)
    <3>1. MoveToEnd(s, k)[i] = after[i - Len(before)]
      BY <1>2, <1>3, <1>4, <2>1, <2>3
    <3>2. i - Len(before) \in 1..Len(after)
      BY <1>2, <1>3, <2>1, <2>3
    <3>3. p + (i - Len(before)) \in DOMAIN s
      BY <1>1, <1>2, <1>3, <3>2
    <3> QED
      BY <1>3, <3>1, <3>2, <3>3 DEF Range
  <2>4. CASE i = Len(before) + Len(after) + 1
    BY <1>2, <1>3, <1>4, <2>4
  <2> QED
    <3>1. i \in Nat /\ Len(before) \in Nat /\ Len(after) \in Nat
      BY <1>2, <1>3, <2>1
    <3>2. i <= Len(before) \/ (Len(before) < i /\ i <= Len(before) + Len(after))
          \/ i = Len(before) + Len(after) + 1
      BY <2>1, <3>1
    <3> QED
      BY <2>2, <2>3, <2>4, <3>2
<1>7. Len(MoveToEnd(s, k)) = IF k \in Range(s) THEN Len(s) ELSE Len(s) + 1
  BY <1>1, <1>2, <1>3, <1>5
<1> QED
  BY <1>5, <1>6, <1>7 DEF Range

LEMMA Inserted ==
  ASSUME TypeOK, NEW k \in Keys
  PROVE  /\ Insert(k) \in Seq(Keys)
         /\ Len(Insert(k)) <= MaxSize
         /\ Range(Insert(k)) \subseteq Range(entries) \cup {k}
<1> DEFINE s == MoveToEnd(entries, k)
<1>1. s \in Seq(Keys) /\ Len(s) <= MaxSize + 1 /\ Range(s) \subseteq Range(entries) \cup {k}
  <2>1. entries \in Seq(Keys) /\ Len(entries) \in Nat /\ Len(entries) <= MaxSize /\ MaxSize \in Nat
    BY GuardAssumption DEF TypeOK
  <2>2. /\ s \in Seq(Keys)
        /\ Len(s) = IF k \in Range(entries) THEN Len(entries) ELSE Len(entries) + 1
        /\ Range(s) \subseteq Range(entries) \cup {k}
    BY <2>1, MovedToEnd
  <2> HIDE DEF s
  <2> QED
    BY <2>1, <2>2
<1> HIDE DEF s
<1>2. Insert(k) = IF Len(s) > MaxSize THEN Tail(s) ELSE s
  BY DEF Insert, s
<1>3. CASE Len(s) > MaxSize
  <2>1. /\ Tail(s) \in Seq(Keys)
        /\ Len(Tail(s)) = Len(s) - 1
        /\ \A i \in DOMAIN Tail(s) : Tail(s)[i] = s[i + 1] /\ i + 1 \in DOMAIN s
    BY <1>1, <1>3, GuardAssumption
  <2>2. Range(Tail(s)) \subseteq Range(s)
    BY <2>1 DEF Range
  <2>3. Len(s) \in Nat /\ MaxSize \in Nat
    BY <1>1, GuardAssumption
  <2> QED
    BY <1>1, <1>2, <1>3, <2>1, <2>2, <2>3
<1>4. CASE ~(Len(s) > MaxSize)
  BY <1>1, <1>2, <1>4, GuardAssumption
<1> QED
  BY <1>3, <1>4

LEMMA GuardInit == Init => GuardInv
<1> SUFFICES ASSUME Init PROVE GuardInv
  OBVIOUS
<1>1. TypeOK
  <2>1. entries \in Seq(Keys) /\ Len(entries) <= MaxSize
    BY GuardAssumption DEF Init
  <2>2. inflight \in [Keys -> Calls \cup {Nobody}]
    BY DEF Init
  <2> QED
    BY <2>1, <2>2 DEF Init, TypeOK, Stages, Ended
<1>2. CacheInv /\ AdmitsOnlyReads
  BY DEF Init, CacheInv, AdmitsOnlyReads, Range
<1>3. NothingOutlivesClose
  BY DEF Init, NothingOutlivesClose
<1>4. FlightInv
  BY KeyType DEF Init, FlightInv, LeadersInv, OpenInv, WaitInv, Classifying
<1> QED
  BY <1>1, <1>2, <1>3, <1>4 DEF GuardInv

------------------------------------------------------------------------------
(* Each conjunct, action by action.                                        *)

LEMMA TypeStep == TypeOK /\ FlightInv /\ [Next]_vars => TypeOK'
<1> SUFFICES ASSUME TypeOK, FlightInv, [Next]_vars PROVE TypeOK'
  OBVIOUS
<1> USE DEF Stages, Ended, Goto, Signal, cache
<1>1. ASSUME NEW c \in Calls, Hit(c) PROVE TypeOK'
  <2>1. entries' \in Seq(Keys) /\ Len(entries') = Len(entries)
    BY <1>1, KeyType, MovedToEnd DEF Hit, Cached, TypeOK
  <2> QED
    BY <1>1, <2>1 DEF Hit, TypeOK
<1>2. ASSUME NEW c \in Calls, MissClosed(c) PROVE TypeOK'
  BY <1>2 DEF MissClosed, TypeOK
<1>3. ASSUME NEW c \in Calls, Lead(c) PROVE TypeOK'
  <2>1. inflight' \in [Keys -> Calls \cup {Nobody}]
    BY <1>3, KeyType DEF Lead, TypeOK
  <2>2. events' \subseteq Calls /\ signalled' \subseteq events'
    BY <1>3 DEF Lead, TypeOK
  <2> QED
    BY <1>3, <2>1, <2>2 DEF Lead, TypeOK
<1>4. ASSUME NEW c \in Calls, Join(c) PROVE TypeOK'
  BY <1>4, KeyType DEF Join, TypeOK
<1>5. ASSUME NEW c \in Calls, Wake(c) PROVE TypeOK'
  BY <1>5 DEF Wake, TypeOK
<1>6. ASSUME NEW c \in Calls, Submit(c) PROVE TypeOK'
  BY <1>6 DEF Submit, TypeOK
<1>7. ASSUME NEW c \in Calls, Fail(c) PROVE TypeOK'
  BY <1>7, KeyType DEF Fail, TypeOK
<1>8. ASSUME NEW c \in Calls, Classified(c) PROVE TypeOK'
  <2>1. entries' \in Seq(Keys) /\ Len(entries') <= MaxSize
    BY <1>8, KeyType, Inserted DEF Classified, TypeOK
  <2> QED
    BY <1>8, <2>1 DEF Classified, TypeOK
<1>9. ASSUME NEW c \in Calls, Run(c) PROVE TypeOK'
  BY <1>9 DEF Run, TypeOK
<1>10. ASSUME NEW c \in Calls, Expire(c) PROVE TypeOK'
  BY <1>10 DEF Expire, TypeOK
<1>11. CASE Close
  <2>1. signalled' \subseteq events'
    BY <1>11 DEF Close, TypeOK, FlightInv, LeadersInv, Range
  <2> QED
    BY <1>11, <2>1, GuardAssumption DEF Close, TypeOK
<1>12. CASE UNCHANGED vars
  BY <1>12 DEF vars, TypeOK
<1> QED
  BY <1>1, <1>2, <1>3, <1>4, <1>5, <1>6, <1>7, <1>8, <1>9, <1>10, <1>11, <1>12
     DEF Next, CallStep

LEMMA HitKeepsKeys ==
  ASSUME TypeOK, NEW c \in Calls, Hit(c)
  PROVE  Range(entries') \subseteq Range(entries)
BY KeyType, MovedToEnd DEF Hit, Cached, TypeOK

(* What is cached was classified as a read, and a call is admitted on a    *)
(* cached key or on its own classification.                                *)
LEMMA CacheStep ==
  TypeOK /\ CacheInv /\ AdmitsOnlyReads /\ [Next]_vars => (CacheInv /\ AdmitsOnlyReads)'
<1> SUFFICES ASSUME TypeOK, CacheInv, AdmitsOnlyReads, [Next]_vars
             PROVE  CacheInv' /\ AdmitsOnlyReads'
  OBVIOUS
<1> USE DEF Goto, cache
<1>1. ASSUME NEW c \in Calls, Hit(c) PROVE CacheInv' /\ AdmitsOnlyReads'
  <2>1. Range(entries') \subseteq Range(entries)
    BY <1>1, HitKeepsKeys
  <2>2. Key(c) \in Reads
    BY <1>1 DEF Hit, Cached, CacheInv
  <2> QED
    BY <1>1, <2>1, <2>2 DEF Hit, TypeOK, CacheInv, AdmitsOnlyReads, Key
<1>2. ASSUME NEW c \in Calls, Classified(c) PROVE CacheInv' /\ AdmitsOnlyReads'
  <2>1. Range(entries') \subseteq Range(entries) \cup {Key(c)}
    BY <1>2, KeyType, Inserted DEF Classified
  <2> QED
    BY <1>2, <2>1 DEF Classified, IsRead, TypeOK, CacheInv, AdmitsOnlyReads, Key
<1>3. ASSUME NEW c \in Calls,
             MissClosed(c) \/ Lead(c) \/ Join(c) \/ Wake(c) \/ Submit(c) \/ Fail(c) \/ Expire(c)
      PROVE  CacheInv' /\ AdmitsOnlyReads'
  <2>1. UNCHANGED entries
    BY <1>3 DEF MissClosed, Lead, Join, Wake, Submit, Fail, Expire
  <2>2. \A d \in Calls : pc'[d] \in {"admitted", "ran"} => pc[d] = pc'[d]
    BY <1>3 DEF MissClosed, Lead, Join, Wake, Submit, Fail, Expire, TypeOK
  <2> QED
    BY <2>1, <2>2 DEF CacheInv, AdmitsOnlyReads
<1>4. ASSUME NEW c \in Calls, Run(c) PROVE CacheInv' /\ AdmitsOnlyReads'
  BY <1>4 DEF Run, TypeOK, CacheInv, AdmitsOnlyReads
<1>5. CASE Close
  <2>1. Range(entries') = {}
    BY <1>5 DEF Close, Range
  <2> QED
    BY <1>5, <2>1 DEF Close, CacheInv, AdmitsOnlyReads
<1>6. CASE UNCHANGED vars
  BY <1>6 DEF vars, CacheInv, AdmitsOnlyReads
<1> QED
  BY <1>1, <1>2, <1>3, <1>4, <1>5, <1>6 DEF Next, CallStep

(* Once closed, the cache is only written by a call whose preflight is     *)
(* still registered, and none is.                                          *)
LEMMA CloseStep ==
  TypeOK /\ NothingOutlivesClose /\ [Next]_vars => NothingOutlivesClose'
<1> SUFFICES ASSUME TypeOK, NothingOutlivesClose, [Next]_vars PROVE NothingOutlivesClose'
  OBVIOUS
<1> USE DEF Goto, cache
<1>1. ASSUME NEW c \in Calls, Hit(c) PROVE NothingOutlivesClose'
  <2>1. ~closed
    BY <1>1 DEF Hit, Cached, Range, NothingOutlivesClose
  <2> QED
    BY <1>1, <2>1 DEF Hit, NothingOutlivesClose
<1>2. ASSUME NEW c \in Calls, Fail(c) PROVE NothingOutlivesClose'
  BY <1>2, KeyType DEF Fail, NothingOutlivesClose, TypeOK
<1>3. ASSUME NEW c \in Calls, Classified(c) PROVE NothingOutlivesClose'
  BY <1>3 DEF Classified, NothingOutlivesClose
<1>4. ASSUME NEW c \in Calls,
             MissClosed(c) \/ Lead(c) \/ Join(c) \/ Wake(c) \/ Submit(c) \/ Run(c) \/ Expire(c)
      PROVE  NothingOutlivesClose'
  BY <1>4 DEF MissClosed, Lead, Join, Wake, Submit, Run, Expire, NothingOutlivesClose
<1>5. CASE Close
  BY <1>5 DEF Close, NothingOutlivesClose
<1>6. CASE UNCHANGED vars
  BY <1>6 DEF vars, NothingOutlivesClose
<1> QED
  BY <1>1, <1>2, <1>3, <1>4, <1>5, <1>6 DEF Next, CallStep

LEMMA FlightStep ==
  TypeOK /\ NothingOutlivesClose /\ FlightInv /\ [Next]_vars => FlightInv'
<1> SUFFICES ASSUME TypeOK, NothingOutlivesClose, LeadersInv, OpenInv, WaitInv, [Next]_vars
             PROVE  LeadersInv' /\ OpenInv' /\ WaitInv'
  BY DEF FlightInv
<1> DEFINE Goal == LeadersInv' /\ OpenInv' /\ WaitInv'
<1> USE DEF Goto, cache, Classifying, Key, Cached, Allowance
<1>1. ASSUME NEW c \in Calls, Hit(c) PROVE Goal
  <2>1. Range(entries') \subseteq Range(entries)
    BY <1>1, HitKeepsKeys
  <2>2. LeadersInv'
    BY <1>1, <2>1 DEF Hit, TypeOK, LeadersInv
  <2>3. OpenInv'
    BY <1>1 DEF Hit, TypeOK, OpenInv
  <2>4. WaitInv'
    BY <1>1 DEF Hit, TypeOK, WaitInv
  <2> QED
    BY <2>2, <2>3, <2>4
<1>2. ASSUME NEW c \in Calls, MissClosed(c) PROVE Goal
  <2>1. LeadersInv'
    BY <1>2 DEF MissClosed, TypeOK, LeadersInv
  <2>2. OpenInv'
    BY <1>2 DEF MissClosed, OpenInv
  <2>3. WaitInv'
    BY <1>2 DEF MissClosed, TypeOK, WaitInv
  <2> QED
    BY <2>1, <2>2, <2>3
<1>3. ASSUME NEW c \in Calls, Lead(c) PROVE Goal
  <2>1. LeadersInv'
    BY <1>3, KeyType DEF Lead, TypeOK, LeadersInv
  <2>2. OpenInv'
    BY <1>3, KeyType, GuardAssumption DEF Lead, TypeOK, OpenInv
  <2>3. WaitInv'
    BY <1>3, KeyType DEF Lead, TypeOK, WaitInv
  <2> QED
    BY <2>1, <2>2, <2>3
<1>4. ASSUME NEW c \in Calls, Join(c) PROVE Goal
  <2>1. LeadersInv'
    BY <1>4 DEF Join, TypeOK, LeadersInv
  <2>2. OpenInv'
    BY <1>4 DEF Join, TypeOK, OpenInv
  <2>3. WaitInv'
    BY <1>4 DEF Join, TypeOK, WaitInv
  <2> QED
    BY <2>1, <2>2, <2>3
<1>5. ASSUME NEW c \in Calls, Wake(c) PROVE Goal
  <2>1. LeadersInv'
    BY <1>5 DEF Wake, TypeOK, LeadersInv
  <2>2. OpenInv'
    BY <1>5 DEF Wake, TypeOK, OpenInv
  <2>3. WaitInv'
    BY <1>5 DEF Wake, TypeOK, WaitInv
  <2> QED
    BY <2>1, <2>2, <2>3
<1>6. ASSUME NEW c \in Calls, Submit(c) PROVE Goal
  <2>1. LeadersInv'
    BY <1>6 DEF Submit, TypeOK, LeadersInv
  <2>2. OpenInv'
    BY <1>6 DEF Submit, TypeOK, OpenInv
  <2>3. WaitInv'
    BY <1>6 DEF Submit, TypeOK, WaitInv
  <2> QED
    BY <2>1, <2>2, <2>3
<1>7. ASSUME NEW c \in Calls, Fail(c) PROVE Goal
  <2>1. LeadersInv'
    BY <1>7, KeyType DEF Fail, TypeOK, LeadersInv
  <2>2. OpenInv'
    BY <1>7, KeyType DEF Fail, TypeOK, OpenInv
  <2>3. WaitInv'
    BY <1>7, KeyType DEF Fail, Signal, TypeOK, WaitInv, LeadersInv
  <2> QED
    BY <2>1, <2>2, <2>3
<1>8. ASSUME NEW c \in Calls, Classified(c) PROVE Goal
  <2>1. Range(entries') \subseteq Range(entries) \cup {Key(c)}
    BY <1>8, KeyType, Inserted DEF Classified
  <2>2. LeadersInv'
    BY <1>8, <2>1, KeyType DEF Classified, TypeOK, LeadersInv, NothingOutlivesClose
  <2>3. OpenInv'
    BY <1>8, KeyType DEF Classified, TypeOK, OpenInv
  <2>4. WaitInv'
    BY <1>8, KeyType DEF Classified, Signal, TypeOK, WaitInv, LeadersInv
  <2> QED
    BY <2>2, <2>3, <2>4
<1>9. ASSUME NEW c \in Calls, Run(c) PROVE Goal
  <2>1. LeadersInv'
    BY <1>9 DEF Run, TypeOK, LeadersInv
  <2>2. OpenInv'
    BY <1>9 DEF Run, TypeOK, OpenInv
  <2>3. WaitInv'
    BY <1>9 DEF Run, TypeOK, WaitInv
  <2> QED
    BY <2>1, <2>2, <2>3
<1>10. ASSUME NEW c \in Calls, Expire(c) PROVE Goal
  BY <1>10 DEF Expire, LeadersInv, OpenInv, WaitInv
<1>11. CASE Close
  <2>1. LeadersInv' /\ OpenInv'
    BY <1>11 DEF Close, LeadersInv, OpenInv
  <2>2. WaitInv'
    BY <1>11, KeyType DEF Close, TypeOK, WaitInv, Range
  <2> QED
    BY <2>1, <2>2
<1>12. CASE UNCHANGED vars
  BY <1>12 DEF vars, LeadersInv, OpenInv, WaitInv
<1> QED
  BY <1>1, <1>2, <1>3, <1>4, <1>5, <1>6, <1>7, <1>8, <1>9, <1>10, <1>11, <1>12
     DEF Next, CallStep

LEMMA GuardStep == GuardInv /\ [Next]_vars => GuardInv'
BY TypeStep, CacheStep, CloseStep, FlightStep DEF GuardInv

LEMMA GuardInvariant == Spec => []GuardInv
BY GuardInit, GuardStep, PTL DEF Spec

------------------------------------------------------------------------------
(* The state of the guard is well typed and its cache never exceeds its    *)
(* capacity (_ReadClassificationCache).                                    *)
THEOREM GuardTypeCorrect == Spec => []TypeOK
BY GuardInvariant, PTL DEF GuardInv

(* No query runs, and none is admitted, that the server has not classified *)
(* as a read under the very allowance it runs with (ensure_read).          *)
THEOREM OnlyReadsAreAdmitted == Spec => []AdmitsOnlyReads
BY GuardInvariant, PTL DEF GuardInv

(* A client that has been closed caches nothing, whichever preflight ends  *)
(* afterwards (close, ensure_read).                                        *)
THEOREM ClosedClientsAreEmpty == Spec => []NothingOutlivesClose
BY GuardInvariant, PTL DEF GuardInv

(* Concurrent identical reads share one preflight (ensure_read).           *)
THEOREM PreflightsAreShared == Spec => []SharedPreflight
<1>1. GuardInv => SharedPreflight
  <2> SUFFICES ASSUME GuardInv, ~closed
               PROVE  /\ \A c, d \in Classifying : Key(c) = Key(d) => c = d
                      /\ \A c \in Classifying : ~Cached(Key(c))
    BY DEF SharedPreflight
  <2>1. \A c \in Classifying : inflight[Key(c)] = c
    BY DEF GuardInv, FlightInv, OpenInv
  <2>2. \A c \in Classifying : c # Nobody /\ Key(c) \in Keys
    BY KeyType, GuardAssumption DEF Classifying
  <2> QED
    BY <2>1, <2>2 DEF GuardInv, FlightInv, LeadersInv
<1> QED
  BY <1>1, GuardInvariant, PTL

(* What the runs check of a small instance, for every client: all three    *)
(* together (ensure_read, close).                                          *)
THEOREM GuardIsAlwaysSound == Spec => []GuardIsSound
BY OnlyReadsAreAdmitted, PreflightsAreShared, ClosedClientsAreEmpty, PTL DEF GuardIsSound

(* No failure, timeout or close of one call strands another that waits for *)
(* it (ensure_read, close).                                                *)
THEOREM NobodyIsStranded == Spec => []NobodyWaitsInVain
<1>1. GuardInv => NobodyWaitsInVain
  BY KeyType DEF GuardInv, FlightInv, LeadersInv, WaitInv, NobodyWaitsInVain
<1> QED
  BY <1>1, GuardInvariant, PTL
==============================================================================
