------------------------------- MODULE ReadGuard -------------------------------
(***************************************************************************)
(* The read guard of one Neo4jClient (neo4j_adapter.py): before a query    *)
(* runs, the server must have classified it as a read.  Classifications    *)
(* are cached per client in least-recently-used order, concurrent callers  *)
(* of one key share a preflight in flight, and close() may come at any     *)
(* time.                                                                   *)
(*                                                                         *)
(* A call is one run_read_result, in a session of its own or in a          *)
(* transaction.  The event callers wait for is named by the call that      *)
(* created it.                                                             *)
(***************************************************************************)
EXTENDS Integers, Sequences, Functions

CONSTANTS
  Calls,          \* run_read_result calls of the client's lifetime
  Queries,        \* query texts
  QueryOf,        \* the text each call runs
  Permissive,     \* calls that allow a missing schema
  Timed,          \* calls with a deadline
  InTransaction,  \* calls made through read_transaction
  Reads,          \* <<query, allowance>> the server classifies as a read
  MaxSize,        \* read_guard_cache_capacity
  Nobody

(* What a preflight says about a missing label, type or property key.      *)
Allowances == {"strict", "permissive"}

Keys == Queries \X Allowances

ASSUME GuardAssumption ==
  /\ QueryOf \in [Calls -> Queries]
  /\ Permissive \subseteq Calls
  /\ Timed \subseteq Calls
  /\ InTransaction \subseteq Calls
  /\ Reads \subseteq Keys
  /\ MaxSize \in Nat \ {0}
  /\ Nobody \notin Calls

VARIABLES
  pc,         \* where each call is
  late,       \* calls whose deadline has passed
  waitsFor,   \* the event each waiting call waits for
  events,     \* calls that have created an event
  signalled,  \* ... and whose event is set
  entries,    \* cached keys, the least recently used first
  inflight,   \* the call whose preflight is in flight, by key
  hits, misses,
  closed

cache == <<entries, inflight, hits, misses>>
vars  == <<pc, late, waitsFor, events, signalled, cache, closed>>

------------------------------------------------------------------------------
Allowance(c) == IF c \in Permissive THEN "permissive" ELSE "strict"

PermissiveKey(c) == <<QueryOf[c], "permissive">>  \* forgets the allowance

Key(c) == <<QueryOf[c], Allowance(c)>>

Cached(k) == k \in Range(entries)

(* Where k is, or would be if it were last.                                *)
Position(s, k) ==
  IF k \in Range(s) THEN CHOOSE p \in DOMAIN s : s[p] = k ELSE Len(s) + 1

(* OrderedDict.move_to_end of a key that is there or has just been set.    *)
MoveToEnd(s, k) ==
  LET p == Position(s, k)
  IN  SubSeq(s, 1, p - 1) \o SubSeq(s, p + 1, Len(s)) \o <<k>>

Insert(k) ==
  LET s == MoveToEnd(entries, k)
  IN  IF Len(s) > MaxSize THEN Tail(s) ELSE s

Goto(c, stage) == pc' = [pc EXCEPT ![c] = stage]

------------------------------------------------------------------------------
Init ==
  /\ pc = [c \in Calls |-> "lookup"]
  /\ late = {}
  /\ waitsFor = [c \in Calls |-> Nobody]
  /\ events = {}
  /\ signalled = {}
  /\ entries = <<>>
  /\ inflight = [k \in Keys |-> Nobody]
  /\ hits = 0
  /\ misses = 0
  /\ closed = FALSE

Ended == {"ran", "refused"}

(* The monotonic clock reaches a call's deadline.                          *)
Expire(c) ==
  /\ c \in Timed \ late
  /\ pc[c] \notin Ended
  /\ late' = late \cup {c}
  /\ UNCHANGED <<pc, waitsFor, events, signalled, cache, closed>>

(* ensure_read, under its lock: the key is cached, ...                     *)
Hit(c) ==
  /\ pc[c] = "lookup"
  /\ Cached(Key(c))
  /\ entries' = MoveToEnd(entries, Key(c))
  /\ hits' = hits + 1
  /\ Goto(c, "admitted")
  /\ UNCHANGED <<late, waitsFor, events, signalled, inflight, misses, closed>>

(* ... or the client is closed and the call is on its own, ...             *)
MissClosed(c) ==
  /\ pc[c] = "lookup"
  /\ ~Cached(Key(c))
  /\ closed
  /\ misses' = misses + 1
  /\ Goto(c, "owner")
  /\ UNCHANGED <<late, waitsFor, events, signalled, entries, inflight, hits, closed>>

Lead(c) ==
  /\ pc[c] = "lookup"
  /\ ~Cached(Key(c))
  /\ ~closed
  /\ inflight[Key(c)] = Nobody
  /\ inflight' = [inflight EXCEPT ![Key(c)] = c]
  /\ events' = events \cup {c}
  /\ misses' = misses + 1
  /\ Goto(c, "owner")
  /\ UNCHANGED <<late, waitsFor, signalled, entries, hits, closed>>

(* ... or waits for the one in flight, unless its own time is up.          *)
Join(c) ==
  /\ pc[c] = "lookup"
  /\ ~Cached(Key(c))
  /\ ~closed
  /\ inflight[Key(c)] # Nobody
  /\ IF c \in late
     THEN Goto(c, "refused") /\ UNCHANGED waitsFor
     ELSE /\ Goto(c, "waiting")
          /\ waitsFor' = [waitsFor EXCEPT ![c] = inflight[Key(c)]]
  /\ UNCHANGED <<late, events, signalled, cache, closed>>

(* The event is set, or waiting has timed out: the call looks again.       *)
Wake(c) ==
  /\ pc[c] = "waiting"
  /\ waitsFor[c] \in signalled \/ c \in late
  /\ waitsFor' = [waitsFor EXCEPT ![c] = Nobody]
  /\ Goto(c, "lookup")
  /\ UNCHANGED <<late, events, signalled, cache, closed>>

------------------------------------------------------------------------------
(* _assert_server_classified_read, without the lock.                       *)

Submit(c) ==
  /\ pc[c] = "owner"
  /\ c \notin late
  /\ Goto(c, "explaining")
  /\ UNCHANGED <<late, waitsFor, events, signalled, cache, closed>>

(* Query type "r", and nothing missing that the call insists on.           *)
IsRead(c) == Key(c) \in Reads

Signal(c) == signalled' = signalled \cup ({c} \cap events)

(* No time left to submit it, a failure, or an answer that is not a read:  *)
(* the key becomes free again and everyone who waits for it looks again.   *)
QuietFail(c) ==  \* frees the key and tells nobody
  /\ pc[c] = "explaining" \/ (pc[c] = "owner" /\ c \in late)
  /\ inflight' = [inflight EXCEPT ![Key(c)] = IF @ = c THEN Nobody ELSE @]
  /\ Goto(c, "refused")
  /\ UNCHANGED <<late, waitsFor, events, signalled, entries, hits, misses, closed>>

EarlyFail(c) ==  \* computes the remaining time before it takes care of failures
  /\ pc[c] = "explaining" \/ (pc[c] = "owner" /\ c \in late)
  /\ IF pc[c] = "owner"
     THEN UNCHANGED <<inflight, signalled>>
     ELSE /\ inflight' = [inflight EXCEPT ![Key(c)] = IF @ = c THEN Nobody ELSE @]
          /\ Signal(c)
  /\ Goto(c, "refused")
  /\ UNCHANGED <<late, waitsFor, events, entries, hits, misses, closed>>

Fail(c) ==
  /\ pc[c] = "explaining" \/ (pc[c] = "owner" /\ c \in late)
  /\ inflight' = [inflight EXCEPT ![Key(c)] = IF @ = c THEN Nobody ELSE @]
  /\ Signal(c)
  /\ Goto(c, "refused")
  /\ UNCHANGED <<late, waitsFor, events, entries, hits, misses, closed>>

Classified(c) ==
  /\ pc[c] = "explaining"
  /\ IsRead(c)
  /\ IF ~closed /\ inflight[Key(c)] = c
     THEN /\ entries' = Insert(Key(c))
          /\ inflight' = [inflight EXCEPT ![Key(c)] = Nobody]
     ELSE UNCHANGED <<entries, inflight>>
  /\ Signal(c)
  /\ Goto(c, "admitted")
  /\ UNCHANGED <<late, waitsFor, events, hits, misses, closed>>

(* The query itself.  In a transaction the server has the timeout; a       *)
(* session's query is submitted with what remains, if anything does.       *)
Run(c) ==
  /\ pc[c] = "admitted"
  /\ \/ (c \notin late \/ c \in InTransaction) /\ Goto(c, "ran")
     \/ c \in late \ InTransaction /\ Goto(c, "refused")
  /\ UNCHANGED <<late, waitsFor, events, signalled, cache, closed>>

Close ==
  /\ ~closed
  /\ closed' = TRUE
  /\ entries' = <<>>
  /\ signalled' = signalled \cup (Range(inflight) \ {Nobody})
  /\ inflight' = [k \in Keys |-> Nobody]
  /\ hits' = 0
  /\ misses' = 0
  /\ UNCHANGED <<pc, late, waitsFor, events>>

------------------------------------------------------------------------------
CallStep(c) ==
  \/ Hit(c) \/ MissClosed(c) \/ Lead(c) \/ Join(c) \/ Wake(c)
  \/ Submit(c) \/ Fail(c) \/ Classified(c) \/ Run(c)

Next ==
  \/ \E c \in Calls : CallStep(c) \/ Expire(c)
  \/ Close

Spec == Init /\ [][Next]_vars

(* Threads are scheduled and the server answers.  Neither a deadline nor   *)
(* close() need come.                                                      *)
FairSpec == Spec /\ \A c \in Calls : WF_vars(CallStep(c))

------------------------------------------------------------------------------
(* Correctness.                                                            *)

Stages == {"lookup", "waiting", "owner", "explaining", "admitted"} \cup Ended

Classifying == {c \in Calls : pc[c] \in {"owner", "explaining"}}

(* Every variable of the guard keeps its type; the cache stays bounded.    *)
TypeOK ==
  /\ pc \in [Calls -> Stages]
  /\ late \subseteq Timed
  /\ waitsFor \in [Calls -> Calls \cup {Nobody}]
  /\ events \subseteq Calls
  /\ signalled \subseteq events
  /\ entries \in Seq(Keys)
  /\ Len(entries) <= MaxSize
  /\ inflight \in [Keys -> Calls \cup {Nobody}]
  /\ hits \in Nat
  /\ misses \in Nat
  /\ closed \in BOOLEAN

(* Only a query the server has classified as a read runs, whoever asked,   *)
(* and a permissive preflight never authorizes a stricter read (SPEC-03,   *)
(* driver wrapper).                                                        *)
AdmitsOnlyReads ==
  \A c \in Calls : pc[c] \in {"admitted", "ran"} =>
    <<QueryOf[c], Allowance(c)>> \in Reads

(* Until the client closes, calls of one key never classify it at the same *)
(* time, nor while it is cached (SPEC-03: "shares one in-flight preflight").*)
SharedPreflight ==
  ~closed =>
    /\ \A c, d \in Classifying : Key(c) = Key(d) => c = d
    /\ \A c \in Classifying : ~Cached(Key(c))

(* A closed client holds nothing, also when a preflight ends after the     *)
(* close.                                                                  *)
NothingOutlivesClose ==
  closed => entries = <<>> /\ \A k \in Keys : inflight[k] = Nobody

(* Together: what the cache admits was classified once, as a read, and for *)
(* the client that still asks (_ReadClassificationCache.ensure_read, close).*)
GuardIsSound == AdmitsOnlyReads /\ SharedPreflight /\ NothingOutlivesClose

(* Whoever waits, waits for a call that is at work on its very key, or has *)
(* already been told to look again: no failure, timeout or close of        *)
(* another call strands it.                                                *)
NobodyWaitsInVain ==
  \A c \in Calls : pc[c] = "waiting" =>
    \/ waitsFor[c] \in signalled
    \/ waitsFor[c] \in Classifying /\ Key(waitsFor[c]) = Key(c)

(* Every call ends, with or without a deadline of its own.                 *)
EveryCallEnds == <>(\A c \in Calls : pc[c] \in Ended)
==============================================================================
