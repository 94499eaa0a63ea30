-------------------------------- MODULE Probe --------------------------------
(***************************************************************************)
(* The target probe of one Neo4jClient (neo4j_adapter.py): what a command  *)
(* learns about the server before it reads the graph.  The first complete  *)
(* probe is cached for the client's lifetime, concurrent callers share the *)
(* one in flight, and close() may come at any time.  A caller that has its *)
(* answer checks the credential before it goes on.                         *)
(*                                                                         *)
(* As in ReadGuard, an event is named by the caller that created it.       *)
(***************************************************************************)
EXTENDS Integers, FiniteSets

CONSTANTS
  Callers,   \* threads that probe through this client
  Limited,   \* those with a deadline
  Servers,   \* what may be at the other end: line, edition, grants and roles
  NoOne

ASSUME ProbeAssumption ==
  /\ NoOne \notin Callers
  /\ \A s \in Servers : s.edition \in {"community", "enterprise"}

VARIABLES
  server,
  stage,      \* where each caller is
  expired,    \* callers whose deadline has passed
  awaited,    \* the event each waiting caller waits for
  pending,    \* _probe_inflight: the caller whose probe is in flight
  told,       \* callers whose event is set
  durations,  \* _probe_request_durations_ms: whose list it is
  sees,       \* what the probe of each caller has found out so far
  target,     \* _probe_result
  edition,    \* _probe_edition
  shut        \* close() has been called

probing == <<stage, awaited, pending, told, durations, sees, target, edition>>
probe   == <<server, expired, shut, probing>>

NoTarget == [can_read |-> FALSE, procedures |-> FALSE, counted |-> FALSE, by |-> NoOne]
Blank(c) == [can_read |-> TRUE, procedures |-> TRUE, counted |-> FALSE, by |-> c]

Over == {"ready", "refused", "broken"}

------------------------------------------------------------------------------
Init ==
  /\ server \in Servers
  /\ stage = [c \in Callers |-> "asking"]
  /\ expired = {}
  /\ awaited = [c \in Callers |-> NoOne]
  /\ pending = NoOne
  /\ told = {}
  /\ durations = NoOne
  /\ sees = [c \in Callers |-> Blank(c)]
  /\ target = NoTarget
  /\ edition = "unknown"
  /\ shut = FALSE

Enter(c, s) == stage' = [stage EXCEPT ![c] = s]

(* A step of c's live probe that learns nothing but where to go on.        *)
Proceed(c, s) ==
  /\ Enter(c, s)
  /\ UNCHANGED <<awaited, pending, told, durations, sees, target, edition>>

Learn(c, field, s) ==
  /\ sees' = [sees EXCEPT ![c][field] = ~@]
  /\ Enter(c, s)
  /\ UNCHANGED <<awaited, pending, told, durations, target, edition>>

OutOfTime(c) ==
  /\ c \in Limited \ expired
  /\ stage[c] \notin Over
  /\ expired' = expired \cup {c}
  /\ UNCHANGED <<server, shut, probing>>

------------------------------------------------------------------------------
(* Under the lock: the result is there, or someone is at it, or nobody is. *)
AnswerFromCache(c) ==
  /\ stage[c] = "asking"
  /\ target # NoTarget
  /\ Proceed(c, "verifying")

OwnAnyway(c) ==  \* whoever else is probing
  /\ stage[c] = "asking"
  /\ target = NoTarget
  /\ pending' = c
  /\ Enter(c, "starting")
  /\ UNCHANGED <<awaited, told, durations, sees, target, edition>>

Own(c) ==
  /\ stage[c] = "asking"
  /\ target = NoTarget
  /\ pending = NoOne
  /\ pending' = c
  /\ Enter(c, "starting")
  /\ UNCHANGED <<awaited, told, durations, sees, target, edition>>

Await(c) ==
  /\ stage[c] = "asking"
  /\ target = NoTarget
  /\ pending # NoOne
  /\ IF c \in expired
     THEN Enter(c, "refused") /\ UNCHANGED awaited
     ELSE Enter(c, "awaiting") /\ awaited' = [awaited EXCEPT ![c] = pending]
  /\ UNCHANGED <<pending, told, durations, sees, target, edition>>

(* The event is set: look again.  Waiting has timed out: give up.          *)
LookAgain(c) ==
  /\ stage[c] = "awaiting"
  /\ \/ awaited[c] \in told /\ Enter(c, "asking")
     \/ c \in expired /\ Enter(c, "refused")
  /\ awaited' = [awaited EXCEPT ![c] = NoOne]
  /\ UNCHANGED <<pending, told, durations, sees, target, edition>>

------------------------------------------------------------------------------
(* _probe_live: one request per stage.  An error is a denial, a query that *)
(* failed (a timeout of the server included), or a lost connection.        *)

StartProbe(c) ==
  /\ stage[c] = "starting"
  /\ durations' = c
  /\ Enter(c, "server")
  /\ UNCHANGED <<awaited, pending, told, sees, target, edition>>

ServerInfo(c) ==
  /\ stage[c] = "server" /\ c \notin expired
  /\ server.line # "legacy"
  /\ edition' = server.edition
  /\ Enter(c, IF server.line = "calendar" THEN "language" ELSE "apoc")
  /\ UNCHANGED <<awaited, pending, told, durations, sees, target>>

(* A denial or a failed query leaves the language unknown.                 *)
DefaultLanguage(c) ==
  /\ stage[c] = "language" /\ c \notin expired
  /\ Proceed(c, "apoc")

Apoc(c) ==
  /\ stage[c] = "apoc" /\ c \notin expired
  /\ \/ Proceed(c, "privileges")
     \/ Proceed(c, "procedures")               \* no procedure apoc.version
     \/ Learn(c, "procedures", "privileges")   \* denied

Procedures(c) ==
  /\ stage[c] = "procedures" /\ c \notin expired
  /\ \/ Proceed(c, "privileges")
     \/ Learn(c, "procedures", "privileges")

(* Enterprise hides what a user may not read: only a full grant counts.    *)
Privileges(c) ==
  /\ stage[c] = "privileges" /\ c \notin expired
  /\ \/ /\ server.edition # "enterprise" \/ server.grants = "full"
        /\ Proceed(c, "inventory")
     \/ /\ server.edition = "enterprise"       \* scoped, or denied
        /\ Learn(c, "can_read", "answer")

Inventory(c) ==
  /\ stage[c] = "inventory" /\ c \notin expired
  /\ \/ Learn(c, "counted", "plan")
     \/ Proceed(c, "counts")                   \* denied

(* The graph is denied as well.  If it is not, the schema's denial stands. *)
Counts(c) ==
  /\ stage[c] = "counts" /\ c \notin expired
  /\ Learn(c, "can_read", "answer")

(* _count_store_usable takes every failure of its request for a no.        *)
CountStore(c) ==
  /\ stage[c] = "plan" /\ c \notin expired
  /\ Proceed(c, "answer")

(* The metrics are taken from the shared list, which another owner may     *)
(* have cleared.                                                           *)
Answer(c) ==
  /\ stage[c] = "answer" /\ c \notin expired
  /\ IF durations = NoOne
     THEN Enter(c, "breaking") /\ UNCHANGED target
     ELSE Enter(c, "answering") /\ target' = sees[c]
  /\ UNCHANGED <<awaited, pending, told, durations, sees, edition>>

(* No time left before the next request, a legacy server, or an error that *)
(* no stage takes for an answer.                                           *)
Requests == {"server", "language", "apoc", "procedures", "privileges", "inventory", "counts"}

ProbeFails(c) ==
  /\ \/ stage[c] \in Requests
     \/ stage[c] \in {"plan", "answer"} /\ c \in expired
  /\ Proceed(c, "failing")

------------------------------------------------------------------------------
(* The finally of probe(): the list first, then, under the lock, whichever *)
(* event is in flight.                                                     *)
Ending == {"answering", "failing", "breaking"}

ForgetDurations(c) ==
  /\ stage[c] \in Ending
  /\ durations' = NoOne
  /\ Enter(c, CASE stage[c] = "answering" -> "answered"
                [] stage[c] = "failing"   -> "failed"
                [] OTHER                  -> "torn")
  /\ UNCHANGED <<awaited, pending, told, sees, target, edition>>

Outcome == [answered |-> "verifying", failed |-> "refused", torn |-> "broken"]

ReleaseQuietly(c) ==  \* frees the probe and tells nobody
  /\ stage[c] \in DOMAIN Outcome
  /\ pending' = NoOne
  /\ Enter(c, Outcome[stage[c]])
  /\ UNCHANGED <<awaited, told, durations, sees, target, edition>>

Release(c) ==
  /\ stage[c] \in DOMAIN Outcome
  /\ told' = told \cup ({pending} \ {NoOne})
  /\ pending' = NoOne
  /\ Enter(c, Outcome[stage[c]])
  /\ UNCHANGED <<awaited, durations, sees, target, edition>>

(* verify_read_only_credential: by the probe's edition, or asking again.   *)
Verify(c) ==
  LET e == IF edition = "unknown" THEN server.edition ELSE edition
  IN  /\ stage[c] = "verifying"
      /\ \/ /\ e = "community" \/ server.roles = "reader"
            /\ Proceed(c, "ready")
         \/ /\ e = "enterprise" \/ edition = "unknown"   \* other roles, or no answer
            /\ Proceed(c, "refused")

Shut ==
  /\ ~shut
  /\ shut' = TRUE
  /\ target' = NoTarget
  /\ edition' = "unknown"
  /\ told' = told \cup ({pending} \ {NoOne})
  /\ pending' = NoOne
  /\ UNCHANGED <<server, stage, expired, awaited, durations, sees>>

------------------------------------------------------------------------------
Step(c) ==
  /\ \/ AnswerFromCache(c) \/ Own(c) \/ Await(c) \/ LookAgain(c)
     \/ StartProbe(c) \/ ServerInfo(c) \/ DefaultLanguage(c) \/ Apoc(c) \/ Procedures(c)
     \/ Privileges(c) \/ Inventory(c) \/ Counts(c) \/ CountStore(c) \/ Answer(c) \/ ProbeFails(c)
     \/ ForgetDurations(c) \/ Release(c) \/ Verify(c)
  /\ UNCHANGED <<server, expired, shut>>

Next == Shut \/ \E c \in Callers : Step(c) \/ OutOfTime(c)

Spec == Init /\ [][Next]_probe

(* Threads are scheduled and every request ends; time and close() need not *)
(* come.                                                                   *)
FairSpec == Spec /\ \A c \in Callers : WF_probe(Step(c))

------------------------------------------------------------------------------
(* Correctness.                                                            *)

Live == {c \in Callers : stage[c] \in Requests \cup {"starting", "plan", "answer"} \cup Ending}

(* Until the client is closed, one probe is live at a time and none is     *)
(* after a result is there (SPEC-03: "concurrent callers share that        *)
(* in-flight work"), and a probe never finds its list of durations cleared *)
(* by the owner before it.                                                 *)
ProbesTakeTurns ==
  ~shut =>
    /\ Cardinality(Live) <= 1
    /\ \A c \in Live : target = NoTarget \/ stage[c] = "answering"
    /\ \A c \in Callers : stage[c] \notin {"breaking", "torn", "broken"}

(* What the cache tells every later caller was complete and earned: the    *)
(* graph is called readable only to a user who may read all of it, and     *)
(* counted exactly when it is readable.  A caller that goes on is no more  *)
(* than a reader, also when a close has made the client forget the edition.*)
TargetIsVetted ==
  /\ target # NoTarget =>
       /\ target.can_read => server.edition = "community" \/ server.grants = "full"
       /\ target.can_read <=> target.counted
       /\ server.line # "legacy"
  /\ \A c \in Callers : stage[c] = "ready" => server.edition = "community" \/ server.roles = "reader"

(* Together: the probe's cache is filled by one caller at a time, with what*)
(* that caller may say (neo4j_adapter.py:540-700).                         *)
ProbesAreSound == ProbesTakeTurns /\ TargetIsVetted

(* Every probe ends, whoever it waits for fails, times out or is closed.   *)
EveryProbeEnds == <>(\A c \in Callers : stage[c] \in Over)
==============================================================================
