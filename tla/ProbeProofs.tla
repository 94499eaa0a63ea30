----------------------------- MODULE ProbeProofs -----------------------------
(***************************************************************************)
(* The safety of the shared probe, for any callers, deadlines and servers. *)
(***************************************************************************)
EXTENDS Probe, FiniteSetTheorems, TLAPS

Probing   == Requests \cup {"plan", "answer"} \cup Ending
Owning    == Probing \cup {"starting"} \cup DOMAIN Outcome
Unstarted == {"asking", "awaiting", "starting", "server", "language", "apoc", "procedures", "privileges"}

Findings == [can_read : BOOLEAN, procedures : BOOLEAN, counted : BOOLEAN, by : Callers \cup {NoOne}]

TypeInv ==
  /\ server \in Servers
  /\ stage \in [Callers -> Owning \cup {"asking", "awaiting", "verifying"} \cup Over]
  /\ pending \in Callers \cup {NoOne}
  /\ sees \in [Callers -> Findings]
  /\ edition \in {"unknown", server.edition}
  /\ shut \in BOOLEAN

(* Until the close, whoever owns the probe is registered, the list of      *)
(* durations is its own, and no result is there until it answers.          *)
TurnInv ==
  ~shut =>
    /\ \A c \in Callers : stage[c] \in Owning => pending = c
    /\ \A c \in Callers : stage[c] \in Probing => durations = c
    /\ \A c \in Callers : stage[c] \in Owning \ {"answering", "answered"} => target = NoTarget
    /\ \A c \in Callers : stage[c] \notin {"breaking", "torn", "broken"}

(* What a probe has found out by each of its stages.                       *)
Granted == server.edition = "community" \/ server.grants = "full"

Vetted(f) == (f.can_read => Granted) /\ (f.can_read <=> f.counted)

FindInv ==
  \A c \in Callers :
    /\ stage[c] \in Unstarted \cup {"inventory", "counts"} => sees[c].can_read /\ ~sees[c].counted
    /\ stage[c] = "plan" => sees[c].can_read /\ sees[c].counted
    /\ stage[c] \in {"inventory", "counts", "plan"} => Granted
    /\ stage[c] = "answer" => Vetted(sees[c])
    /\ stage[c] \in (Requests \ {"server"}) \cup {"plan", "answer"} => server.line # "legacy"

VetInv ==
  /\ target # NoTarget => Vetted(target) /\ server.line # "legacy"
  /\ \A c \in Callers : stage[c] = "ready" => server.edition = "community" \/ server.roles = "reader"

ProbeInv == TypeInv /\ TurnInv /\ FindInv /\ VetInv

LEMMA ProbeAtFirst == Init => ProbeInv
<1> SUFFICES ASSUME Init PROVE ProbeInv
  OBVIOUS
<1>1. TypeInv
  BY DEF Init, TypeInv, Findings, Blank
<1>2. TurnInv
  BY DEF Init, TurnInv, Owning, Probing, Requests, Ending, Outcome
<1>3. FindInv
  BY DEF Init, FindInv, Blank, Requests
<1>4. VetInv
  BY DEF Init, VetInv
<1> QED
  BY <1>1, <1>2, <1>3, <1>4 DEF ProbeInv

LEMMA TypesKept == TypeInv /\ [Next]_probe => TypeInv'
<1> SUFFICES ASSUME TypeInv, [Next]_probe PROVE TypeInv'
  OBVIOUS
<1> USE DEF TypeInv, Enter, Proceed, Requests, Ending, Owning, Probing, Over, Outcome
<1>1. ASSUME NEW c \in Callers, Step(c) PROVE TypeInv'
  <2>1. CASE AnswerFromCache(c) \/ Own(c) \/ Await(c) \/ LookAgain(c)
    BY <1>1, <2>1 DEF Step, AnswerFromCache, Own, Await, LookAgain
  <2>2. CASE StartProbe(c) \/ ServerInfo(c) \/ DefaultLanguage(c) \/ CountStore(c) \/ ProbeFails(c)
    BY <1>1, <2>2 DEF Step, StartProbe, ServerInfo, DefaultLanguage, CountStore, ProbeFails
  <2>3. ASSUME NEW f \in {"can_read", "procedures", "counted"}, NEW s \in Probing, Learn(c, f, s)
        PROVE  TypeInv'
    <3>1. sees' \in [Callers -> Findings]
      BY <2>3 DEF Learn, Findings
    <3> QED
      BY <1>1, <2>3, <3>1 DEF Step, Learn
  <2>4. CASE Apoc(c) \/ Procedures(c) \/ Privileges(c) \/ Inventory(c) \/ Counts(c)
    BY <1>1, <2>3, <2>4 DEF Step, Apoc, Procedures, Privileges, Inventory, Counts
  <2>5. CASE Answer(c) \/ ForgetDurations(c) \/ Release(c) \/ Verify(c)
    BY <1>1, <2>5 DEF Step, Answer, ForgetDurations, Release, Verify
  <2> QED
    BY <1>1, <2>1, <2>2, <2>4, <2>5 DEF Step
<1>2. ASSUME NEW c \in Callers, OutOfTime(c) PROVE TypeInv'
  BY <1>2 DEF OutOfTime, probing
<1>3. CASE Shut
  BY <1>3 DEF Shut
<1>4. CASE UNCHANGED probe
  BY <1>4 DEF probe, probing
<1> QED
  BY <1>1, <1>2, <1>3, <1>4 DEF Next

------------------------------------------------------------------------------
LEMMA TurnsKept == TypeInv /\ TurnInv /\ [Next]_probe => TurnInv'
<1> SUFFICES ASSUME TypeInv, TurnInv, [Next]_probe, ~shut' PROVE TurnInv'
  BY DEF TurnInv
<1> USE DEF Owning, Probing, Requests, Ending, Outcome, Over
<1>1. ASSUME NEW c \in Callers, Step(c) PROVE TurnInv'
  <2> USE DEF TypeInv, TurnInv, Enter, Proceed
  <2>0. ~shut /\ NoOne \notin Callers
    BY <1>1, ProbeAssumption DEF Step
  <2>1. CASE AnswerFromCache(c) \/ Own(c) \/ Await(c) \/ LookAgain(c)
    BY <2>0, <2>1 DEF AnswerFromCache, Own, Await, LookAgain
  <2>2. CASE StartProbe(c)
    BY <2>0, <2>2 DEF StartProbe
  <2>3. CASE ServerInfo(c) \/ DefaultLanguage(c) \/ CountStore(c) \/ ProbeFails(c)
    BY <2>0, <2>3 DEF ServerInfo, DefaultLanguage, CountStore, ProbeFails
  <2>4. CASE Apoc(c) \/ Procedures(c) \/ Privileges(c) \/ Inventory(c) \/ Counts(c)
    BY <2>0, <2>4 DEF Apoc, Procedures, Privileges, Inventory, Counts, Learn
  <2>5. CASE Answer(c)
    <3>1. durations = c
      BY <2>0, <2>5 DEF Answer
    <3> QED
      BY <2>0, <2>5, <3>1 DEF Answer
  <2>6. CASE ForgetDurations(c)
    BY <2>0, <2>6 DEF ForgetDurations
  <2>7. CASE Release(c)
    BY <2>0, <2>7 DEF Release
  <2>8. CASE Verify(c)
    BY <2>0, <2>8 DEF Verify
  <2> QED
    BY <1>1, <2>1, <2>2, <2>3, <2>4, <2>5, <2>6, <2>7, <2>8 DEF Step
<1>2. ASSUME NEW c \in Callers, OutOfTime(c) PROVE TurnInv'
  BY <1>2 DEF OutOfTime, probing, TurnInv
<1>3. CASE Shut
  BY <1>3 DEF Shut
<1>4. CASE UNCHANGED probe
  BY <1>4 DEF probe, probing, TurnInv
<1> QED
  BY <1>1, <1>2, <1>3, <1>4 DEF Next

LEMMA FindingsKept == TypeInv /\ FindInv /\ [Next]_probe => FindInv'
<1> SUFFICES ASSUME TypeInv, FindInv, [Next]_probe PROVE FindInv'
  OBVIOUS
<1>1. ASSUME NEW c \in Callers, Step(c) PROVE FindInv'
  <2> USE DEF TypeInv, FindInv, Unstarted, Requests, Ending, Outcome, Over, Enter, Proceed, Vetted, Granted
  <2>0. server' = server
    BY <1>1 DEF Step
  <2>1. CASE AnswerFromCache(c) \/ Own(c) \/ Await(c) \/ LookAgain(c)
    BY <2>0, <2>1 DEF AnswerFromCache, Own, Await, LookAgain
  <2>2. CASE StartProbe(c) \/ ServerInfo(c) \/ DefaultLanguage(c) \/ CountStore(c) \/ ProbeFails(c)
    BY <2>0, <2>2 DEF StartProbe, ServerInfo, DefaultLanguage, CountStore, ProbeFails
  <2>3. CASE Apoc(c) \/ Procedures(c)
    BY <2>0, <2>3 DEF Apoc, Procedures, Learn, Findings
  <2>4. CASE Privileges(c)
    <3>1. server.edition \in {"community", "enterprise"}
      BY ProbeAssumption
    <3> QED
      BY <2>0, <2>4, <3>1 DEF Privileges, Learn, Findings
  <2>5. CASE Inventory(c) \/ Counts(c)
    BY <2>0, <2>5 DEF Inventory, Counts, Learn, Findings
  <2>6. CASE Answer(c) \/ ForgetDurations(c) \/ Release(c) \/ Verify(c)
    BY <2>0, <2>6 DEF Answer, ForgetDurations, Release, Verify
  <2> QED
    BY <1>1, <2>1, <2>2, <2>3, <2>4, <2>5, <2>6 DEF Step
<1>2. CASE UNCHANGED <<server, stage, sees>>
  BY <1>2 DEF FindInv, Vetted, Granted
<1>3. (Shut \/ (\E c \in Callers : OutOfTime(c)) \/ UNCHANGED probe) => UNCHANGED <<server, stage, sees>>
  BY DEF Shut, OutOfTime, probe, probing
<1> QED
  BY <1>1, <1>2, <1>3 DEF Next

LEMMA VettingKept == TypeInv /\ FindInv /\ VetInv /\ [Next]_probe => VetInv'
<1> SUFFICES ASSUME TypeInv, FindInv, VetInv, [Next]_probe PROVE VetInv'
  OBVIOUS
<1> USE DEF TypeInv, VetInv, Vetted, Granted
<1>1. ASSUME NEW c \in Callers, Step(c) PROVE VetInv'
  <2>0. server' = server
    BY <1>1 DEF Step
  <2>1. CASE Verify(c)
    <3>1. server.edition \in {"community", "enterprise"}
      BY ProbeAssumption
    <3> QED
      BY <2>0, <2>1, <3>1 DEF Verify, Proceed, Enter
  <2>2. CASE Answer(c)
    BY <2>0, <2>2 DEF Answer, Enter, FindInv, Requests
  <2>3. CASE target' = target /\ \A d \in Callers : stage'[d] = "ready" => stage[d] = "ready"
    BY <2>0, <2>3
  <2>4. ASSUME ~Verify(c), ~Answer(c)
        PROVE  target' = target /\ \A d \in Callers : stage'[d] = "ready" => stage[d] = "ready"
    BY <1>1, <2>4
    DEF Step, AnswerFromCache, Own, Await, LookAgain, StartProbe, ServerInfo, DefaultLanguage, Apoc, Procedures,
        Privileges, Inventory, Counts, CountStore, ProbeFails, ForgetDurations, Release, Learn, Proceed, Enter, Outcome
  <2> QED
    BY <2>1, <2>2, <2>3, <2>4
<1>2. CASE Shut
  BY <1>2 DEF Shut
<1>3. CASE UNCHANGED <<server, stage, target>>
  BY <1>3
<1>4. ((\E c \in Callers : OutOfTime(c)) \/ UNCHANGED probe) => UNCHANGED <<server, stage, target>>
  BY DEF OutOfTime, probe, probing
<1> QED
  BY <1>1, <1>2, <1>3, <1>4 DEF Next

------------------------------------------------------------------------------
(* Until the client is closed probes take turns and none runs beside a     *)
(* result; what is cached was complete and earned; and a caller goes on    *)
(* only with a reader's credential (neo4j_adapter.py:540-700).             *)
THEOREM ProbesStaySound == Spec => []ProbesAreSound
<1>1. ProbeInv => ProbesAreSound
  <2> SUFFICES ASSUME ProbeInv PROVE ProbesAreSound
    OBVIOUS
  <2>1. ASSUME ~shut PROVE Cardinality(Live) <= 1
    <3>1. Live \subseteq {pending}
      BY <2>1 DEF Live, ProbeInv, TurnInv, Owning, Probing
    <3>2. IsFiniteSet({pending}) /\ Cardinality({pending}) = 1
      BY FS_Singleton
    <3> QED
      BY <3>1, <3>2, FS_Subset
  <2>2. ProbesTakeTurns
    BY <2>1 DEF ProbesTakeTurns, ProbeInv, TurnInv, Live, Owning, Probing, Ending, Requests
  <2>3. TargetIsVetted
    BY DEF TargetIsVetted, ProbeInv, VetInv, Vetted, Granted
  <2> QED
    BY <2>2, <2>3 DEF ProbesAreSound
<1>2. ProbeInv /\ [Next]_probe => ProbeInv'
  BY TypesKept, TurnsKept, FindingsKept, VettingKept DEF ProbeInv
<1> QED
  BY <1>1, <1>2, ProbeAtFirst, PTL DEF Spec
==============================================================================
