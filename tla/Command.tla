------------------------------- MODULE Command -------------------------------
(***************************************************************************)
(* One invocation of the command line, from cli.py's outer boundary to its *)
(* exit code: the steps of each command, the exceptions each step may      *)
(* raise, what the handlers make of them, and the one event the telemetry  *)
(* runtime builds from what the handlers recorded.  The command `run` goes *)
(* through application/run.py: it closes its client before it publishes.   *)
(***************************************************************************)
EXTENDS Naturals, Sequences, FiniteSetsExt, Functions

CONSTANT Commands  \* the commands under consideration

VARIABLES
  command,    \* the command named on the command line
  options,    \* report: the actions asked for
  consented,  \* whether telemetry is on for this process
  phase,      \* "parse", "run", "finish" (it exits), "unwind" (it raises), "done"
  next,       \* the name of the next step
  exit,       \* exit code, once known
  rt,         \* what the telemetry runtime has recorded
  client,     \* the connector: "none", "open" or "closed"
  results,    \* run: the document to publish
  writes,     \* run: attempts to write the artifacts
  failed,     \* whether some requested stage failed to operate
  reported    \* CommandCompleted events that their own validator accepted

given == <<command, options, consented>>
vars  == <<given, phase, next, exit, rt, client, results, writes, failed, reported>>

------------------------------------------------------------------------------
(* Exceptions.  A GraphCheckError carries a code, here its family and the  *)
(* group within the family that the classification below distinguishes.    *)
G(family, group) == [kind |-> "graph", code |-> <<family, group>>]
Raised(kind)     == [kind |-> kind, code |-> <<"none", "none">>]
Os == Raised("os")
Other == Raised("other")
NoProject == G("project", "missing")
BadConfig == G("profile", "invalid")   \* load_project_config uses the profile's code
Unreachable == G("neo4j", "unreachable")

Step(name, raises) == [name |-> name, raises |-> raises]

InitSteps ==
  << Step("options", {Raised("usage")}), Step("scaffold", {Os}), Step("profiles", {BadConfig}),
     Step("trace", {Unreachable, Other}), Step("print", {}) >>

DebugSteps ==
  << Step("root", {NoProject}), Step("profiles", {BadConfig}), Step("trace", {Unreachable, Other}),
     Step("blocked", {G("run", "suite_"), Other}), Step("print", {}) >>

ProfileSteps ==
  << Step("root", {NoProject, Other}), Step("profiles", {BadConfig, Other}),
     Step("connect", {Unreachable, Other}), Step("collect", {Unreachable, G("profile", "counts_"), Other}),
     Step("close", {}), Step("save", {Os, Other}), Step("print", {}) >>

GenerateSteps ==
  << Step("dependencies", {Raised("missing"), Other}),
     Step("root", {NoProject, Other}), Step("config_load", {G("generate", "config_"), Other}),
     Step("baseline_load", {G("generate", "baseline_"), Other}),
     Step("document_load", {G("generate", "doc_"), Other}),
     Step("provider_request", {G("generate", "provider_"), Other}),
     Step("generation_validation", {G("generate", "output_invalid"), Other}),
     Step("artifact_write", {G("generate", "write_"), Other}), Step("print", {}) >>

ReportSteps ==
  << Step("options", {Raised("usage")}), Step("root", {NoProject, BadConfig}),
     Step("discover", {Raised("history"), Os}), Step("render", {Raised("history"), Os}),
     Step("open", {Raised("history"), Other}) >>

BaselineSteps == << Step("select", {NoProject, G("baseline", "not_found"), Other}) >>

DiffSteps ==
  << Step("load", {NoProject, G("diff", "partial_baseline"), Raised("schema"), Os, Raised("data"), Other}),
     Step("target", {Raised("identity")}), Step("compare", {Raised("schema"), Other}),
     Step("print", {}) >>

RunSteps ==
  << Step("selector", {G("run", "invalid_selector")}), Step("root", {NoProject}),
     Step("config", {BadConfig, Other}), Step("profiles", {BadConfig, Other}),
     Step("suites", {G("run", "checks_"), G("run", "suite_"), Other}), Step("connect", {Unreachable, Other}),
     Step("verify", {G("neo4j", "credential_"), G("engine", "timeout"), Other}),
     Step("engine", {G("engine", "invalid_"), Other}),
     Step("close", {}), Step("write", {Os, Raised("render")}), Step("print", {Other}) >>

ChangesSteps ==
  << Step("root", {NoProject, BadConfig, Other}), Step("compare", {Os, Raised("data"), Other}),
     Step("print", {}) >>

MonitorSteps ==
  << Step("root", {NoProject, Other}), Step("profiles", {BadConfig, Other}),
     Step("connect", {Unreachable, Other}), Step("serve", {Os, Other}), Step("close", {}) >>

RedactSteps == << Step("source", {Raised("usage")}), Step("write", {Os, Other}) >>

Steps == [init |-> InitSteps, debug |-> DebugSteps, profile |-> ProfileSteps,
          generate |-> GenerateSteps, report |-> ReportSteps, baseline |-> BaselineSteps,
          diff |-> DiffSteps, run |-> RunSteps, changes |-> ChangesSteps,
          monitor |-> MonitorSteps, redact |-> RedactSteps]

(* The commands with a telemetry decorator.  The others reach the boundary *)
(* as "other" commands whose callback was never entered.                   *)
Instrumented == DOMAIN Steps \ {"changes", "monitor", "redact"}

(* What follows a step that succeeds; only the report renders or opens on  *)
(* request.                                                                *)
Asked(step) ==
  /\ step.name = "render" => "failures" \in options
  /\ command = "report" /\ step.name = "open" => "open" \in options

Place == CHOOSE i \in DOMAIN Steps[command] : Steps[command][i].name = next
Following == {i \in DOMAIN Steps[command] : i > Place /\ Asked(Steps[command][i])}
Current == CHOOSE step \in Range(Steps[command]) : step.name = next

------------------------------------------------------------------------------
(* The telemetry runtime.                                                  *)
Fresh == [entered |-> FALSE, outcome |-> "success", stage |-> "none", code |-> "none",
          results |-> "not_requested", report |-> "not_requested", baseline |-> "not_requested",
          generated |-> "not_requested", written |-> FALSE, probe |-> "none", probed |-> FALSE]

(* Every code has a safe one; a stage is never set without it.             *)
Fail(r, outcome, stage) == [r EXCEPT !.outcome = outcome, !.stage = stage, !.code = "safe"]
FailIfNone(r, outcome, stage) == IF r.outcome = "success" THEN Fail(r, outcome, stage) ELSE r

Probed(r, outcome) == [r EXCEPT !.probe = outcome, !.probed = TRUE]
Artifacts(r, outcome) == [r EXCEPT !.results = outcome, !.report = outcome, !.written = TRUE]
Generated(r, outcome) == [r EXCEPT !.generated = outcome, !.written = TRUE]
Baseline(r, outcome)  == [r EXCEPT !.baseline = outcome, !.written = TRUE]

StageForError(code) ==
  CASE code[1] = "project" -> "project_discovery"
    [] code[1] = "profile" -> "profile_load"
    [] code[2] \in {"suite_", "checks_"} -> "suite_load"
    [] code[1] = "neo4j" -> "probe"
    [] code[1] = "report" -> "report_render"
    [] code = <<"generate", "baseline_">> -> "baseline_load"
    [] code = <<"generate", "doc_">> -> "document_load"
    [] code = <<"generate", "provider_">> -> "provider_request"
    [] code = <<"generate", "output_invalid">> -> "generation_validation"
    [] code = <<"generate", "write_">> -> "artifact_write"
    [] OTHER -> "config_load"

(* CommandCompleted.fields_are_consistent.                                 *)
Validates(r) ==
  /\ (r.outcome = "success") = (r.stage = "none")
  /\ (r.outcome = "success") = (r.code = "none")
  /\ (r.probe # "none") = r.probed
  /\ "error" \in {r.results, r.report} => r.stage \in {"artifact_write", "report_render"}
  /\ r.baseline = "error" => r.stage = "baseline_write"
  /\ r.generated = "error" => r.stage = "artifact_write"
  /\ r.generated # "not_requested" => r.written

------------------------------------------------------------------------------
(* Handlers: what the runtime is told of exception e in step s, and how    *)
(* the command ends: with an exit code, or with the exception going on to  *)
(* the decorator, or not at all.                                           *)
Ends(r, code) == [rt |-> r, how |-> "exit", code |-> code]
Raises(r)     == [rt |-> r, how |-> "raise", code |-> 1]
Continues(r)  == [rt |-> r, how |-> "continue", code |-> 0]

(* Bad usage found in the callback passes the decorator before it exits.   *)
HandleInit(s, e) ==
  CASE s = "trace"      -> Continues(Probed(rt, "error"))
    [] e.kind = "usage" -> Ends(FailIfNone(rt, "unexpected_error", "project_discovery"), 2)
    [] OTHER            -> Raises(rt)

HandleDebug(s, e) ==
  IF e.kind # "graph" THEN Ends(rt, 1)
  ELSE LET r == IF s \in {"trace", "blocked"} THEN Probed(rt, "error") ELSE rt
       IN  Ends(Fail(r, "user_error", StageForError(e.code)), 1)

UnexpectedStage(s) ==
  CASE s = "root" -> "project_discovery" [] s = "profiles" -> "profile_load"
    [] s = "connect" -> "client_setup"   [] s = "collect" -> "profile_collection"

HandleProfile(s, e) ==
  CASE s = "save" /\ e.kind = "os" ->
         Ends(Fail(Baseline(rt, "error"), "unexpected_error", "baseline_write"), 1)
    [] s = "save" /\ e.kind # "os" -> Raises(rt)
    [] s # "save" /\ e.kind = "graph" ->
         Ends(Fail(rt, "user_error", IF s = "collect" THEN "profile_collection" ELSE StageForError(e.code)), 1)
    [] s # "save" /\ e.kind # "graph" ->
         Ends(FailIfNone(rt, "unexpected_error", UnexpectedStage(s)), 1)

(* Without its optional packages generate exits before it records anything. *)
HandleGenerate(s, e) ==
  LET r == IF s = "artifact_write" THEN Generated(rt, "error") ELSE rt
  IN  CASE e.kind = "missing" -> Ends(rt, 2)
        [] e.kind = "graph"   -> Ends(Fail(r, "user_error", StageForError(e.code)), 1)
        [] e.kind = "other"   ->
             IF s = "dependencies" THEN Raises(rt)
             ELSE Raises(Fail(r, "unexpected_error", IF s = "root" THEN "project_discovery" ELSE s))

HandleReport(s, e) ==
  LET unrendered == "failures" \in options /\ rt.report # "written"
      r == IF unrendered THEN [rt EXCEPT !.report = "error"] ELSE rt
  IN  CASE e.kind = "usage" -> Ends(Fail(rt, "user_error", "config_load"), 2)
        [] e.kind = "graph" -> Ends(Fail(rt, "user_error", StageForError(e.code)), 1)
        [] e.kind = "history" ->
             Ends(Fail(r, "user_error", IF unrendered \/ "open" \notin options
                                        THEN "report_render" ELSE "report_open"), 1)
        [] s = "render" /\ e.kind = "os" -> Ends(Fail(r, "unexpected_error", "report_render"), 1)
        [] OTHER -> Raises(rt)

HandleBaseline(s, e) ==
  IF e.kind = "graph" THEN Ends(Fail(rt, "user_error", "baseline_load"), 1) ELSE Raises(rt)

HandleDiff(s, e) ==
  CASE s = "load" /\ e.kind \in {"graph", "os", "data"} -> Ends(Fail(rt, "user_error", "baseline_load"), 2)
    [] e.kind \in {"schema", "identity"} -> Ends(Fail(rt, "user_error", "diff_compare"), 2)
    [] s = "compare" /\ e.kind = "other" -> Raises(Fail(rt, "unexpected_error", "diff_compare"))
    [] OTHER -> Raises(rt)

(* Without a decorator what they do not catch leaves no mark on its way.   *)
HandleOther(e) ==
  IF e.kind = "other" \/ (command = "redact" /\ e.kind = "os") THEN Raises(rt)
  ELSE Ends(rt, IF command = "monitor" THEN 1 ELSE 2)

Handle(s, e) ==
  CASE command = "init"     -> HandleInit(s, e)
    [] command = "debug"    -> HandleDebug(s, e)
    [] command = "profile"  -> HandleProfile(s, e)
    [] command = "generate" -> HandleGenerate(s, e)
    [] command = "report"   -> HandleReport(s, e)
    [] command = "baseline" -> HandleBaseline(s, e)
    [] command = "diff"     -> HandleDiff(s, e)
    [] OTHER                -> HandleOther(e)

------------------------------------------------------------------------------
NoResults == [status |-> "none", code |-> <<"none", "none">>, exit |-> 3]
Document(status, code, x) == [status |-> status, code |-> code, exit |-> x]

Init ==
  /\ command \in Commands
  /\ options \in IF command = "report" THEN SUBSET {"failures", "open"} ELSE {{}}
  /\ consented \in BOOLEAN
  /\ phase = "parse"
  /\ next = Steps[command][1].name
  /\ exit = 0
  /\ rt = Fresh
  /\ client = "none"
  /\ results = NoResults
  /\ writes = 0
  /\ failed = FALSE
  /\ reported = 0

(* Typer parses before the callback is entered; the boundary alone knows.  *)
Parse ==
  /\ phase = "parse"
  /\ \/ /\ phase' = "run"
        /\ rt' = [rt EXCEPT !.entered = command \in Instrumented]
        /\ UNCHANGED <<exit, failed>>
     \/ phase' = "finish" /\ exit' = 2 /\ failed' = TRUE /\ UNCHANGED rt
  /\ UNCHANGED <<given, next, client, results, writes, reported>>

(* The exit code of a command that got to its end: what it found.          *)
Exits == CASE command = "run"     -> {results.exit}
           [] command = "diff"    -> {0, 1}
           [] command = "changes" -> {0, 1, 2}
           [] OTHER               -> {0}

Done(s) ==
  CASE s = "trace"                              -> Probed(rt, "success")
    [] s = "save"                               -> Baseline(rt, "written")
    [] s = "artifact_write"                     -> Generated(rt, "written")
    [] command = "report" /\ s = "render"       -> [rt EXCEPT !.report = "written"]
    [] OTHER                                    -> rt

GoOn == IF Following = {} THEN phase' = "finish" /\ exit' \in Exits /\ UNCHANGED next
        ELSE next' = Steps[command][Min(Following)].name /\ UNCHANGED <<phase, exit>>

(* A step succeeds.                                                        *)
Proceed ==
  /\ phase = "run"
  /\ ~ (command = "run" /\ next \in {"engine", "close", "write"})
  /\ rt' = Done(next)
  /\ client' = CASE next = "connect" -> "open" [] next = "close" -> "closed" [] OTHER -> client
  /\ GoOn
  /\ UNCHANGED <<given, results, writes, failed, reported>>

(* A step raises and its handler acts.  What reaches the decorator marks a *)
(* command that has recorded nothing yet; a `finally` closes the client.   *)
Abort ==
  /\ phase = "run" /\ command # "run"
  /\ \E e \in Current.raises :
       LET h == Handle(next, e)
       IN  /\ failed' = (failed \/ h.how # "continue")
           /\ rt' = IF h.how = "raise" /\ rt.entered
                    THEN FailIfNone(h.rt, "unexpected_error", "project_discovery") ELSE h.rt
           /\ IF h.how = "continue" THEN GoOn
              ELSE /\ phase' = IF h.how = "raise" THEN "unwind" ELSE "finish"
                   /\ exit' = h.code /\ UNCHANGED next
  /\ client' = IF client = "open" THEN "closed" ELSE client
  /\ UNCHANGED <<given, results, writes, reported>>

------------------------------------------------------------------------------
(* run.                                                                    *)

(* Before execute_run's own try: the exception reaches run_command, which  *)
(* publishes a failed document when it can tell where.                     *)
RunUnprepared ==
  /\ phase = "run" /\ command = "run" /\ next \in {"selector", "root", "config"}
  /\ \E e \in Current.raises :
       /\ failed' = TRUE
       /\ rt' = IF e.kind = "graph" THEN Fail(rt, "user_error", StageForError(e.code))
                ELSE Fail(rt, "unexpected_error", "config_load")
       /\ results' = Document("failed", e.code, 3)
       /\ \/ next # "root" /\ next' = "write" /\ UNCHANGED <<phase, exit>>
          \/ next # "config" /\ phase' = "finish" /\ exit' = 3 /\ UNCHANGED next
  /\ UNCHANGED <<given, client, writes, reported>>

(* Inside it: the exception becomes a failed document, and the client is   *)
(* closed whatever happened.                                               *)
Translated(e) == IF e.kind = "graph" THEN e.code
                 ELSE IF next = "engine" THEN <<"engine", "unexpected">> ELSE <<"run", "configuration">>

RunFails ==
  /\ phase = "run" /\ command = "run" /\ next \in {"profiles", "suites", "connect", "verify", "engine"}
  /\ \E e \in Current.raises : results' = Document("failed", Translated(e), 3)
  /\ failed' = TRUE
  /\ next' = "close"
  /\ UNCHANGED <<given, phase, exit, rt, client, writes, reported>>

(* The engine's document: of a run that completed, in whole or in part, or *)
(* of one whose target could not be probed.                                *)
RunReturns ==
  /\ phase = "run" /\ command = "run" /\ next = "engine"
  /\ \/ results' \in {Document("complete", <<"none", "none">>, x) : x \in 0..2} /\ UNCHANGED failed
     \/ results' = Document("failed", <<"neo4j", "unreachable">>, 3) /\ failed' = TRUE
  /\ next' = "close"
  /\ UNCHANGED <<given, phase, exit, rt, client, writes, reported>>

RunCloses ==
  /\ phase = "run" /\ command = "run" /\ next = "close"
  /\ client' = IF client = "open" THEN "closed" ELSE client
  /\ next' = "write"
  /\ UNCHANGED <<given, phase, exit, rt, results, writes, failed, reported>>

(* Only a fault of the engine taken for a failure of the command.          *)
FaultClassified(r) ==
  IF results.code = <<"engine", "unexpected">> THEN FailIfNone(r, "engine_error", "engine") ELSE r

(* A document that says failed has not been classified yet unless the      *)
(* command failed before the service ran.                                  *)
Classified(r) ==
  IF results.status # "failed" THEN r
  ELSE IF results.code = <<"engine", "unexpected">> THEN FailIfNone(r, "engine_error", "engine")
  ELSE FailIfNone(r, "user_error", StageForError(results.code))

(* The stage the command was in when the write failed.                     *)
EngineStage(e) == "engine"

ArtifactStage(e) == IF e.kind = "render" THEN "report_render" ELSE "artifact_write"

Unwritten(e) == Fail(Artifacts(rt, "error"), "unexpected_error", ArtifactStage(e))

RunPublishes ==
  /\ phase = "run" /\ command = "run" /\ next = "write"
  /\ writes' = writes + 1
  /\ \/ /\ rt' = Artifacts(Classified(rt), "written")
        /\ next' = "print"
        /\ UNCHANGED <<phase, exit, failed>>
     \/ \E e \in Current.raises :
          /\ rt' = Unwritten(e)
          /\ failed' = TRUE
          /\ phase' = "finish" /\ exit' = 3 /\ UNCHANGED next
  /\ UNCHANGED <<given, client, results, reported>>

RunUnprinted ==
  /\ phase = "run" /\ command = "run" /\ next = "print"
  /\ failed' = TRUE
  /\ rt' = FailIfNone(rt, "unexpected_error", "project_discovery")
  /\ phase' = "unwind" /\ exit' = 1
  /\ UNCHANGED <<given, next, client, results, writes, reported>>

------------------------------------------------------------------------------
(* The boundary: an exit before any callback is taken for bad usage, an    *)
(* exception nobody recorded for an unexpected error, and the event is     *)
(* built once; one that its validator refuses is lost.                     *)
AtBoundary ==
  IF phase = "unwind" THEN FailIfNone(rt, "unexpected_error", "config_load")
  ELSE IF ~rt.entered /\ exit # 0 THEN Fail(rt, "user_error", "config_load") ELSE rt

Finish ==
  /\ phase \in {"finish", "unwind"}
  /\ rt' = AtBoundary
  /\ reported' = IF consented /\ Validates(AtBoundary) THEN reported + 1 ELSE reported
  /\ phase' = "done"
  /\ UNCHANGED <<given, next, exit, client, results, writes, failed>>

Run == RunUnprepared \/ RunFails \/ RunReturns \/ RunCloses \/ RunPublishes \/ RunUnprinted
Next == Parse \/ Proceed \/ Abort \/ Run \/ Finish
Spec == Init /\ [][Next]_vars

------------------------------------------------------------------------------
(* Every opted-in command ends in one CommandCompleted: whatever a handler *)
(* recorded on its way out, the event's own validator accepts it           *)
(* (cli.py:158-233, telemetry/policy.py:145-192).                          *)
EveryCommandReports == phase = "done" /\ consented => reported = 1

(* The event says success exactly when no requested stage failed to        *)
(* operate, whatever the exit code says of the checks                      *)
(* (docs/specifications/spec-10-telemetry-events.md:325-337).              *)
OutcomeIsOperational ==
  phase = "done" => (rt.outcome = "success") = ~failed

(* generate without its optional packages: an exit that records nothing.   *)
LacksPackages ==
  command = "generate" /\ next = "dependencies" /\ rt.entered /\ phase = "done" /\ exit = 2

(* Of the commands that record their own failures, the one exit above      *)
(* apart.                                                                  *)
RecordedOutcomeIsOperational ==
  command \in Instrumented \ {"debug"} /\ ~LacksPackages => OutcomeIsOperational

(* A run publishes at most once, and no connection outlives the work it    *)
(* was opened for: not while artifacts are written, not at exit            *)
(* (application/run.py:142-180, cli.py:1677-1981).                         *)
PublishesOnceOffline ==
  /\ writes <= 1
  /\ writes > 0 \/ phase = "done" => client # "open"

(* Together: a command that ends has published once, closed its connection *)
(* and reported itself.                                                    *)
CommandsEndInOrder == EveryCommandReports /\ PublishesOnceOffline
=============================================================================
