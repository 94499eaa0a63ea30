----------------------------- MODULE MCServices -----------------------------
(***************************************************************************)
(* Two views of the command line: the processes that share a consent file  *)
(* and deliver events (Telemetry), and one command from its parsing to the *)
(* event that reports it (Command).  A behaviour explores one of them.     *)
(***************************************************************************)
EXTENDS Telemetry, TLC

CONSTANTS job, enabler, disabler, resetter, Commands

VARIABLES command, options, consented, phase, next, exit, rt, client, results,
          writes, failed, reported,
          explored    \* "telemetry" or "command"

Cmd == INSTANCE Command

invocation == << command, options, consented, phase, next, exit, rt, client,
                 results, writes, failed, reported >>

Roles == (job :> "work") @@ (enabler :> "enable") @@ (disabler :> "disable") @@ (resetter :> "reset")
Overrides == [p \in Processes |-> IF p = job THEN "on" ELSE "none"]

IdleCommand ==
  /\ command = "none" /\ options = {} /\ consented = FALSE /\ phase = "idle" /\ next = "none"
  /\ exit = 0 /\ rt = << >> /\ client = "none" /\ results = << >> /\ writes = 0
  /\ failed = FALSE /\ reported = 0

ASSUME ServicesAssumption == Commands \subseteq DOMAIN Cmd!Steps

ServicesInit ==
  /\ Init
  /\ \/ explored = "telemetry" /\ IdleCommand
     \/ explored = "command" /\ Cmd!Init

ServicesNext ==
  \/ explored = "telemetry" /\ Next /\ UNCHANGED << invocation, explored >>
  \/ explored = "command" /\ Cmd!Next /\ UNCHANGED << vars, explored >>

(* Fairness is Telemetry's: the main threads run and time passes.          *)
ServicesSpec ==
  /\ ServicesInit /\ [][ServicesNext]_<< vars, invocation, explored >>
  /\ \A p \in Processes : WF_vars(explored = "telemetry" /\ Steps(p))

(* Command's properties, stated in that module.                            *)
CommandsEndInOrder == explored = "command" => Cmd!CommandsEndInOrder
RecordedOutcomeIsOperational == explored = "command" => Cmd!RecordedOutcomeIsOperational

(* Telemetry!CommandsEnd, where its processes are explored.                *)
ProcessesEnd == explored = "telemetry" => CommandsEnd
=============================================================================
