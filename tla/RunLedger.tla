------------------------------ MODULE RunLedger ------------------------------
(***************************************************************************)
(* What Engine.run promises its caller, without workers, batches, clocks   *)
(* or telemetry: every selected check is settled at most once, and the     *)
(* call either returns a Results document accounting for every one of them *)
(* (or for none, when the run failed before any check), or raises.         *)
(***************************************************************************)
EXTENDS RunContract

CONSTANTS Checks, Unsettled

VARIABLES ledger,   \* what is settled about each check
          status,   \* "running" until a Results document is decided
          call      \* "open", then "returned" or "raised"

vars == <<ledger, status, call>>

Init ==
  /\ ledger = [i \in Checks |-> Unsettled]
  /\ status = "running"
  /\ call = "open"

Settle(i, r) ==
  /\ call = "open"
  /\ ledger[i] = Unsettled
  /\ ledger' = [ledger EXCEPT ![i] = r]
  /\ UNCHANGED <<status, call>>

(* The run settled every check; the contract accepts the document.         *)
Return(s) ==
  /\ call = "open"
  /\ \A i \in Checks : ledger[i] # Unsettled
  /\ s \in {"complete", "partial"}
  /\ Accepts(s, Checks, ledger)
  /\ status' = s
  /\ call' = "returned"
  /\ UNCHANGED ledger

(* The run could not start: an empty document with status failed.          *)
Fail ==
  /\ call = "open"
  /\ \A i \in Checks : ledger[i] = Unsettled
  /\ status' = "failed"
  /\ call' = "returned"
  /\ UNCHANGED ledger

Raise ==
  /\ call = "open"
  /\ call' = "raised"
  /\ UNCHANGED <<ledger, status>>

Next ==
  \/ \E i \in Checks, r \in Results : Settle(i, r)
  \/ \E s \in {"complete", "partial"} : Return(s)
  \/ Fail
  \/ Raise

Spec == Init /\ [][Next]_vars
==============================================================================
