------------------------------ MODULE Telemetry ------------------------------
(***************************************************************************)
(* Opt-in telemetry as several processes of one user see it: the consent   *)
(* file they share (telemetry/consent.py), what each resolves from it, and *)
(* the delivery of one process's events: a bounded queue drained by a      *)
(* daemon thread until the command stops waiting (telemetry/posthog.py,    *)
(* telemetry/runtime.py).  An installation id is named after the process   *)
(* that minted it; a process mints at most one, and OneOff stands for any  *)
(* that is minted for one process only and never written down.             *)
(***************************************************************************)
EXTENDS Naturals, Sequences

CONSTANTS
  Processes,     \* the command invocations
  Role,          \* what each one is: "work", "enable", "disable" or "reset"
  Override,      \* its environment: "none", "off" (DO_NOT_TRACK too) or "on"
  Keyed,         \* those whose build or environment names a delivery key
  EngineEvents,  \* engine events the collector of a "work" process holds
  QueueSize      \* capacity of the delivery queue

ASSUME TelemetryAssumption ==
  /\ {"none", "installed", "one-off"} \cap Processes = {}
  /\ Role \in [Processes -> {"work", "enable", "disable", "reset"}]
  /\ Override \in [Processes -> {"none", "off", "on"}]
  /\ Keyed \subseteq Processes
  /\ EngineEvents \in Nat
  /\ QueueSize \in Nat \ {0}

VARIABLES
  stored,    \* the consent file: a record, or NoFile
  retired,   \* ids that a disable or a reset has taken out of use
  pc,        \* where each process is
  seen,      \* the record a control command has read, to be modified
  consent,   \* the consent each process has resolved
  pending,   \* events not yet offered to the adapter
  queue,     \* the adapter's queue
  open,      \* its unfinished_tasks
  worker,    \* the sender thread
  hand,      \* the item it has taken
  stopped,   \* the adapter's _stopped
  late,      \* close's time is up
  attempted, \* events handed to the transport
  dropped,   \* events refused by a full queue
  flushed,   \* what close() answered
  overdue    \* events that arrived after _stopped was set

files    == <<stored, retired, seen>>
delivery == <<pending, queue, open, worker, hand, stopped, late, attempted, dropped, flushed, overdue>>
vars     == <<files, pc, consent, delivery>>

-----------------------------------------------------------------------------
NoFile == [enabled |-> FALSE, current |-> FALSE, id |-> "none"]
Record(enabled, current, id) == [enabled |-> enabled, current |-> current, id |-> id]

Off     == [enabled |-> FALSE, id |-> "none"]
On(id)  == [enabled |-> TRUE, id |-> id]
OneOff  == "one-off"

Active(r) == r.enabled /\ r.current /\ r.id # "none"

(* The environment refuses before the file is asked; consent for the one   *)
(* process uses the stored id only where the stored opt-in is active.      *)
Resolved(p) ==
  IF Override[p] = "off"   THEN Off
  ELSE IF Active(stored)   THEN On(stored.id)
  ELSE IF Override[p] = "on" THEN On(OneOff)
  ELSE Off

Existing(r) == IF r.enabled /\ r.current THEN r.id ELSE "none"

(* A stored id is kept, whatever became of its consent.                    *)
ReviveEnabled(p) == Record(TRUE, TRUE, IF seen[p].id = "none" THEN p ELSE seen[p].id)

Enabled(p)  == Record(TRUE, TRUE, p)
Disabled(r) == Record(FALSE, IF r = NoFile THEN TRUE ELSE r.current, r.id)
Reset(p, r) == IF r.enabled /\ r.current THEN Record(TRUE, TRUE, p)
               ELSE Record(FALSE, IF r = NoFile THEN TRUE ELSE r.current, "none")

Written(p) == CASE Role[p] = "enable"  -> Enabled(p)
                [] Role[p] = "disable" -> Disabled(seen[p])
                [] Role[p] = "reset"   -> Reset(p, seen[p])

-----------------------------------------------------------------------------
Stop == "stop"

Init ==
  /\ stored \in {NoFile} \cup {Record(e, c, "installed") : e, c \in BOOLEAN}
  /\ retired = IF stored.enabled THEN {} ELSE {stored.id} \ {"none"}
  /\ pc = [p \in Processes |-> "start"]
  /\ seen = [p \in Processes |-> NoFile]
  /\ consent = [p \in Processes |-> Off]
  /\ pending = [p \in Processes |-> <<>>]
  /\ queue = [p \in Processes |-> <<>>]
  /\ open = [p \in Processes |-> 0]
  /\ worker = [p \in Processes |-> "absent"]
  /\ hand = [p \in Processes |-> "none"]
  /\ stopped = [p \in Processes |-> FALSE]
  /\ late = [p \in Processes |-> FALSE]
  /\ attempted = [p \in Processes |-> 0]
  /\ dropped = [p \in Processes |-> 0]
  /\ flushed = [p \in Processes |-> "unknown"]
  /\ overdue = [p \in Processes |-> 0]

Goto(p, l) == pc' = [pc EXCEPT ![p] = l]

(* A runtime is built on the consent at hand; without a key, or when its   *)
(* setup fails, there is no adapter and nothing to deliver.                *)
StartRuntime(p, c, events) ==
  \E adapter \in {c.enabled /\ p \in Keyed, FALSE} :
    /\ worker' = [worker EXCEPT ![p] = IF adapter THEN "waiting" ELSE "absent"]
    /\ pending' = [pending EXCEPT ![p] = IF adapter THEN events ELSE <<>>]
    /\ Goto(p, IF adapter THEN "capture" ELSE "exited")
    /\ UNCHANGED <<queue, open, hand, stopped, late, attempted, dropped, flushed, overdue>>

(* An ordinary command resolves consent, does its work with the engine's   *)
(* events kept in memory, and offers all of them when it finishes.         *)
Command(p) ==
  /\ Role[p] = "work" /\ pc[p] = "start"
  /\ consent' = [consent EXCEPT ![p] = Resolved(p)]
  /\ StartRuntime(p, Resolved(p), [i \in 1..EngineEvents |-> "engine"] \o <<"command">>)
  /\ UNCHANGED files

(* telemetry enable asks first what held before.                           *)
Before(p) ==
  /\ Role[p] = "enable" /\ pc[p] = "start"
  /\ consent' = [consent EXCEPT ![p] = Resolved(p)]
  /\ Goto(p, "read")
  /\ UNCHANGED <<files, delivery>>

(* The control commands read the file, without a lock ...                  *)
Read(p) ==
  /\ \/ Role[p] = "enable" /\ pc[p] = "read"
     \/ Role[p] \in {"disable", "reset"} /\ pc[p] = "start"
  /\ seen' = [seen EXCEPT ![p] = stored]
  /\ Goto(p, IF Role[p] = "enable" /\ Existing(stored) # "none" THEN "after" ELSE "write")
  /\ UNCHANGED <<stored, retired, consent, delivery>>

(* ... and replace it by what they make of what they read.  A write that   *)
(* fails leaves the file as it was.                                        *)
Write(p) ==
  /\ pc[p] = "write"
  /\ \/ /\ stored' = Written(p)
        /\ retired' = IF Role[p] = "enable" THEN retired
                      ELSE retired \cup ({stored.id, seen[p].id} \ {"none"})
        /\ Goto(p, IF Role[p] = "enable" THEN "after" ELSE "exited")
     \/ UNCHANGED <<stored, retired>> /\ Goto(p, "exited")
  /\ UNCHANGED <<seen, consent, delivery>>

(* enable reports itself only when it is what granted consent.             *)
After(p) ==
  /\ Role[p] = "enable" /\ pc[p] = "after"
  /\ consent' = [consent EXCEPT ![p] = Resolved(p)]
  /\ IF consent[p].enabled \/ ~Resolved(p).enabled
     THEN Goto(p, "exited") /\ UNCHANGED delivery
     ELSE StartRuntime(p, Resolved(p), <<"command">>)
  /\ UNCHANGED files

-----------------------------------------------------------------------------
(* Delivery.                                                               *)

(* put_nowait: an event that finds the queue full is lost.                 *)
Capture(p) ==
  /\ pc[p] = "capture" /\ pending[p] # <<>>
  /\ IF Len(queue[p]) < QueueSize
     THEN /\ queue' = [queue EXCEPT ![p] = Append(@, Head(pending[p]))]
          /\ open' = [open EXCEPT ![p] = @ + 1]
          /\ UNCHANGED dropped
     ELSE dropped' = [dropped EXCEPT ![p] = @ + 1] /\ UNCHANGED <<queue, open>>
  /\ pending' = [pending EXCEPT ![p] = Tail(@)]
  /\ UNCHANGED <<files, pc, consent, worker, hand, stopped, late, attempted, flushed, overdue>>

BeginClose(p) ==
  /\ pc[p] = "capture" /\ pending[p] = <<>>
  /\ Goto(p, "flush")
  /\ UNCHANGED <<files, consent, delivery>>

TimeUp(p) ==
  /\ pc[p] = "flush" /\ ~late[p]
  /\ late' = [late EXCEPT ![p] = TRUE]
  /\ UNCHANGED <<files, pc, consent, pending, queue, open, worker, hand, stopped, attempted,
                 dropped, flushed, overdue>>

AllDone(p) == open[p] = 0

(* The command waits for delivery, however long it takes.                  *)
WaitForever(p) == AllDone(p)

MayStopWaiting(p) == AllDone(p) \/ late[p]

FlushEnds(p) ==
  /\ pc[p] = "flush" /\ MayStopWaiting(p)
  /\ flushed' = [flushed EXCEPT ![p] = IF AllDone(p) THEN "yes" ELSE "no"]
  /\ stopped' = [stopped EXCEPT ![p] = TRUE]
  /\ Goto(p, "drain")
  /\ UNCHANGED <<files, consent, pending, queue, open, worker, hand, late, attempted, dropped, overdue>>

Drain(p) ==
  /\ pc[p] = "drain"
  /\ IF queue[p] # <<>>
     THEN /\ queue' = [queue EXCEPT ![p] = Tail(@)]
          /\ open' = [open EXCEPT ![p] = @ - 1]
          /\ UNCHANGED pc
     ELSE /\ queue' = [queue EXCEPT ![p] = <<Stop>>]
          /\ open' = [open EXCEPT ![p] = @ + 1]
          /\ Goto(p, "closed")
  /\ UNCHANGED <<files, consent, pending, worker, hand, stopped, late, attempted, dropped, flushed,
                 overdue>>

(* The interpreter does not wait for a daemon thread: it goes with the     *)
(* process and all its memory.                                             *)
Exit(p) ==
  /\ pc[p] = "closed"
  /\ Goto(p, "exited")
  /\ worker' = [worker EXCEPT ![p] = "absent"]
  /\ queue' = [queue EXCEPT ![p] = <<>>]
  /\ open' = [open EXCEPT ![p] = 0]
  /\ hand' = [hand EXCEPT ![p] = "none"]
  /\ stopped' = [stopped EXCEPT ![p] = FALSE]
  /\ late' = [late EXCEPT ![p] = FALSE]
  /\ attempted' = [attempted EXCEPT ![p] = 0]
  /\ dropped' = [dropped EXCEPT ![p] = 0]
  /\ flushed' = [flushed EXCEPT ![p] = "unknown"]
  /\ overdue' = [overdue EXCEPT ![p] = 0]
  /\ UNCHANGED <<files, consent, pending>>

Take(p) ==
  /\ worker[p] = "waiting" /\ queue[p] # <<>>
  /\ hand' = [hand EXCEPT ![p] = Head(queue[p])]
  /\ queue' = [queue EXCEPT ![p] = Tail(@)]
  /\ worker' = [worker EXCEPT ![p] = "taken"]
  /\ UNCHANGED <<files, pc, consent, pending, open, stopped, late, attempted, dropped, flushed, overdue>>

(* Only the sentinel ends the thread.                                      *)
LeavesOnSentinel(p) == hand[p] = Stop

Leaves(p) == hand[p] = Stop \/ stopped[p]

Look(p) ==
  /\ worker[p] = "taken"
  /\ IF Leaves(p)
     THEN /\ worker' = [worker EXCEPT ![p] = "ended"]
          /\ open' = [open EXCEPT ![p] = @ - 1]
     ELSE worker' = [worker EXCEPT ![p] = "sending"] /\ UNCHANGED open
  /\ UNCHANGED <<files, pc, consent, pending, queue, hand, stopped, late, attempted, dropped, flushed,
                 overdue>>

(* One request, never repeated: it arrives, or the failure is swallowed.   *)
Send(p) ==
  /\ worker[p] = "sending"
  /\ \/ overdue' = [overdue EXCEPT ![p] = @ + IF stopped[p] THEN 1 ELSE 0]
     \/ UNCHANGED overdue
  /\ attempted' = [attempted EXCEPT ![p] = @ + 1]
  /\ worker' = [worker EXCEPT ![p] = "waiting"]
  /\ open' = [open EXCEPT ![p] = @ - 1]
  /\ UNCHANGED <<files, pc, consent, pending, queue, hand, stopped, late, dropped, flushed>>

-----------------------------------------------------------------------------
Steps(p)   == \/ Command(p) \/ Before(p) \/ Read(p) \/ Write(p) \/ After(p)
              \/ Capture(p) \/ BeginClose(p) \/ TimeUp(p) \/ FlushEnds(p) \/ Drain(p) \/ Exit(p)
Sender(p)  == Take(p) \/ Look(p) \/ Send(p)

Next == \E p \in Processes : Steps(p) \/ Sender(p)
Spec == Init /\ [][Next]_vars

(* The main threads run and time passes; nothing is asked of the network.  *)
Fairness == \A p \in Processes : WF_vars(Steps(p))
FairSpec == Spec /\ Fairness

-----------------------------------------------------------------------------
(* An id that a disable or a reset took out of use is never taken up again *)
(* by a command that resolves its consent later, whatever the control      *)
(* commands interleave with: consent.py:54-69, 81-166.                     *)
RetiredIdsStayRetired ==
  [][\A p \in Processes : consent'[p] # consent[p] => consent'[p].id \notin retired]_vars

(* Once close() has stopped the adapter, at most the request then in       *)
(* flight still arrives; everything queued is dropped.                     *)
OnlyInFlightAfterStop ==
  \A p \in Processes : overdue[p] <= 1

(* close() answers that it flushed only when each event the queue accepted *)
(* was handed to the transport.                                            *)
FlushedMeansAttempted ==
  \A p \in Processes :
    flushed[p] = "yes" =>
      attempted[p] + dropped[p] = IF Role[p] = "work" THEN EngineEvents + 1 ELSE 1

(* Together: closing says what happened, and nothing is sent behind its    *)
(* back (telemetry/posthog.py:130-207).                                    *)
DeliveryIsHonest == OnlyInFlightAfterStop /\ FlushedMeansAttempted

(* A network that never answers cannot keep a command from ending.         *)
CommandsEnd == \A p \in Processes : <>(pc[p] = "exited")
=============================================================================
