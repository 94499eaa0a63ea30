----------------------------- MODULE Generation -----------------------------
(***************************************************************************)
(* One `graphcheck generate` (generation/service.py): what it reads, what  *)
(* it tells the user, what it sends to the provider, which proposals it    *)
(* keeps over two attempts, and how the suite reaches the checks directory *)
(* (generation/writer.py) beside other runs of the same command.           *)
(*                                                                         *)
(* A document is its edition on disk, a profile its place in the baseline  *)
(* directory, a proposal the id of its check or Bad.  A context is what a  *)
(* request carries: the profile and the edition of the documents.          *)
(***************************************************************************)
EXTENDS Naturals, SequencesExt

CONSTANTS Ids,           \* ids the provider may propose
          Bad,           \* a proposal that no check validates
          MaxRequested,  \* bound on --count
          MaxBatch,      \* bound on the proposals of one answer
          MaxSnapshots,  \* bound on the profiles in the baseline directory
          Busy           \* names (microseconds) that other runs may take

ASSUME GenerationAssumption == MaxRequested \in Nat

VARIABLES
    stage,      \* where the command is
    transport,  \* "plain", "gemini" or "gemma": how the provider is spoken to
    requested,  \* --count
    snapshots,  \* baseline directory: whether each profile validates, in order
    edition,    \* edition of the documents on disk
    context,    \* what was read: [profile, documents]
    told,       \* contexts disclosed to the user
    sent,       \* contexts in the requests, in order
    attempt,    \* 1 or 2
    retried,    \* the client repeated this attempt's request
    amended,    \* the first answer had no valid envelope
    retained,   \* ids of the validated candidates
    dropped,    \* codes of the final drops
    trial,      \* name the writer is trying
    temporary,  \* the hidden temporary file is there
    suites      \* checks directory: name -> [by, checks]

generation == << stage, transport, requested, snapshots, edition, context,
                 told, sent, attempt, retried, amended, retained, dropped,
                 trial, temporary, suites >>
heard == << context, told >>
talking == << sent, attempt, retried, amended >>
keeping == << retained, dropped >>
written == << trial, temporary, suites >>
ordered == << transport, requested >>

Over == {"failed", "stranded", "done", "dead"}

GenerationInit ==
    /\ stage = "config"
    /\ transport \in {"plain", "gemini", "gemma"}
    /\ requested \in 1..MaxRequested
    /\ snapshots \in SeqOf(BOOLEAN, MaxSnapshots - 1)
    /\ edition = 0
    /\ context = [profile |-> 0, documents |-> 0]
    /\ told = {}
    /\ sent = << >>
    /\ attempt = 1
    /\ retried = FALSE
    /\ amended = FALSE
    /\ retained = << >>
    /\ dropped = << >>
    /\ trial = 0
    /\ temporary = FALSE
    /\ suites = << >>

-----------------------------------------------------------------------------
(* What the command reads *)

LoadConfig ==
    /\ stage = "config"
    /\ stage' \in {"baseline", "failed"}
    /\ UNCHANGED << ordered, snapshots, edition, heard, talking, keeping, written >>

(* A named profile is read or refused; without a name the newest profile    *)
(* that validates is taken, over younger ones that do not.                  *)
NewestValid(valid) == IF valid = {} THEN 0 ELSE CHOOSE i \in valid : \A j \in valid : j <= i

LoadBaseline ==
    /\ stage = "baseline"
    /\ \E profile \in {NewestValid({i \in DOMAIN snapshots : snapshots[i]})}
                         \cup {i \in DOMAIN snapshots : snapshots[i]} \cup {0} :
         /\ context' = [context EXCEPT !.profile = profile]
         /\ stage' = IF profile = 0 THEN "failed" ELSE "documents"
    /\ UNCHANGED << ordered, snapshots, edition, told, talking, keeping, written >>

(* Each document is read once, whole; a missing, oversized or undecodable   *)
(* one refuses the command.                                                 *)
LoadDocuments ==
    /\ stage = "documents"
    /\ context' = [context EXCEPT !.documents = edition]
    /\ stage' \in {"client", "failed"}
    /\ UNCHANGED << ordered, snapshots, edition, told, talking, keeping, written >>

SetUpClient ==
    /\ stage = "client"
    /\ stage' \in {"disclosure", "failed"}
    /\ UNCHANGED << ordered, snapshots, edition, heard, talking, keeping, written >>

Disclose ==
    /\ stage = "disclosure"
    /\ told' = told \cup {context}
    /\ stage' = "request"
    /\ UNCHANGED << ordered, snapshots, edition, context, talking, keeping, written >>

(* What other programs do meanwhile: edit a document, store a profile.      *)
Edit ==
    /\ edition = 0
    /\ edition' = 1
    /\ UNCHANGED << stage, ordered, snapshots, heard, talking, keeping, written >>

Store ==
    /\ Len(snapshots) < MaxSnapshots
    /\ \E valid \in BOOLEAN : snapshots' = Append(snapshots, valid)
    /\ UNCHANGED << stage, ordered, edition, heard, talking, keeping, written >>

-----------------------------------------------------------------------------
(* The provider *)

Proposals == SeqOf(Ids \cup {Bad}, MaxBatch)

(* Mutant: the excess is not looked for.                                    *)
CodeWithoutLimit(proposal, kept) ==
    IF proposal = Bad THEN "invalid"
    ELSE IF proposal \in ToSet(kept) THEN "duplicate" ELSE "retained"

(* What becomes of a proposal, given the ids retained before it             *)
CodeOf(proposal, kept) ==
    CASE proposal = Bad -> "invalid"
      [] proposal # Bad /\ proposal \in ToSet(kept) -> "duplicate"
      [] proposal \in Ids \ ToSet(kept) /\ Len(kept) >= requested -> "excess"
      [] OTHER -> "retained"

Weigh(account, proposal) ==
    LET code == CodeOf(proposal, account.kept)
    IN  [kept |-> IF code = "retained" THEN Append(account.kept, proposal)
                                       ELSE account.kept,
         lost |-> IF code = "excess" \/ (code # "retained" /\ attempt = 2)
                  THEN Append(account.lost, code) ELSE account.lost]

(* The proposals of an answer one after the other, from what was retained   *)
(* and dropped before it                                                    *)
ProcessBatch(batch) ==
    LET account[i \in 0..Len(batch)] ==
          IF i = 0 THEN [kept |-> retained, lost |-> dropped]
                   ELSE Weigh(account[i - 1], batch[i])
    IN  account[Len(batch)]

(* Whether a correction is asked for: the tool transport of Google does     *)
(* without one as soon as something is retained.                            *)
Corrects(kept) == /\ attempt = 1
                  /\ Len(kept) < requested
                  /\ ~(transport = "gemma" /\ kept # << >>)

(* Mutant: the documents are read again for each request.                   *)
SendsAfresh == sent' = Append(sent, [context EXCEPT !.documents = edition])
Sends == sent' = Append(sent, context)

Advance(kept) ==
    IF Corrects(kept)
    THEN stage' = "request" /\ attempt' = 2 /\ retried' = FALSE
    ELSE stage' = (IF kept = << >> THEN "failed" ELSE "name")
         /\ UNCHANGED << attempt, retried >>

Answered ==
    /\ stage = "request"
    /\ Sends
    /\ \E batch \in Proposals :
         LET account == ProcessBatch(batch)
         IN  /\ retained' = account.kept
             /\ dropped' = account.lost
             /\ Advance(account.kept)
    /\ UNCHANGED << ordered, snapshots, edition, heard, amended, written >>

(* An answer without a valid envelope: corrected once by a full batch; at   *)
(* the second attempt a drop if something is retained, else an error.       *)
Garbled ==
    /\ stage = "request"
    /\ Sends
    /\ IF attempt = 1
       THEN /\ amended' = TRUE
            /\ Advance(<< >>)
            /\ UNCHANGED dropped
       ELSE /\ dropped' = IF retained = << >> THEN dropped
                                              ELSE Append(dropped, "invalid")
            /\ stage' = IF retained = << >> THEN "failed" ELSE "name"
            /\ UNCHANGED << amended, attempt, retried >>
    /\ UNCHANGED << ordered, snapshots, edition, heard, retained, written >>

(* A server error of Google's is tried once more, after a pause.            *)
Repeated ==
    /\ stage = "request" /\ transport # "plain" /\ ~retried
    /\ Sends
    /\ retried' = TRUE
    /\ UNCHANGED << stage, ordered, snapshots, edition, heard, attempt,
                    amended, keeping, written >>

(* Any other failure ends the command, whatever was retained before.        *)
Refused ==
    /\ stage = "request"
    /\ Sends
    /\ stage' = "failed"
    /\ UNCHANGED << ordered, snapshots, edition, heard, attempt, retried,
                    amended, keeping, written >>

-----------------------------------------------------------------------------
(* The writer *)

Quiet == << ordered, snapshots, edition, heard, talking, keeping >>

(* destination.exists(): the name is passed over.                           *)
PickName ==
    /\ stage = "name"
    /\ IF trial \in DOMAIN suites THEN trial' = trial + 1 /\ UNCHANGED stage
       ELSE stage' = "stage" /\ UNCHANGED trial
    /\ UNCHANGED << Quiet, temporary, suites >>

StageFile ==
    /\ stage = "stage"
    /\ temporary' = TRUE
    /\ stage' = "link"
    /\ UNCHANGED << Quiet, trial, suites >>

Publish(by) == suites' = [n \in DOMAIN suites \cup {trial} |->
                            IF n = trial THEN [by |-> by, checks |-> retained]
                                         ELSE suites[n]]

(* The link fails on a name taken since it was looked at: the temporary is  *)
(* removed and the next name tried.                                         *)
LinkSuite ==
    /\ stage = "link"
    /\ IF trial \in DOMAIN suites
       THEN /\ temporary' = FALSE /\ trial' = trial + 1 /\ stage' = "name"
            /\ UNCHANGED suites
       ELSE /\ Publish("us") /\ stage' = "tidy"
            /\ UNCHANGED << temporary, trial >>
    /\ UNCHANGED Quiet

Tidy ==
    /\ stage = "tidy"
    /\ temporary' = FALSE
    /\ stage' = "reload"
    /\ UNCHANGED << Quiet, trial, suites >>

(* The suite is read back through the loader; one that does not load is     *)
(* removed, if its removal does not fail too.                               *)
Unpublished == [n \in DOMAIN suites \ {trial} |-> suites[n]]

Reload ==
    /\ stage = "reload"
    /\ \/ stage' \in {"done", "stranded"} /\ UNCHANGED suites
       \/ stage' = "failed" /\ suites' = Unpublished
    /\ UNCHANGED << Quiet, trial, temporary >>

(* An OSError while staging, linking or removing the temporary: what has    *)
(* been published is withdrawn and the temporary removed.                   *)
Withdrawn == IF stage = "tidy" THEN suites' = Unpublished ELSE UNCHANGED suites

WriteFails ==
    /\ stage \in {"stage", "link", "tidy"}
    /\ Withdrawn
    /\ temporary' = FALSE
    /\ stage' = "failed"
    /\ UNCHANGED << Quiet, trial >>

(* One of these two unlinks raises as well: the first leaves the published  *)
(* suite and the temporary, the second the temporary.                       *)
WithdrawalFails ==
    /\ stage \in {"stage", "link", "tidy"}
    /\ Withdrawn \/ UNCHANGED suites
    /\ temporary' = TRUE
    /\ stage' = "stranded"
    /\ UNCHANGED << Quiet, trial >>

Interrupt ==
    /\ stage \notin Over
    /\ stage' = "dead"
    /\ UNCHANGED << Quiet, written >>

(* Another `generate` publishes under a free name: the clocks may agree.    *)
Rival ==
    /\ \E name \in Busy \ DOMAIN suites :
         suites' = [n \in DOMAIN suites \cup {name} |->
                      IF n = name THEN [by |-> "rival", checks |-> << >>]
                                  ELSE suites[n]]
    /\ UNCHANGED << stage, Quiet, trial, temporary >>

GenerationNext ==
    \/ LoadConfig \/ LoadBaseline \/ LoadDocuments \/ SetUpClient \/ Disclose
    \/ Edit \/ Store \/ Answered \/ Garbled \/ Repeated \/ Refused
    \/ PickName \/ StageFile \/ LinkSuite \/ Tidy \/ Reload \/ WriteFails \/ WithdrawalFails
    \/ Interrupt \/ Rival

GenerationSpec == GenerationInit /\ [][GenerationNext]_generation

-----------------------------------------------------------------------------
(* Nothing leaves the machine that the user has not been told: every        *)
(* request, the correction and the repetition of the client included,       *)
(* carries the profile and the documents of the disclosure, whatever has    *)
(* been edited or stored since; and there are at most two requests, twice   *)
(* that where the client repeats them (service.py:139-141, 164-167).        *)
SentAsDisclosed ==
    /\ \A i \in DOMAIN sent : sent[i] \in told
    /\ Len(sent) <= IF transport = "plain" THEN 2 ELSE 4

(* The checks directory shows nothing of a command that failed and could    *)
(* clean up, and of one that succeeded a single suite with the retained     *)
(* candidates: at least one, no more than asked for, no id twice.  A crash, *)
(* or a withdrawal that fails too, leaves a whole suite or none, and no     *)
(* suite of another run is ever touched (writer.py:54-108).                 *)
Ours == {n \in DOMAIN suites : suites[n].by = "us"}

SuiteIsExact ==
    /\ Ours # {} => /\ stage \in {"tidy", "reload"} \cup (Over \ {"failed"})
                    /\ Ours = {trial}
                    /\ suites[trial].checks = retained
                    /\ Len(retained) \in 1..requested
                    /\ IsInjective(retained)
    /\ stage = "done" => Ours # {} /\ ~temporary
    /\ stage = "failed" => ~temporary

RivalsAreKept ==
    \A n \in DOMAIN suites : suites[n].by = "rival" =>
      n \in DOMAIN suites' /\ suites'[n] = suites[n]
=============================================================================
