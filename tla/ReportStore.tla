------------------------------ MODULE ReportStore ------------------------------
(***************************************************************************)
(* The directory of published runs (application/artifacts.py and           *)
(* reporting/history.py): one directory of three files per run, the alias  *)
(* "latest", and the publishers, prunings, deletions and readers that      *)
(* share them under latest_publication_lock.                               *)
(*                                                                         *)
(* A run is its rank by finished_at.  The lock is held over a sequence of  *)
(* file-system steps, any of which may raise or be the last of its         *)
(* process; what happens in one critical section without leaving a trace   *)
(* on disk is one step.                                                    *)
(***************************************************************************)
EXTENDS Integers, Sequences, FiniteSets

CONSTANTS
  NRuns,       \* runs that are ever published, 1 the first to finish
  Publishers,  \* calls of write_run_artifacts
  RunOf,       \* the run each of them publishes
  Redacted,    \* runs exported with --redact
  Pruners,     \* calls of prune_report_runs
  Keep,        \* their keep argument
  Deleters,    \* calls of delete_report_runs
  Readers,     \* callers that list runs and then load one of them
  Nobody,
  Faults       \* what can go wrong: "error" (OSError), "rollback" (another
               \* one while the first is being undone), "crash"

Runs   == 1..NRuns
NoRun  == 0
Latest == 0
Places == {Latest} \cup Runs   \* the alias, and one directory per run id
Actors == Publishers \cup Pruners \cup Deleters \cup Readers

ASSUME StoreAssumption ==
  /\ NRuns \in Nat
  /\ RunOf \in [Publishers -> Runs]
  /\ Redacted \subseteq Runs
  /\ Keep \in Nat \ {0}
  /\ Nobody \notin Actors
  /\ Faults \subseteq {"error", "rollback", "crash"}

VARIABLES
  lock,       \* holder of latest_publication_lock
  pc,         \* where each actor is
  store,      \* visible directories
  bound,      \* previous_run_id and changes each publisher has bound
  staged,     \* files in the staging directory of each call under way
  hidden,     \* directories each actor has moved out of sight (backup, trash)
  targets,    \* directories a pruning or a deletion is to remove
  selected,   \* record a reader has listed, and then loaded
  published   \* ghost: documents that became latest, in order

vars == <<lock, pc, store, bound, staged, hidden, targets, selected, published>>

------------------------------------------------------------------------------
(* Documents, directories and records.                                     *)

(* What the store tells apart in a Results document: the run, its link and *)
(* the predecessor its summary was compared with.                          *)
Documents == [id : Runs, prev : Places, changes : Places]
NoDoc == [id |-> NoRun, prev |-> NoRun, changes |-> NoRun]

FileOrder == <<"results", "report", "summary">>
Files == {"results", "report", "summary"}

Directories == [doc : Documents \cup {NoDoc}, files : SUBSET Files]
Missing == [doc |-> NoDoc, files |-> {}]

Readable(dir) == "results" \in dir.files

(* _direct_report_runs                                                     *)
Records(s) == {k \in Places : Readable(s[k])}

Ids(s) == {s[k].doc.id : k \in Records(s)}

(* _discover_report_runs: of two records of one run, the one with a report *)
(* is preferred, then the one in history.                                  *)
RecordOf(s, id) ==
  IF /\ id \in Records(s)
     /\ \/ Latest \notin Records(s) \/ s[Latest].doc.id # id
        \/ "report" \in s[id].files
        \/ "report" \notin s[Latest].files
  THEN id ELSE Latest

Newest(ids) == CHOOSE i \in ids : \A j \in ids : j <= i

(* _previous_run_id: a redacted run has no link, and a run that is already *)
(* in history keeps the one it has.                                        *)
ForgetfulPreviousRunId(r) ==  \* links a retried run to itself
  IF r \in Redacted THEN NoRun
  ELSE IF Readable(store[r]) THEN store[r].doc.prev
  ELSE IF Readable(store[Latest]) THEN store[Latest].doc.id ELSE NoRun

PreviousRunId(r) ==
  IF r \in Redacted THEN NoRun
  ELSE IF Readable(store[r]) THEN store[r].doc.prev
  ELSE IF ~Readable(store[Latest]) THEN NoRun
  ELSE IF store[Latest].doc.id = r THEN store[Latest].doc.prev
  ELSE store[Latest].doc.id

(* _run_changes, and report_changes_summary of a redacted predecessor.     *)
RunChanges(r, prev) ==
  IF prev \in {NoRun} \cup Redacted THEN NoRun
  ELSE IF store[r] # Missing
  THEN IF "summary" \in store[r].files THEN store[r].doc.changes ELSE NoRun
  ELSE IF \E k \in {prev, Latest} : Readable(store[k]) /\ store[k].doc.id = prev
  THEN prev ELSE NoRun

------------------------------------------------------------------------------
Init ==
  /\ lock = Nobody
  /\ pc = [a \in Actors |->
             IF a \in Publishers THEN "bind"
             ELSE IF a \in Readers THEN "list" ELSE "request"]
  /\ store = [k \in Places |-> Missing]
  /\ bound = [p \in Publishers |-> [prev |-> NoRun, changes |-> NoRun]]
  /\ staged = [p \in Publishers |-> 0]
  /\ hidden = [a \in Actors |-> [k \in Places |-> Missing]]
  /\ targets = [a \in Actors |-> {}]
  /\ selected = [q \in Readers |-> [place |-> Latest, doc |-> NoDoc]]
  /\ published = <<>>

Goto(a, where) == pc' = [pc EXCEPT ![a] = where]

Release(a, where) == Goto(a, where) /\ lock' = Nobody

------------------------------------------------------------------------------
(* write_run_artifacts.                                                    *)

(* The link and the summary are bound under the lock, then rendered        *)
(* without it.                                                             *)
Bind(p) ==
  /\ pc[p] = "bind"
  /\ lock = Nobody
  /\ LET prev == PreviousRunId(RunOf[p])
     IN  bound' = [bound EXCEPT ![p] =
                     [prev |-> prev, changes |-> RunChanges(RunOf[p], prev)]]
  /\ Goto(p, "rendered")
  /\ UNCHANGED <<lock, store, staged, hidden, targets, selected, published>>

RenderFails(p) ==
  /\ pc[p] = "rendered"
  /\ "error" \in Faults
  /\ Goto(p, "failed")
  /\ UNCHANGED <<lock, store, bound, staged, hidden, targets, selected, published>>

(* The lock again: if another run has become latest meanwhile, once more.  *)
SkipRecheck(p) ==  \* publishes what was bound before rendering
  /\ pc[p] = "rendered"
  /\ lock = Nobody
  /\ Goto(p, "stage_history")
  /\ lock' = p
  /\ UNCHANGED <<store, bound, staged, hidden, targets, selected, published>>

RelinkOnRecheck(p) ==  \* corrects the link instead of rendering again
  /\ pc[p] = "rendered"
  /\ lock = Nobody
  /\ bound' = [bound EXCEPT ![p].prev = PreviousRunId(RunOf[p])]
  /\ Goto(p, "stage_history")
  /\ lock' = p
  /\ UNCHANGED <<store, staged, hidden, targets, selected, published>>

RecheckLatest(p) ==  \* forgets that a run in history keeps its link
  /\ pc[p] = "rendered"
  /\ lock = Nobody
  /\ IF bound[p].prev # store[Latest].doc.id
     THEN Goto(p, "bind") /\ UNCHANGED lock
     ELSE Goto(p, "stage_history") /\ lock' = p
  /\ UNCHANGED <<store, bound, staged, hidden, targets, selected, published>>

Recheck(p) ==
  /\ pc[p] = "rendered"
  /\ lock = Nobody
  /\ IF bound[p].prev # PreviousRunId(RunOf[p])
     THEN Goto(p, "bind") /\ UNCHANGED lock
     ELSE Goto(p, "stage_history") /\ lock' = p
  /\ UNCHANGED <<store, bound, staged, hidden, targets, selected, published>>

Document(p) ==
  [id |-> RunOf[p], prev |-> bound[p].prev, changes |-> bound[p].changes]

(* publish_run_directory: the three files, one by one, out of sight.       *)
Staging(p) == pc[p] \in {"stage_history", "stage_latest"}

WriteFile(p) ==
  /\ Staging(p)
  /\ staged[p] < Len(FileOrder)
  /\ staged' = [staged EXCEPT ![p] = @ + 1]
  /\ UNCHANGED <<lock, pc, store, bound, hidden, targets, selected, published>>

Staged(p) ==
  [doc |-> Document(p), files |-> {FileOrder[k] : k \in 1..staged[p]}]

(* ... swapped in.  A historical directory is never replaced: an identical *)
(* one is left as it is, another is an error.                              *)
EarlySwapHistory(p) ==  \* before the set is complete
  /\ pc[p] = "stage_history"
  /\ staged[p] > 0
  /\ store[RunOf[p]] = Missing
  /\ store' = [store EXCEPT ![RunOf[p]] = Staged(p)]
  /\ staged' = [staged EXCEPT ![p] = 0]
  /\ Goto(p, "stage_latest")
  /\ UNCHANGED <<lock, bound, hidden, targets, selected, published>>

SwapHistory(p) ==
  /\ pc[p] = "stage_history"
  /\ staged[p] = Len(FileOrder)
  /\ staged' = [staged EXCEPT ![p] = 0]
  /\ \/ /\ store[RunOf[p]] = Missing
        /\ store' = [store EXCEPT ![RunOf[p]] = Staged(p)]
        /\ Goto(p, "stage_latest") /\ UNCHANGED lock
     \/ /\ store[RunOf[p]] = Staged(p)
        /\ Goto(p, "stage_latest") /\ UNCHANGED <<lock, store>>
     \/ /\ store[RunOf[p]] \notin {Missing, Staged(p)}
        /\ Release(p, "failed") /\ UNCHANGED store
  /\ UNCHANGED <<bound, hidden, targets, selected, published>>

(* The alias is moved aside first, then replaced, then its backup removed. *)
BackUpLatest(p) ==
  /\ pc[p] = "stage_latest"
  /\ staged[p] = Len(FileOrder)
  /\ hidden' = [hidden EXCEPT ![p][Latest] = store[Latest]]
  /\ store' = [store EXCEPT ![Latest] = Missing]
  /\ Goto(p, "swap_latest")
  /\ UNCHANGED <<lock, bound, staged, targets, selected, published>>

SwapLatest(p) ==
  /\ pc[p] = "swap_latest"
  /\ store' = [store EXCEPT ![Latest] = Staged(p)]
  /\ staged' = [staged EXCEPT ![p] = 0]
  /\ published' = Append(published, Document(p))
  /\ Goto(p, "clean")
  /\ UNCHANGED <<lock, bound, hidden, targets, selected>>

DropBackup(p) ==
  /\ pc[p] = "clean"
  /\ hidden' = [hidden EXCEPT ![p][Latest] = Missing]
  /\ Release(p, "done")
  /\ UNCHANGED <<store, bound, staged, targets, selected, published>>

(* An OSError: the staging directory goes, and latest comes back.  When it *)
(* is the backup that cannot be removed, the new latest stays.             *)
PublishGivesUp(p) ==  \* leaves latest where it was moved
  /\ "error" \in Faults
  /\ pc[p] \in {"stage_history", "stage_latest", "swap_latest", "clean"}
  /\ staged' = [staged EXCEPT ![p] = 0]
  /\ Release(p, "failed")
  /\ UNCHANGED <<store, hidden, bound, targets, selected, published>>

PublishFails(p) ==
  /\ "error" \in Faults
  /\ pc[p] \in {"stage_history", "stage_latest", "swap_latest", "clean"}
  /\ staged' = [staged EXCEPT ![p] = 0]
  /\ IF pc[p] = "swap_latest" /\ hidden[p][Latest] # Missing
     THEN /\ store' = [store EXCEPT ![Latest] = hidden[p][Latest]]
          /\ hidden' = [hidden EXCEPT ![p][Latest] = Missing]
     ELSE UNCHANGED <<store, hidden>>
  /\ Release(p, "failed")
  /\ UNCHANGED <<bound, targets, selected, published>>

(* The rename that brings latest back may raise as well: the staging       *)
(* directory still goes, and latest stays in the backup.                   *)
RestoreFails(p) ==
  /\ {"error", "rollback"} \subseteq Faults
  /\ pc[p] = "swap_latest"
  /\ hidden[p][Latest] # Missing
  /\ staged' = [staged EXCEPT ![p] = 0]
  /\ Release(p, "stranded")
  /\ UNCHANGED <<store, hidden, bound, targets, selected, published>>

------------------------------------------------------------------------------
(* prune_report_runs: rmtree on the directories themselves.                *)

Candidates == Records(store) \ {Latest}

RequestPrune(p) ==
  /\ pc[p] = "request"
  /\ p \in Pruners
  /\ lock = Nobody
  /\ lock' = p
  /\ targets' = [targets EXCEPT ![p] =
       {k \in Candidates : Cardinality({j \in Candidates : j > k}) >= Keep}]
  /\ Goto(p, "prune")
  /\ UNCHANGED <<store, bound, staged, hidden, selected, published>>

(* A file, or the emptied directory.                                       *)
RemoveEntry(p) ==
  /\ pc[p] = "prune"
  /\ \E k \in targets[p] :
       /\ \A j \in targets[p] : j <= k
       /\ IF store[k].files = {}
          THEN /\ store' = [store EXCEPT ![k] = Missing]
               /\ targets' = [targets EXCEPT ![p] = @ \ {k}]
          ELSE /\ \E f \in store[k].files : store' = [store EXCEPT ![k].files = @ \ {f}]
               /\ UNCHANGED targets
  /\ UNCHANGED <<lock, pc, bound, staged, hidden, selected, published>>

EndPrune(p) ==
  /\ pc[p] = "prune"
  /\ targets[p] = {} \/ "error" \in Faults
  /\ Release(p, IF targets[p] = {} THEN "done" ELSE "failed")
  /\ UNCHANGED <<store, bound, staged, hidden, targets, selected, published>>

------------------------------------------------------------------------------
(* delete_report_runs: out of sight first, one directory after the other,  *)
(* then latest is pointed at the newest run that is left.                  *)

RequestDelete(d) ==
  /\ pc[d] = "request"
  /\ d \in Deleters
  /\ lock = Nobody
  /\ \E ids \in (SUBSET Ids(store)) \ {{}} :
       targets' = [targets EXCEPT ![d] = {k \in Records(store) : store[k].doc.id \in ids}]
  /\ lock' = d
  /\ Goto(d, "delete")
  /\ UNCHANGED <<store, bound, staged, hidden, selected, published>>

MoveToTrash(d) ==
  /\ pc[d] = "delete"
  /\ \E k \in targets[d] :
       /\ hidden' = [hidden EXCEPT ![d][k] = store[k]]
       /\ store' = [store EXCEPT ![k] = Missing]
       /\ targets' = [targets EXCEPT ![d] = @ \ {k}]
  /\ UNCHANGED <<lock, pc, bound, staged, selected, published>>

(* _stage_latest_alias copies the files the newest record has.             *)
Repoint(d) ==
  /\ pc[d] = "delete"
  /\ targets[d] = {}
  /\ store' = IF Records(store) # {} /\ store[Latest] = Missing
              THEN [store EXCEPT ![Latest] = store[RecordOf(store, Newest(Ids(store)))]]
              ELSE store
  /\ Goto(d, "empty_trash")
  /\ UNCHANGED <<lock, bound, staged, hidden, targets, selected, published>>

EmptyTrash(d) ==
  /\ pc[d] = "empty_trash"
  /\ \/ /\ hidden' = [hidden EXCEPT ![d] = [k \in Places |-> Missing]]
        /\ Release(d, "done")
     \/ /\ "error" \in Faults
        /\ Release(d, "failed")
        /\ UNCHANGED hidden
  /\ UNCHANGED <<store, bound, staged, targets, selected, published>>

(* What was moved comes back, one directory after the other.               *)
Moved(d) == {k \in Places : hidden[d][k] # Missing}

MoveBack(d, back) ==
  /\ store' = [k \in Places |-> IF k \in back THEN hidden[d][k] ELSE store[k]]
  /\ hidden' = [hidden EXCEPT ![d] =
                  [k \in Places |-> IF k \in back THEN Missing ELSE hidden[d][k]]]

DeleteFails(d) ==
  /\ "error" \in Faults
  /\ pc[d] = "delete"
  /\ MoveBack(d, Moved(d))
  /\ Release(d, "undone")
  /\ UNCHANGED <<bound, staged, targets, selected, published>>

(* A rename back that raises ends it: the rest stays in the trash.         *)
UndoFails(d) ==
  /\ {"error", "rollback"} \subseteq Faults
  /\ pc[d] = "delete"
  /\ \E back \in (SUBSET Moved(d)) \ {Moved(d)} : MoveBack(d, back)
  /\ Release(d, "stranded")
  /\ UNCHANGED <<bound, staged, targets, selected, published>>

------------------------------------------------------------------------------
(* discover_report_runs, and ReportRun.results when one is opened later.   *)

ListRuns(q) ==
  /\ pc[q] = "list"
  /\ lock = Nobody
  /\ \E id \in Ids(store) :
       LET k == RecordOf(store, id)
       IN  selected' = [selected EXCEPT ![q] = [place |-> k, doc |-> store[k].doc]]
  /\ Goto(q, "listed")
  /\ UNCHANGED <<lock, store, bound, staged, hidden, targets, published>>

SameSummary(a, b) == a.id = b.id /\ a.prev = b.prev

(* A run listed in latest is looked up again, by its id.                   *)
LoadFromWhereListed(q) ==  \* without looking it up
  /\ pc[q] = "listed"
  /\ lock = Nobody
  /\ LET k == selected[q].place
     IN  IF /\ Readable(store[k])
            /\ SameSummary(store[k].doc, selected[q].doc)
         THEN /\ selected' = [selected EXCEPT ![q].doc = store[k].doc]
              /\ Goto(q, "loaded")
         ELSE Goto(q, "refused") /\ UNCHANGED selected
  /\ UNCHANGED <<lock, store, bound, staged, hidden, targets, published>>

LoadRun(q) ==
  /\ pc[q] = "listed"
  /\ lock = Nobody
  /\ LET id == selected[q].doc.id
         k  == IF selected[q].place = Latest THEN RecordOf(store, id) ELSE id
     IN  IF /\ Readable(store[k])
            /\ SameSummary(store[k].doc, selected[q].doc)
         THEN /\ selected' = [selected EXCEPT ![q].doc = store[k].doc]
              /\ Goto(q, "loaded")
         ELSE Goto(q, "refused") /\ UNCHANGED selected
  /\ UNCHANGED <<lock, store, bound, staged, hidden, targets, published>>

------------------------------------------------------------------------------
Ended == {"done", "failed", "undone", "stranded", "loaded", "refused", "crashed"}

(* The process dies where it stands; the operating system drops its lock.  *)
(* What it had staged lies under a name nobody reads, and is not told      *)
(* apart any more.                                                         *)
Crash(a) ==
  /\ "crash" \in Faults
  /\ pc[a] \notin Ended
  /\ Goto(a, "crashed")
  /\ lock' = IF lock = a THEN Nobody ELSE lock
  /\ staged' = [p \in Publishers |-> IF p = a THEN 0 ELSE staged[p]]
  /\ UNCHANGED <<store, bound, hidden, targets, selected, published>>

Publish(p) ==
  \/ Bind(p) \/ RenderFails(p) \/ Recheck(p) \/ WriteFile(p) \/ SwapHistory(p)
  \/ BackUpLatest(p) \/ SwapLatest(p) \/ DropBackup(p) \/ PublishFails(p)
  \/ RestoreFails(p)

Prune(p) == RequestPrune(p) \/ RemoveEntry(p) \/ EndPrune(p)

Delete(d) ==
  \/ RequestDelete(d) \/ MoveToTrash(d) \/ Repoint(d) \/ EmptyTrash(d) \/ DeleteFails(d)
  \/ UndoFails(d)

Read(q) == ListRuns(q) \/ LoadRun(q)

Next ==
  \/ \E p \in Publishers : Publish(p)
  \/ \E p \in Pruners : Prune(p)
  \/ \E d \in Deleters : Delete(d)
  \/ \E q \in Readers : Read(q)
  \/ \E a \in Actors : Crash(a)

Spec == Init /\ [][Next]_vars

(* Every call that has begun keeps going.  FileLock polls without a queue, *)
(* so nothing more than weak fairness is assumed of acquiring the lock.    *)
FairSpec ==
  /\ Spec
  /\ \A p \in Publishers : WF_vars(Publish(p))
  /\ \A p \in Pruners : WF_vars(RemoveEntry(p) \/ EndPrune(p))
  /\ \A d \in Deleters : WF_vars(MoveToTrash(d) \/ Repoint(d) \/ EmptyTrash(d))

------------------------------------------------------------------------------
(* Correctness.                                                            *)

PublisherStates == {"bind", "rendered", "stage_history", "stage_latest", "swap_latest", "clean"}
States == PublisherStates \cup Ended
            \cup {"request", "prune", "delete", "empty_trash", "list", "listed"}

(* Every variable of the store keeps its type; a run's directory holds its *)
(* own document.                                                           *)
TypeOK ==
  /\ lock \in Actors \cup {Nobody}
  /\ pc \in [Actors -> States]
  /\ store \in [Places -> Directories]
  /\ \A r \in Runs : store[r].doc.id \in {NoRun, r}
  /\ bound \in [Publishers -> [prev : Places, changes : Places]]
  /\ staged \in [Publishers -> 0..Len(FileOrder)]
  /\ hidden \in [Actors -> [Places -> Directories]]
  /\ targets \in [Actors -> SUBSET Places]
  /\ selected \in [Readers -> [place : Places, doc : Documents \cup {NoDoc}]]
  /\ published \in Seq(Documents)

(* Concurrent runs form a chain (SPEC-01, run lineage): each run that has  *)
(* become latest links to the one that was latest before it; the first one *)
(* and a redacted one link to none.  A run that is published once more     *)
(* keeps its link, so this is about instances where none is.               *)
ConcurrentRunsFormChain ==
  \A k \in DOMAIN published :
    published[k].prev =
      IF k = 1 \/ published[k].id \in Redacted THEN NoRun ELSE published[k - 1].id

(* The changes block of a summary compares the run with its own link: the  *)
(* two are bound together although rendering happens between two locks.    *)
ChangesAgainstPredecessor ==
  \A k \in Places : store[k].doc.changes \in {NoRun, store[k].doc.prev}

(* Whoever reads a run through latest or through its own directory, once   *)
(* no publication is under way, learns the same lineage.                   *)
LatestMatchesHistory ==
  lock = Nobody =>
    LET id == store[Latest].doc.id
    IN  id # NoRun /\ store[id] # Missing => SameSummary(store[id].doc, store[Latest].doc)

(* A publication never shows part of a set, whatever publisher died or     *)
(* failed, and when: it leaves a visible directory whole, absent, or as it *)
(* was before.                                                             *)
WholeSets ==
  \A p \in Publishers : lock = p =>
    \A k \in Places : store'[k] # store[k] =>
      store'[k].files \in {{}, Files} \/ store'[k] = hidden[p][k]

(* A historical document may go, and never changes.                        *)
HistoryNeverRewritten ==
  \A r \in Runs : store[r] # Missing /\ store'[r] # Missing => store'[r].doc = store[r].doc

(* A publication or a deletion that took latest away, and lives to give    *)
(* the lock back, leaves the store with a latest, unless no run is left to *)
(* point it at.  Only a rollback that fails in its turn leaves none, and   *)
(* then the one it took is still whole where it was hidden.                *)
LatestNeverLost ==
  [][\A a \in Actors :
       /\ lock = a /\ lock' # a
       /\ pc'[a] # "crashed"
       /\ hidden[a][Latest] # Missing
       => \/ store'[Latest] # Missing
          \/ Records(store') = {}
          \/ pc'[a] = "stranded" /\ hidden'[a][Latest] = hidden[a][Latest]]_vars

(* Pruning leaves the newest Keep runs and latest alone.                   *)
PruneKeepsNewest ==
  \A p \in Pruners : pc[p] = "prune" /\ lock = p =>
    \A k \in Places : store'[k] # store[k] =>
      k # Latest /\ Cardinality({j \in Candidates : j > k}) >= Keep

(* Until a deletion empties its trash nothing is lost: each directory it   *)
(* found is where it was or hidden, the alias included, also when the      *)
(* rollback of one that failed half-way fails in its turn; once that       *)
(* rollback is complete, nothing is hidden.                                *)
DeletionLosesNothing ==
  \A d \in Deleters : lock = d /\ pc'[d] \in {"delete", "undone", "stranded"} =>
    \A k \in Places :
      /\ {store'[k], hidden'[d][k]} \cup {Missing} = {store[k], hidden[d][k]} \cup {Missing}
      /\ pc'[d] = "undone" => hidden'[d][k] = Missing

(* Together, whatever publisher, pruning or deletion fails on the way: no  *)
(* document in the history changes; a publication shows whole sets; what a *)
(* pruning takes apart, entirely or as far as it gets, lies beyond the     *)
(* newest Keep; and what a deletion has not yet emptied can be found.      *)
HistoryIsKept ==
  [][WholeSets /\ HistoryNeverRewritten /\ PruneKeepsNewest /\ DeletionLosesNothing]_vars

(* The run a reader opens is, to the last field, the one it picked from    *)
(* the list, although latest may have moved on and history may have been   *)
(* cut in between; a run picked from latest is refused only once no        *)
(* directory holds it any more.                                            *)
ReaderOpensSelected ==
  [][\A q \in Readers : pc[q] = "listed" =>
       /\ pc'[q] = "loaded" => selected'[q].doc = selected[q].doc
       /\ pc'[q] = "refused" /\ selected[q].place = Latest =>
            \A k \in Records(store) : ~SameSummary(store[k].doc, selected[q].doc)]_vars

(* The retry loop of write_run_artifacts ends: a run is rendered again     *)
(* only because another one has been published.                            *)
EveryPublisherEnds == <>(\A p \in Publishers : pc[p] \in Ended)
==============================================================================
