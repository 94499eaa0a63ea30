--------------------------- MODULE ReportStoreProofs ---------------------------
(***************************************************************************)
(* What the directory of published runs keeps, for any publishers,         *)
(* prunings, deletions and readers, any number of runs, and errors and     *)
(* crashes between any two file-system steps.                              *)
(***************************************************************************)
EXTENDS ReportStore, FiniteSetTheorems, WellFoundedInduction, TLAPS

(* An actor is of the kind its stage belongs to.                           *)
RoleInv ==
  \A a \in Actors :
    /\ pc[a] \in PublisherStates => a \in Publishers
    /\ a \in Publishers => pc[a] \in PublisherStates \cup Ended /\ targets[a] = {}

(* Mutual exclusion: between its first and its last step in the critical   *)
(* section an actor holds the lock, and nobody else is in there.           *)
Holding == {"stage_history", "stage_latest", "swap_latest", "clean",
            "prune", "delete", "empty_trash"}

LockInv == \A a \in Actors : pc[a] \in Holding <=> lock = a

(* Directories on disk, in sight or out of it.                             *)
Linked(dir) ==
  /\ dir.doc.id = NoRun => dir = Missing
  /\ dir.doc.id \in Redacted => dir.doc.prev = NoRun
  /\ dir.doc.changes \in {NoRun, dir.doc.prev}

DirInv ==
  /\ \A k \in Places : Linked(store[k])
  /\ \A a \in Actors, k \in Places : Linked(hidden[a][k])
  /\ \A a \in Actors, r \in Runs : hidden[a][r].doc.id \in {NoRun, r}

(* What a deletion has moved, back where it was.                           *)
Restored(d) ==
  [k \in Places |-> IF hidden[d][k] # Missing THEN hidden[d][k] ELSE store[k]]

(* The alias is whole, and tells of its run what history tells.            *)
Agrees(s) ==
  /\ s[Latest] = Missing \/ Readable(s[Latest])
  /\ LET id == s[Latest].doc.id
     IN  id # NoRun /\ s[id] # Missing => SameSummary(s[id].doc, s[Latest].doc)

Whole(p) == [doc |-> Document(p), files |-> Files]

Untouched(a) == \A k \in Places : hidden[a][k] = Missing

(* A directory that lost its results in a pruning that failed stays there. *)
Stuck(r) ==
  /\ store[r] # Missing
  /\ ~Readable(store[r])
  /\ \A a \in Actors : lock = a => r \notin targets[a]

Compared(p) == bound[p].changes \in {NoRun, bound[p].prev}

Publishing(p) ==
  /\ pc[p] \in {"bind", "rendered", "stage_history", "stage_latest"} => Untouched(p)
  /\ pc[p] \in {"rendered", "stage_history"} => Compared(p) \/ Stuck(RunOf[p])
  /\ pc[p] = "stage_history" => bound[p].prev = PreviousRunId(RunOf[p])
  /\ pc[p] \in {"stage_latest", "swap_latest"} => Compared(p) /\ store[RunOf[p]] = Whole(p)
  /\ pc[p] = "swap_latest" =>
       /\ staged[p] = Len(FileOrder)
       /\ store[Latest] = Missing
       /\ \A r \in Runs : hidden[p][r] = Missing
       /\ Agrees(Restored(p))
  /\ pc[p] = "clean" => store[Latest] = Whole(p)

(* Whoever is pruned has Keep newer ones that are not.                     *)
Pruning(a) ==
  pc[a] = "prune" =>
    /\ Untouched(a)
    /\ targets[a] \subseteq Runs
    /\ \A k \in targets[a] : Cardinality({j \in Candidates \ targets[a] : j > k}) >= Keep

Deleting(a) ==
  /\ pc[a] = "request" => Untouched(a)
  /\ pc[a] = "delete" =>
       /\ targets[a] \subseteq Records(store)
       /\ \A k \in Places : Missing \in {hidden[a][k], store[k]}
       /\ Agrees(Restored(a))
  /\ pc[a] = "empty_trash" => store[Latest] # Missing \/ Records(store) = {}

ActorInv ==
  /\ \A p \in Publishers : Publishing(p)
  /\ \A a \in Actors : Pruning(a) /\ Deleting(a)

SafeInv == TypeOK /\ RoleInv /\ LockInv /\ DirInv

StoreInv == SafeInv /\ Agrees(store) /\ ActorInv

(* What holds when each publisher has a run of its own.                    *)
OneRunEach == \A p, q \in Publishers : RunOf[p] = RunOf[q] => p = q

Published(doc) ==
  doc.id # NoRun =>
    \E p \in Publishers : doc = Document(p) /\ pc[p] \notin {"bind", "rendered"}

OwnInv ==
  /\ \A k \in Places : Published(store[k].doc)
  /\ \A a \in Actors, k \in Places : Published(hidden[a][k].doc)
  /\ \A q \in Readers : Published(selected[q].doc) 

Shows(dir) ==
  IF published = <<>> THEN dir = Missing
  ELSE dir.doc = published[Len(published)]

Predecessor(r) ==
  IF published = <<>> \/ r \in Redacted THEN NoRun ELSE published[Len(published)].id

ChainInv ==
  /\ ConcurrentRunsFormChain
  /\ (\A p \in Publishers : pc[p] # "swap_latest") => Shows(store[Latest])
  /\ \A p \in Publishers :
       /\ pc[p] = "swap_latest" => Shows(hidden[p][Latest])
       /\ pc[p] \in {"stage_history", "stage_latest", "swap_latest"} =>
            bound[p].prev = Predecessor(RunOf[p])

------------------------------------------------------------------------------
(* Types.                                                                  *)

LEMMA NewDocuments ==
  ASSUME TypeOK, NEW p \in Publishers
  PROVE  /\ RunOf[p] \in Runs /\ RunOf[p] # Latest
         /\ PreviousRunId(RunOf[p]) \in Places
         /\ \A prev \in Places : RunChanges(RunOf[p], prev) \in Places
         /\ Document(p) \in Documents
         /\ Staged(p) \in Directories
         /\ staged[p] = Len(FileOrder) => Staged(p) = Whole(p)
<1>1. RunOf[p] \in Runs /\ RunOf[p] # Latest
  BY StoreAssumption DEF Runs, Latest
<1>2. \A k \in Places : store[k].doc.prev \in Places /\ store[k].doc.changes \in Places
                       /\ store[k].doc.id \in Places
  BY DEF TypeOK, Directories, Documents, NoDoc, Places, NoRun, Latest
<1>3. PreviousRunId(RunOf[p]) \in Places
  BY <1>1, <1>2 DEF PreviousRunId, Places, NoRun, Latest
<1>4. \A prev \in Places : RunChanges(RunOf[p], prev) \in Places
  BY <1>1, <1>2 DEF RunChanges, Places, NoRun, Latest
<1>5. Document(p) \in Documents
  BY <1>1 DEF TypeOK, Document, Documents
<1>6. /\ {FileOrder[k] : k \in 1..staged[p]} \subseteq Files
      /\ staged[p] = Len(FileOrder) => {FileOrder[k] : k \in 1..staged[p]} = Files
  <2>1. staged[p] \in 0..3 /\ Len(FileOrder) = 3
    BY DEF TypeOK, FileOrder
  <2>2. FileOrder[1] = "results" /\ FileOrder[2] = "report" /\ FileOrder[3] = "summary"
    BY DEF FileOrder
  <2>3. \A k \in 1..3 : FileOrder[k] \in Files
    BY <2>2 DEF Files
  <2>4. {FileOrder[k] : k \in 1..3} = Files
    BY <2>2, <2>3 DEF Files
  <2> QED
    BY <2>1, <2>3, <2>4
<1> QED
  BY <1>1, <1>3, <1>4, <1>5, <1>6 DEF Staged, Whole, Directories

LEMMA TypeInit == Init => TypeOK
<1> SUFFICES ASSUME Init PROVE TypeOK
  OBVIOUS
<1> USE DEF Init
<1>1. Missing \in Directories /\ NoRun \in Places /\ Latest \in Places /\ Missing.doc = NoDoc
  BY DEF Missing, Directories, Files, NoDoc, Places, NoRun, Latest
<1>2. lock \in Actors \cup {Nobody} /\ pc \in [Actors -> States]
  BY DEF States, PublisherStates, Ended
<1>3. store \in [Places -> Directories] /\ \A r \in Runs : store[r].doc.id \in {NoRun, r}
  BY <1>1 DEF Places, NoDoc
<1>4. bound \in [Publishers -> [prev : Places, changes : Places]]
  BY <1>1
<1>5. staged \in [Publishers -> 0..Len(FileOrder)]
  BY DEF FileOrder
<1>6. hidden \in [Actors -> [Places -> Directories]] /\ targets \in [Actors -> SUBSET Places]
  BY <1>1
<1>7. selected \in [Readers -> [place : Places, doc : Documents \cup {NoDoc}]]
  BY <1>1
<1>8. published \in Seq(Documents)
  OBVIOUS
<1> QED
  BY <1>2, <1>3, <1>4, <1>5, <1>6, <1>7, <1>8 DEF TypeOK
(* The copy an alias is repointed to is one of the directories.            *)
LEMMA RecordIsPlace == \A id : RecordOf(store, id) \in Places
BY DEF RecordOf, Records, Places, Latest

LEMMA TypeStep == TypeOK /\ DirInv /\ [Next]_vars => TypeOK'
<1> SUFFICES ASSUME TypeOK, DirInv, [Next]_vars PROVE TypeOK'
  OBVIOUS
<1>0. /\ PublisherStates \subseteq States /\ Ended \subseteq States
      /\ {"request", "prune", "delete", "empty_trash", "list", "listed"} \subseteq States
      /\ Latest \in Places /\ Runs \subseteq Places /\ Missing \in Directories
      /\ Missing.doc.id = NoRun /\ Latest \notin Runs
  BY StoreAssumption DEF States, Places, Missing, NoDoc, Directories, Files, Runs, Latest
<1>1. ASSUME NEW p \in Publishers, Publish(p) PROVE TypeOK'
  <2>1. /\ p \in Actors /\ RunOf[p] \in Runs
        /\ PreviousRunId(RunOf[p]) \in Places
        /\ RunChanges(RunOf[p], PreviousRunId(RunOf[p])) \in Places
        /\ Document(p) \in Documents /\ Document(p).id = RunOf[p]
        /\ Staged(p) \in Directories /\ Staged(p).doc = Document(p)
        /\ staged[p] \in 0..3 /\ Len(FileOrder) = 3
    BY NewDocuments DEF Actors, Document, Staged, FileOrder, TypeOK
  <2> USE <1>0, <2>1 DEF TypeOK, Goto, Release, PublisherStates, Ended
  <2>2. CASE Bind(p)
    BY <2>2 DEF Bind
  <2>3. CASE RenderFails(p)
    BY <2>3 DEF RenderFails
  <2>4. CASE Recheck(p)
    BY <2>4 DEF Recheck
  <2>5. CASE WriteFile(p)
    BY <2>5 DEF WriteFile
  <2>6. CASE SwapHistory(p)
    <3>1. UNCHANGED store \/ store' = [store EXCEPT ![RunOf[p]] = Staged(p)]
      BY <2>6 DEF SwapHistory
    <3>2. store' \in [Places -> Directories] /\ \A r \in Runs : store'[r].doc.id \in {NoRun, r}
      BY <3>1
    <3>3. lock' \in Actors \cup {Nobody} /\ pc' \in [Actors -> States]
      BY <2>6 DEF SwapHistory
    <3>4. staged' \in [Publishers -> 0..Len(FileOrder)]
      BY <2>6 DEF SwapHistory
    <3> QED
      BY <2>6, <3>2, <3>3, <3>4 DEF SwapHistory
  <2>7. CASE BackUpLatest(p)
    BY <2>7 DEF BackUpLatest
  <2>8. CASE SwapLatest(p)
    BY <2>8 DEF SwapLatest
  <2>9. CASE DropBackup(p)
    BY <2>9 DEF DropBackup
  <2>10. CASE PublishFails(p)
    <3>0. hidden[p] \in [Places -> Directories] /\ hidden[p][Latest] \in Directories
      OBVIOUS
    <3>1. store' \in [Places -> Directories] /\ \A r \in Runs : store'[r].doc.id \in {NoRun, r}
      <4>1. UNCHANGED store \/ store' = [store EXCEPT ![Latest] = hidden[p][Latest]]
        BY <2>10 DEF PublishFails
      <4> QED
        BY <3>0, <4>1
    <3>2. hidden' \in [Actors -> [Places -> Directories]]
      <4>1. UNCHANGED hidden \/ hidden' = [hidden EXCEPT ![p] = [hidden[p] EXCEPT ![Latest] = Missing]]
        BY <2>10 DEF PublishFails
      <4>2. [hidden[p] EXCEPT ![Latest] = Missing] \in [Places -> Directories]
        BY <3>0
      <4> QED
        BY <4>1, <4>2
    <3>3. /\ staged' \in [Publishers -> 0..Len(FileOrder)]
          /\ lock' \in Actors \cup {Nobody} /\ pc' \in [Actors -> States]
      BY <2>10 DEF PublishFails
    <3> QED
      BY <2>10, <3>1, <3>2, <3>3 DEF PublishFails
  <2>11. CASE RestoreFails(p)
    BY <2>11 DEF RestoreFails
  <2> QED
    BY <1>1, <2>2, <2>3, <2>4, <2>5, <2>6, <2>7, <2>8, <2>9, <2>10, <2>11 DEF Publish
<1>2. ASSUME NEW p \in Pruners, Prune(p) PROVE TypeOK'
  <2>1. p \in Actors
    BY DEF Actors
  <2> USE <1>0, <2>1 DEF TypeOK, Goto, Release, Ended
  <2>2. CASE RequestPrune(p)
    BY <2>2 DEF RequestPrune, Candidates, Records
  <2>3. CASE RemoveEntry(p)
    <3>1. PICK k \in targets[p] :
            IF store[k].files = {}
            THEN /\ store' = [store EXCEPT ![k] = Missing]
                 /\ targets' = [targets EXCEPT ![p] = @ \ {k}]
            ELSE /\ \E f \in store[k].files : store' = [store EXCEPT ![k].files = @ \ {f}]
                 /\ UNCHANGED targets
      BY <2>3 DEF RemoveEntry
    <3>2. k \in Places
      BY <3>1
    <3>3. targets' \in [Actors -> SUBSET Places]
      <4>1. targets[p] \ {k} \in SUBSET Places
        BY <3>1
      <4> QED
        BY <3>1, <4>1
    <3>4. /\ store' \in [Places -> Directories]
          /\ \A j \in Places : store'[j].doc.id \in {NoRun, store[j].doc.id}
      <4>1. CASE store' = [store EXCEPT ![k] = Missing]
        BY <3>2, <4>1
      <4>2. ASSUME NEW f, store' = [store EXCEPT ![k].files = @ \ {f}]
            PROVE  /\ store' \in [Places -> Directories]
                   /\ \A j \in Places : store'[j].doc.id \in {NoRun, store[j].doc.id}
        BY <3>2, <4>2 DEF Directories
      <4> QED
        BY <3>1, <4>1, <4>2
    <3> QED
      BY <2>3, <3>3, <3>4 DEF RemoveEntry
  <2>4. CASE EndPrune(p)
    BY <2>4 DEF EndPrune
  <2> QED
    BY <1>2, <2>2, <2>3, <2>4 DEF Prune
<1>3. ASSUME NEW d \in Deleters, Delete(d) PROVE TypeOK'
  <2>1. d \in Actors
    BY DEF Actors
  <2> USE <1>0, <2>1 DEF TypeOK, Goto, Release, Ended
  <2>2. CASE RequestDelete(d)
    BY <2>2 DEF RequestDelete, Records
  <2>3. CASE MoveToTrash(d)
    BY <2>3 DEF MoveToTrash
  <2>4. CASE Repoint(d)
    BY <2>4, RecordIsPlace DEF Repoint
  <2>5. CASE EmptyTrash(d)
    <3>1. hidden' \in [Actors -> [Places -> Directories]]
      <4>1. UNCHANGED hidden \/ hidden' = [hidden EXCEPT ![d] = [k \in Places |-> Missing]]
        BY <2>5 DEF EmptyTrash
      <4>2. [k \in Places |-> Missing] \in [Places -> Directories]
        OBVIOUS
      <4> QED
        BY <4>1, <4>2
    <3>2. lock' \in Actors \cup {Nobody} /\ pc' \in [Actors -> States]
      BY <2>5 DEF EmptyTrash
    <3> QED
      BY <2>5, <3>1, <3>2 DEF EmptyTrash
  <2>6. CASE DeleteFails(d) \/ UndoFails(d)
    <3>1. PICK back \in SUBSET Places : MoveBack(d, back)
      BY <2>6 DEF DeleteFails, UndoFails, Moved
    <3>2. hidden[d] \in [Places -> Directories]
      OBVIOUS
    <3>3. store' \in [Places -> Directories] /\ \A r \in Runs : store'[r].doc.id \in {NoRun, r}
      BY <3>1, <3>2 DEF MoveBack, DirInv, Places
    <3>4. [k \in Places |-> IF k \in back THEN Missing ELSE hidden[d][k]] \in [Places -> Directories]
      BY <3>2
    <3>5. hidden' \in [Actors -> [Places -> Directories]]
      BY <3>1, <3>4 DEF MoveBack
    <3>6. lock' \in Actors \cup {Nobody} /\ pc' \in [Actors -> States]
      BY <2>6 DEF DeleteFails, UndoFails
    <3>7. UNCHANGED <<bound, staged, targets, selected, published>>
      BY <2>6 DEF DeleteFails, UndoFails
    <3> QED
      BY <3>3, <3>5, <3>6, <3>7
  <2> QED
    BY <1>3, <2>2, <2>3, <2>4, <2>5, <2>6 DEF Delete
<1>4. ASSUME NEW q \in Readers, Read(q) PROVE TypeOK'
  <2>1. q \in Actors
    BY DEF Actors
  <2>2. \A k \in Places : store[k].doc \in Documents \cup {NoDoc}
    BY DEF TypeOK, Directories
  <2> USE <1>0, <2>1, <2>2, RecordIsPlace DEF TypeOK, Goto, Ended
  <2>3. CASE ListRuns(q)
    BY <2>3 DEF ListRuns
  <2>4. CASE LoadRun(q)
    <3> DEFINE id == selected[q].doc.id
               k  == IF selected[q].place = Latest THEN RecordOf(store, id) ELSE id
    <3>1. k \in Places
      BY DEF Documents, NoDoc, Places, NoRun, Latest
    <3>2. UNCHANGED selected \/ selected' = [selected EXCEPT ![q].doc = store[k].doc]
      BY <2>4 DEF LoadRun
    <3>3. selected' \in [Readers -> [place : Places, doc : Documents \cup {NoDoc}]]
      <4> HIDE DEF k
      <4> QED
        BY <3>1, <3>2
    <3> QED
      BY <2>4, <3>3 DEF LoadRun
  <2> QED
    BY <1>4, <2>3, <2>4 DEF Read
<1>5. ASSUME NEW a \in Actors, Crash(a) PROVE TypeOK'
  BY <1>0, <1>5 DEF TypeOK, Crash, Goto, Ended
<1>6. CASE UNCHANGED vars
  BY <1>6 DEF TypeOK, vars
<1> QED
  BY <1>1, <1>2, <1>3, <1>4, <1>5, <1>6 DEF Next
------------------------------------------------------------------------------
(* What the rollback of a deletion makes of the directories.               *)

LEMMA BackAsItWas ==
  ASSUME TypeOK, NEW b \in Actors, DeleteFails(b) \/ UndoFails(b)
  PROVE  /\ \A k \in Places :
              \/ store'[k] = store[k] /\ hidden'[b][k] = hidden[b][k]
              \/ store'[k] = hidden[b][k] /\ hidden[b][k] # Missing /\ hidden'[b][k] = Missing
         /\ DeleteFails(b) => store' = Restored(b) /\ \A k \in Places : hidden'[b][k] = Missing
<1>0. store \in [Places -> Directories] /\ hidden \in [Actors -> [Places -> Directories]]
  BY DEF TypeOK
<1>1. PICK back \in SUBSET Moved(b) : MoveBack(b, back) /\ (DeleteFails(b) => back = Moved(b))
  BY DEF DeleteFails, UndoFails
<1>2. back \subseteq Places /\ \A k \in back : hidden[b][k] # Missing
  BY DEF Moved
<1>3. store' = [k \in Places |-> IF k \in back THEN hidden[b][k] ELSE store[k]]
  BY <1>1 DEF MoveBack
<1>4. hidden'[b] = [k \in Places |-> IF k \in back THEN Missing ELSE hidden[b][k]]
  BY <1>0, <1>1 DEF MoveBack
<1>5. back = Moved(b) => store' = Restored(b) /\ \A k \in Places : hidden'[b][k] = Missing
  BY <1>3, <1>4 DEF Moved, Restored
<1>6. \A k \in Places :
        \/ store'[k] = store[k] /\ hidden'[b][k] = hidden[b][k]
        \/ store'[k] = hidden[b][k] /\ hidden[b][k] # Missing /\ hidden'[b][k] = Missing
  BY <1>2, <1>3, <1>4
<1> QED
  BY <1>1, <1>5, <1>6

(* Who holds the lock, and what the others cannot have done meanwhile.     *)

StepOf(a) ==
  \/ a \in Publishers /\ Publish(a)
  \/ a \in Pruners /\ Prune(a)
  \/ a \in Deleters /\ Delete(a)
  \/ a \in Readers /\ Read(a)
  \/ Crash(a)

LEMMA NextByActor == Next <=> \E a \in Actors : StepOf(a)
BY DEF Next, StepOf, Actors

(* A step leaves the others' state alone.                                  *)
LEMMA OthersStandBy ==
  ASSUME TypeOK, NEW b \in Actors, StepOf(b), NEW a \in Actors, a # b
  PROVE  /\ pc'[a] = pc[a] /\ hidden'[a] = hidden[a] /\ targets'[a] = targets[a]
         /\ a \in Publishers => bound'[a] = bound[a] /\ staged'[a] = staged[a]
         /\ a \in Readers => selected'[a] = selected[a]
<1> USE DEF TypeOK, Goto, Release
<1>1. CASE b \in Publishers /\ Publish(b)
  <2>1. pc'[a] = pc[a] /\ UNCHANGED <<targets, selected>>
    BY <1>1 DEF Publish, Bind, RenderFails, Recheck, WriteFile, SwapHistory, BackUpLatest,
                SwapLatest, DropBackup, PublishFails, RestoreFails
  <2>2. a \in Publishers => bound'[a] = bound[a] /\ staged'[a] = staged[a]
    BY <1>1 DEF Publish, Bind, RenderFails, Recheck, WriteFile, SwapHistory, BackUpLatest,
                SwapLatest, DropBackup, PublishFails, RestoreFails
  <2>3. hidden'[a] = hidden[a]
    BY <1>1 DEF Publish, Bind, RenderFails, Recheck, WriteFile, SwapHistory, BackUpLatest,
                SwapLatest, DropBackup, PublishFails, RestoreFails
  <2> QED
    BY <2>1, <2>2, <2>3
<1>2. CASE b \in Pruners /\ Prune(b)
  BY <1>2 DEF Prune, RequestPrune, RemoveEntry, EndPrune
<1>3. CASE b \in Deleters /\ Delete(b)
  BY <1>3 DEF Delete, RequestDelete, MoveToTrash, Repoint, EmptyTrash, DeleteFails, UndoFails, MoveBack
<1>4. CASE b \in Readers /\ Read(b)
  BY <1>4 DEF Read, ListRuns, LoadRun
<1>5. CASE Crash(b)
  BY <1>5 DEF Crash
<1> QED
  BY <1>1, <1>2, <1>3, <1>4, <1>5 DEF StepOf

(* Without the lock a step changes nothing that is shared, and the lock    *)
(* passes only from whoever has it and to whoever takes it.                *)
LEMMA LockGuards ==
  ASSUME TypeOK, LockInv, NEW b \in Actors, StepOf(b)
  PROVE  /\ lock # b => UNCHANGED <<store, hidden, published>>
         /\ lock # b => lock' = lock \/ (lock = Nobody /\ lock' = b)
         /\ lock = b => lock' \in {b, Nobody}
         /\ pc'[b] \in Holding <=> lock' = b
<1> USE StoreAssumption DEF TypeOK, LockInv, Holding, Goto, Release
<1>0. b # Nobody
  OBVIOUS
<1>1. CASE b \in Publishers /\ Publish(b)
  BY <1>0, <1>1 DEF Publish, Bind, RenderFails, Recheck, WriteFile, Staging, SwapHistory,
              BackUpLatest, SwapLatest, DropBackup, PublishFails, RestoreFails
<1>2. CASE b \in Pruners /\ Prune(b)
  BY <1>0, <1>2 DEF Prune, RequestPrune, RemoveEntry, EndPrune
<1>3. CASE b \in Deleters /\ Delete(b)
  BY <1>0, <1>3 DEF Delete, RequestDelete, MoveToTrash, Repoint, EmptyTrash, DeleteFails, UndoFails, MoveBack
<1>4. CASE b \in Readers /\ Read(b)
  BY <1>0, <1>4 DEF Read, ListRuns, LoadRun
<1>5. CASE Crash(b)
  BY <1>0, <1>5 DEF Crash, Ended
<1> QED
  BY <1>1, <1>2, <1>3, <1>4, <1>5 DEF StepOf

LEMMA RoleStep ==
  ASSUME TypeOK, RoleInv, LockInv, NEW b \in Actors, StepOf(b)
  PROVE  RoleInv' /\ LockInv'
<1>1. LockInv'
  <2>1. ASSUME NEW a \in Actors, a # b PROVE (pc[a] \in Holding <=> lock = a)'
    BY <2>1, OthersStandBy, LockGuards, StoreAssumption DEF LockInv
  <2> QED
    BY <2>1, LockGuards DEF LockInv
<1>2. RoleInv'
  <2>1. ASSUME NEW a \in Actors, a # b
        PROVE  /\ pc'[a] \in PublisherStates => a \in Publishers
               /\ a \in Publishers => pc'[a] \in PublisherStates \cup Ended /\ targets'[a] = {}
    BY <2>1, OthersStandBy DEF RoleInv
  <2>2. /\ pc'[b] \in PublisherStates => b \in Publishers
        /\ b \in Publishers => pc'[b] \in PublisherStates \cup Ended /\ targets'[b] = {}
    <3> USE DEF TypeOK, RoleInv, Goto, Release, PublisherStates, Ended
    <3>1. CASE b \in Publishers /\ Publish(b)
      BY <3>1 DEF Publish, Bind, RenderFails, Recheck, WriteFile, Staging, SwapHistory,
                  BackUpLatest, SwapLatest, DropBackup, PublishFails, RestoreFails
    <3>2. CASE b \in Pruners /\ Prune(b)
      BY <3>2 DEF Prune, RequestPrune, RemoveEntry, EndPrune
    <3>3. CASE b \in Deleters /\ Delete(b)
      BY <3>3 DEF Delete, RequestDelete, MoveToTrash, Repoint, EmptyTrash, DeleteFails, UndoFails, MoveBack
    <3>4. CASE b \in Readers /\ Read(b)
      BY <3>4 DEF Read, ListRuns, LoadRun
    <3>5. CASE Crash(b)
      BY <3>5 DEF Crash
    <3> QED
      BY <3>1, <3>2, <3>3, <3>4, <3>5 DEF StepOf
  <2> QED
    BY <2>1, <2>2 DEF RoleInv
<1> QED
  BY <1>1, <1>2

------------------------------------------------------------------------------
(* Directories: what is put in sight is linked, and what moves stays so.   *)

LEMMA MissingIsLinked == Linked(Missing) /\ ~Readable(Missing)
BY StoreAssumption DEF Linked, Missing, NoDoc, NoRun, Readable

LEMMA NumberedPlaces ==
  /\ Latest \in Places /\ Runs \subseteq Places /\ Latest \notin Runs /\ NoRun \notin Runs
  /\ Latest = 0 /\ NoRun = 0
  /\ \A k \in Places : k = Latest \/ k \in Runs
BY StoreAssumption DEF Places, Latest, Runs, NoRun

(* What a publisher has staged when it swaps its directories in.           *)
LEMMA StagedIsLinked ==
  ASSUME StoreInv, NEW p \in Publishers,
         \/ SwapHistory(p) /\ store[RunOf[p]] = Missing
         \/ SwapLatest(p)
  PROVE  Staged(p) = Whole(p) /\ Linked(Staged(p)) /\ Compared(p)
<1> USE DEF StoreInv, SafeInv, ActorInv
<1>1. Publishing(p) /\ RunOf[p] \in Runs /\ RunOf[p] # NoRun
  BY NewDocuments DEF Latest, NoRun
<1>2. CASE SwapHistory(p) /\ store[RunOf[p]] = Missing
  <2>1. Staged(p) = Whole(p)
    BY <1>2, NewDocuments DEF SwapHistory
  <2>2. Compared(p) /\ bound[p].prev = PreviousRunId(RunOf[p])
    BY <1>1, <1>2 DEF SwapHistory, Publishing, Stuck
  <2>3. RunOf[p] \in Redacted => bound[p].prev = NoRun
    BY <2>2 DEF PreviousRunId
  <2> QED
    BY <1>1, <2>1, <2>2, <2>3 DEF Linked, Whole, Document, Compared
<1>3. CASE SwapLatest(p)
  <2>1. pc[p] = "swap_latest" /\ staged[p] = Len(FileOrder) /\ store[RunOf[p]] = Whole(p)
    BY <1>1, <1>3 DEF SwapLatest, Publishing
  <2>2. Linked(store[RunOf[p]])
    BY <1>1, NumberedPlaces DEF DirInv
  <2>3. Compared(p)
    BY <1>1, <2>1 DEF Publishing
  <2> QED
    BY <2>1, <2>2, <2>3, NewDocuments
<1> QED
  BY <1>2, <1>3

LEMMA DirStep ==
  ASSUME StoreInv, NEW b \in Actors, StepOf(b)
  PROVE  DirInv'
<1> USE NumberedPlaces, MissingIsLinked DEF StoreInv, SafeInv
<1> DEFINE DirsAreOld ==
      /\ \A k \in Places : store'[k] = Missing \/ Linked(store'[k])
      /\ \A k \in Places : hidden'[b][k] \in {Missing, store[k], hidden[b][k]}
<1>1. CASE UNCHANGED <<store, hidden>>
  BY <1>1 DEF DirInv, Linked
<1>2. CASE lock = b /\ DirsAreOld
  <2>1. \A k \in Places : Linked(store'[k])
    BY <1>2
  <2>2. ASSUME NEW a \in Actors, NEW k \in Places
        PROVE  /\ Linked(hidden'[a][k])
               /\ k \in Runs => hidden'[a][k].doc.id \in {NoRun, k}
    <3>1. CASE a # b
      BY <3>1, OthersStandBy DEF DirInv
    <3>2. CASE a = b
      <4>1. Missing.doc.id = NoRun
        BY DEF Missing, NoDoc
      <4> QED
        BY <1>2, <3>2, <4>1 DEF DirInv, TypeOK
    <3> QED
      BY <3>1, <3>2
  <2> QED
    BY <2>1, <2>2 DEF DirInv, Linked
<1>3. lock # b => UNCHANGED <<store, hidden>>
  BY LockGuards
<1>4. ASSUME lock = b, b \in Publishers, Publish(b)
      PROVE  DirsAreOld \/ UNCHANGED <<store, hidden>>
  <2>1. RunOf[b] \in Runs
    BY <1>4, NewDocuments
  <2> USE <1>4 DEF TypeOK, DirInv
  <2>2. CASE Bind(b) \/ RenderFails(b) \/ Recheck(b) \/ WriteFile(b)
    BY <2>2 DEF Bind, RenderFails, Recheck, WriteFile
  <2>3. CASE SwapHistory(b)
    <3>1. UNCHANGED hidden
      BY <2>3 DEF SwapHistory
    <3>2. UNCHANGED store \/ (store[RunOf[b]] = Missing /\ store' = [store EXCEPT ![RunOf[b]] = Staged(b)])
      BY <2>3 DEF SwapHistory
    <3>3. ASSUME store[RunOf[b]] = Missing /\ store' = [store EXCEPT ![RunOf[b]] = Staged(b)]
          PROVE  DirsAreOld
      <4>1. Linked(Staged(b))
        BY <2>3, <3>3, StagedIsLinked
      <4>2. \A k \in Places : store'[k] \in {store[k], Staged(b)}
        BY <3>3
      <4> QED
        BY <3>1, <4>1, <4>2
    <3> QED
      BY <3>1, <3>2, <3>3
  <2>4. CASE BackUpLatest(b)
    BY <2>4 DEF BackUpLatest
  <2>5. CASE SwapLatest(b)
    <3>1. Linked(Staged(b))
      BY <2>5, StagedIsLinked
    <3> QED
      BY <2>5, <3>1 DEF SwapLatest
  <2>6. CASE DropBackup(b)
    BY <2>6 DEF DropBackup
  <2>7. CASE PublishFails(b)
    <3>1. \/ UNCHANGED <<store, hidden>>
          \/ /\ store' = [store EXCEPT ![Latest] = hidden[b][Latest]]
             /\ hidden' = [hidden EXCEPT ![b][Latest] = Missing]
      BY <2>7 DEF PublishFails
    <3>2. \A k \in Places : store'[k] \in {store[k], hidden[b][Latest]}
      BY <3>1
    <3>3. \A k \in Places : hidden'[b][k] \in {Missing, hidden[b][k]}
      BY <3>1
    <3> QED
      BY <3>2, <3>3
  <2>8. CASE RestoreFails(b)
    BY <2>8 DEF RestoreFails
  <2> QED
    BY <2>2, <2>3, <2>4, <2>5, <2>6, <2>7, <2>8 DEF Publish
<1>5. ASSUME lock = b, Prune(b) PROVE DirsAreOld
  <2> USE <1>5 DEF TypeOK, DirInv
  <2>1. CASE RequestPrune(b) \/ EndPrune(b)
    BY <2>1 DEF RequestPrune, EndPrune
  <2>2. CASE RemoveEntry(b)
    <3>1. PICK k \in targets[b] :
            \/ store' = [store EXCEPT ![k] = Missing]
            \/ /\ store[k].files # {}
               /\ \E f : store' = [store EXCEPT ![k].files = @ \ {f}]
      BY <2>2 DEF RemoveEntry
    <3>2. ASSUME NEW f, store' = [store EXCEPT ![k].files = @ \ {f}], store[k].files # {}
          PROVE  \A j \in Places : Linked(store'[j])
      <4>1. store[k] # Missing /\ k \in Places
        BY <3>2 DEF Missing
      <4>2. store'[k].doc = store[k].doc /\ \A j \in Places : j # k => store'[j] = store[j]
        BY <3>2, <4>1 DEF Directories
      <4>3. Linked(store'[k])
        BY <4>1, <4>2 DEF Linked
      <4> QED
        BY <4>2, <4>3
    <3>3. \A j \in Places : store'[j] = Missing \/ Linked(store'[j])
      BY <3>1, <3>2
    <3> QED
      BY <2>2, <3>3 DEF RemoveEntry
  <2> QED
    BY <1>5, <2>1, <2>2 DEF Prune
<1>6. ASSUME lock = b, Delete(b) PROVE DirsAreOld
  <2> USE <1>6 DEF TypeOK, DirInv
  <2>1. CASE RequestDelete(b)
    BY <2>1 DEF RequestDelete
  <2>2. CASE MoveToTrash(b)
    BY <2>2 DEF MoveToTrash
  <2>3. CASE Repoint(b)
    BY <2>3, RecordIsPlace DEF Repoint
  <2>4. CASE EmptyTrash(b)
    <3>1. \A k \in Places : hidden'[b][k] \in {Missing, hidden[b][k]}
      BY <2>4 DEF EmptyTrash
    <3> QED
      BY <2>4, <3>1 DEF EmptyTrash
  <2>5. CASE DeleteFails(b) \/ UndoFails(b)
    <3>1. \A k \in Places : /\ store'[k] \in {store[k], hidden[b][k]}
                            /\ hidden'[b][k] \in {Missing, hidden[b][k]}
      BY <2>5, BackAsItWas
    <3> QED
      BY <3>1
  <2> QED
    BY <1>6, <2>1, <2>2, <2>3, <2>4, <2>5 DEF Delete
<1>7. ASSUME Read(b) \/ Crash(b) PROVE UNCHANGED <<store, hidden>>
  BY <1>7 DEF Read, ListRuns, LoadRun, Crash
<1> QED
  BY <1>1, <1>2, <1>3, <1>4, <1>5, <1>6, <1>7 DEF StepOf
------------------------------------------------------------------------------
(* What a partly pruned directory, and an actor that waits, can rely on.   *)

LEMMA StuckStays ==
  ASSUME StoreInv, NEW b \in Actors, StepOf(b), NEW r \in Runs, Stuck(r)
  PROVE  Stuck(r)'
<1> USE NumberedPlaces DEF StoreInv, SafeInv
<1>0. r \in Places /\ store[r] # Missing /\ ~Readable(store[r]) /\ r # Latest
  BY DEF Stuck
<1>1. store'[r] = store[r] /\ (lock' = b => r \notin targets'[b])
  <2>1. lock # b => UNCHANGED store
    BY LockGuards
  <2>2. lock = b => r \notin targets[b]
    BY DEF Stuck
  <2> USE <1>0, <2>1, <2>2 DEF TypeOK, Goto, Release
  <2>3. CASE b \in Publishers /\ Publish(b)
    <3>1. targets'[b] = {}
      BY <2>3, RoleStep DEF RoleInv
    <3>2. store'[r] = store[r]
      BY <2>3 DEF Publish, Bind, RenderFails, Recheck, WriteFile, SwapHistory, BackUpLatest,
                  SwapLatest, DropBackup, PublishFails, RestoreFails
    <3> QED
      BY <3>1, <3>2
  <2>4. CASE Prune(b)
    <3>1. CASE RequestPrune(b)
      BY <3>1 DEF RequestPrune, Candidates, Records
    <3>2. CASE RemoveEntry(b)
      <4>1. lock = b
        BY <3>2 DEF RemoveEntry, LockInv, Holding
      <4> QED
        BY <3>2, <4>1 DEF RemoveEntry
    <3>3. CASE EndPrune(b)
      BY <3>3, StoreAssumption DEF EndPrune
    <3> QED
      BY <2>4, <3>1, <3>2, <3>3 DEF Prune
  <2>5. CASE Delete(b)
    <3>1. CASE RequestDelete(b)
      BY <3>1 DEF RequestDelete, Records
    <3>2. CASE MoveToTrash(b)
      <4>1. lock = b
        BY <3>2 DEF MoveToTrash, LockInv, Holding
      <4> QED
        BY <3>2, <4>1 DEF MoveToTrash
    <3>3. CASE Repoint(b) \/ EmptyTrash(b)
      <4>1. lock = b
        BY <3>3 DEF Repoint, EmptyTrash, LockInv, Holding
      <4> QED
        BY <3>3, <4>1, StoreAssumption DEF Repoint, EmptyTrash
    <3>4. CASE DeleteFails(b) \/ UndoFails(b)
      <4>1. hidden[b][r] = Missing
        BY <3>4 DEF DeleteFails, UndoFails, ActorInv, Deleting
      <4>2. store'[r] = store[r]
        BY <1>0, <3>4, <4>1, BackAsItWas
      <4> QED
        BY <3>4, <4>2, StoreAssumption DEF DeleteFails, UndoFails
    <3> QED
      BY <2>5, <3>1, <3>2, <3>3, <3>4 DEF Delete
  <2>6. CASE Read(b) \/ Crash(b)
    BY <2>6, StoreAssumption DEF Read, ListRuns, LoadRun, Crash
  <2> QED
    BY <2>3, <2>4, <2>5, <2>6 DEF StepOf
<1>2. ASSUME NEW a \in Actors, lock' = a PROVE r \notin targets'[a]
  <2>1. a # b => lock = a /\ targets'[a] = targets[a]
    BY <1>2, LockGuards, OthersStandBy, StoreAssumption
  <2> QED
    BY <1>1, <1>2, <2>1 DEF Stuck
<1> QED
  BY <1>0, <1>1, <1>2 DEF Stuck

LEMMA OthersKeepTheirs ==
  ASSUME StoreInv, NEW b \in Actors, StepOf(b), NEW a \in Actors, a # b
  PROVE  /\ a \in Publishers => Publishing(a)'
         /\ Pruning(a)' /\ Deleting(a)'
<1> USE DEF StoreInv, SafeInv
<1>1. /\ pc'[a] = pc[a] /\ hidden'[a] = hidden[a] /\ targets'[a] = targets[a]
      /\ a \in Publishers => bound'[a] = bound[a] /\ staged'[a] = staged[a]
      /\ pc[a] \in Holding => UNCHANGED store
  BY OthersStandBy, LockGuards DEF LockInv
<1>2. Untouched(a) => Untouched(a)'
  BY <1>1 DEF Untouched
<1>3. a \in Publishers => Publishing(a)'
  <2> SUFFICES ASSUME a \in Publishers PROVE Publishing(a)'
    OBVIOUS
  <2>1. Publishing(a) /\ RunOf[a] \in Runs
    BY NewDocuments DEF ActorInv
  <2>2. Compared(a)' <=> Compared(a)
    BY <1>1 DEF Compared
  <2>3. Stuck(RunOf[a]) => Stuck(RunOf[a])'
    BY <2>1, StuckStays
  <2>4. pc[a] \in Holding => /\ PreviousRunId(RunOf[a])' = PreviousRunId(RunOf[a])
                             /\ Whole(a)' = Whole(a) /\ Restored(a)' = Restored(a)
    BY <1>1 DEF PreviousRunId, Whole, Document, Restored
  <2>5. pc[a] \in Holding /\ Agrees(Restored(a)) => Agrees(Restored(a))'
    BY <2>4 DEF Agrees
  <2> QED
    BY <1>1, <1>2, <2>1, <2>2, <2>3, <2>4, <2>5 DEF Publishing, Holding
<1>4. Pruning(a)'
  <2>1. Pruning(a)
    BY DEF ActorInv
  <2>2. pc[a] = "prune" => Candidates' = Candidates
    BY <1>1 DEF Candidates, Records, Holding
  <2> QED
    BY <1>1, <1>2, <2>1, <2>2 DEF Pruning
<1>5. Deleting(a)'
  <2>1. Deleting(a)
    BY DEF ActorInv
  <2>2. pc[a] \in {"delete", "empty_trash"} => UNCHANGED store /\ Records(store)' = Records(store)
    BY <1>1 DEF Holding, Records
  <2>3. pc[a] = "delete" /\ Agrees(Restored(a)) => Agrees(Restored(a))'
    <3>1. pc[a] = "delete" => Restored(a)' = Restored(a)
      BY <1>1, <2>2 DEF Restored
    <3> QED
      BY <3>1 DEF Agrees
  <2> QED
    BY <1>1, <1>2, <2>1, <2>2, <2>3 DEF Deleting
<1> QED
  BY <1>3, <1>4, <1>5

------------------------------------------------------------------------------
(* What the actor that moves has made of its own part.                     *)

LEMMA NobodyHolds ==
  ASSUME TypeOK, LockInv, lock = Nobody, NEW r \in Runs, store[r] # Missing, ~Readable(store[r])
  PROVE  Stuck(r)
BY StoreAssumption DEF Stuck

(* A link and a summary that are bound together fit, unless a pruning that *)
(* failed has left the run's directory unreadable.                         *)
LEMMA BindCompares ==
  ASSUME StoreInv, NEW p \in Publishers, lock = Nobody
  PROVE  \/ RunChanges(RunOf[p], PreviousRunId(RunOf[p])) \in {NoRun, PreviousRunId(RunOf[p])}
         \/ Stuck(RunOf[p])
<1> DEFINE r == RunOf[p]
           prev == PreviousRunId(r)
<1> USE NumberedPlaces DEF StoreInv, SafeInv
<1>1. r \in Runs
  BY NewDocuments
<1>2. CASE store[r] # Missing /\ ~Readable(store[r])
  BY <1>1, <1>2, NobodyHolds
<1>3. CASE prev \in {NoRun} \cup Redacted \/ store[r] = Missing
  BY <1>3 DEF RunChanges
<1>4. CASE prev \notin {NoRun} \cup Redacted /\ Readable(store[r])
  <2>1. prev = store[r].doc.prev
    BY <1>4 DEF PreviousRunId
  <2>2. store[r].doc.changes \in {NoRun, prev}
    BY <1>1, <2>1 DEF DirInv, Linked
  <2>3. RunChanges(r, prev) \in {NoRun, prev, store[r].doc.changes}
    BY DEF RunChanges
  <2> QED
    BY <2>2, <2>3
<1> QED
  BY <1>2, <1>3, <1>4

(* The link of a run that is published and is latest already is the one    *)
(* latest shows.                                                           *)
LEMMA LinkOfLatest ==
  ASSUME StoreInv, NEW p \in Publishers,
         store[Latest].doc.id = RunOf[p], ~Readable(store[RunOf[p]])
  PROVE  PreviousRunId(RunOf[p]) = store[Latest].doc.prev
<1> USE NumberedPlaces DEF StoreInv, SafeInv
<1>1. RunOf[p] \in Runs /\ Linked(store[Latest])
  BY NewDocuments DEF DirInv
<1>2. Readable(store[Latest])
  BY <1>1 DEF Agrees, Missing, NoDoc
<1> QED
  BY <1>1, <1>2 DEF PreviousRunId, Linked

LEMMA OwnPublish ==
  ASSUME StoreInv, NEW b \in Publishers, Publish(b)
  PROVE  Publishing(b)' /\ Agrees(store)'
<1> USE NumberedPlaces DEF StoreInv, SafeInv, Goto, Release
<1>1. /\ b \in Actors /\ RunOf[b] \in Runs /\ pc \in [Actors -> States]
      /\ bound \in [Publishers -> [prev : Places, changes : Places]]
      /\ store \in [Places -> Directories] /\ hidden \in [Actors -> [Places -> Directories]]
      /\ hidden[b] \in [Places -> Directories]
      /\ staged \in [Publishers -> 0..3] /\ Len(FileOrder) = 3
      /\ Publishing(b) /\ StepOf(b)
  BY NewDocuments DEF TypeOK, Actors, FileOrder, StepOf, ActorInv
<1>2. UNCHANGED store => Agrees(store)'
  BY DEF Agrees
<1>3. UNCHANGED hidden /\ Untouched(b) => Untouched(b)'
  BY DEF Untouched
<1>4. UNCHANGED bound => /\ Compared(b)' <=> Compared(b)
                         /\ Whole(b)' = Whole(b)
  BY DEF Compared, Whole, Document
<1>5. UNCHANGED store => PreviousRunId(RunOf[b])' = PreviousRunId(RunOf[b])
  BY DEF PreviousRunId
<1>6. Stuck(RunOf[b]) => Stuck(RunOf[b])'
  BY <1>1, StuckStays
<1>7. Missing # Whole(b) /\ Readable(Whole(b)) /\ Missing.doc.id = NoRun /\ Whole(b).doc.id = RunOf[b]
  BY <1>1 DEF Missing, Whole, Document, NoDoc, Readable, Files
<1>10. CASE Bind(b)
  <2>1. CASE Stuck(RunOf[b])
    BY <1>1, <1>2, <1>3, <1>6, <1>10, <2>1 DEF Bind, Publishing
  <2>2. CASE RunChanges(RunOf[b], PreviousRunId(RunOf[b])) \in {NoRun, PreviousRunId(RunOf[b])}
    <3>1. Compared(b)'
      BY <1>1, <1>10, <2>2 DEF Bind, Compared
    <3> QED
      BY <1>1, <1>2, <1>3, <1>10, <3>1 DEF Bind, Publishing
  <2> QED
    BY <1>10, <2>1, <2>2, BindCompares DEF Bind
<1>11. CASE RenderFails(b)
  BY <1>1, <1>2, <1>11 DEF RenderFails, Publishing
<1>12. CASE Recheck(b)
  <2>1. UNCHANGED <<store, bound, hidden>>
    BY <1>12 DEF Recheck
  <2>2. pc'[b] = "bind" \/ (pc'[b] = "stage_history" /\ bound[b].prev = PreviousRunId(RunOf[b]))
    BY <1>1, <1>12 DEF Recheck
  <2> QED
    BY <1>1, <1>2, <1>3, <1>4, <1>5, <1>6, <1>12, <2>1, <2>2 DEF Recheck, Publishing
<1>13. CASE WriteFile(b)
  BY <1>1, <1>2, <1>3, <1>4, <1>5, <1>6, <1>13 DEF WriteFile, Staging, Publishing
<1>14. CASE SwapHistory(b)
  <2>1. Staged(b) = Whole(b) /\ UNCHANGED <<bound, hidden>> /\ pc[b] = "stage_history"
    BY <1>14, NewDocuments DEF SwapHistory
  <2>2. CASE store[RunOf[b]] = Missing
    <3>1. store' = [store EXCEPT ![RunOf[b]] = Whole(b)] /\ pc'[b] = "stage_latest"
      BY <1>1, <1>7, <1>14, <2>1, <2>2 DEF SwapHistory
    <3>2. Compared(b)
      BY <1>14, <2>2, StagedIsLinked
    <3>3. Publishing(b)'
      BY <1>1, <1>3, <1>4, <2>1, <3>1, <3>2 DEF Publishing
    <3>4. SameSummary(Whole(b).doc, store[Latest].doc) \/ store[Latest].doc.id # RunOf[b]
      <4>1. ~Readable(store[RunOf[b]])
        BY <2>2 DEF Missing, Readable
      <4>2. bound[b].prev = PreviousRunId(RunOf[b])
        BY <1>1, <2>1 DEF Publishing
      <4> QED
        BY <4>1, <4>2, LinkOfLatest DEF SameSummary, Whole, Document
    <3>5. store'[Latest] = store[Latest] /\ store'[RunOf[b]] = Whole(b)
          /\ \A k \in Places : k # RunOf[b] => store'[k] = store[k]
      BY <1>1, <3>1
    <3>6. store[Latest].doc.id \in Places
      BY <1>1, <1>7 DEF Directories, Documents, NoDoc, Places
    <3> QED
      BY <3>3, <3>4, <3>5, <3>6 DEF Agrees
  <2>3. CASE store[RunOf[b]] = Whole(b)
    <3>1. UNCHANGED store /\ pc'[b] = "stage_latest"
      BY <1>1, <1>7, <1>14, <2>1, <2>3 DEF SwapHistory
    <3>2. Compared(b)
      BY <1>1, <1>7, <2>1, <2>3 DEF Publishing, Stuck
    <3> QED
      BY <1>1, <1>2, <1>3, <1>4, <2>1, <2>3, <3>1, <3>2 DEF Publishing
  <2>4. CASE store[RunOf[b]] \notin {Missing, Whole(b)}
    BY <1>1, <1>2, <1>14, <2>1, <2>4 DEF SwapHistory, Publishing
  <2> QED
    BY <2>2, <2>3, <2>4
<1>15. CASE BackUpLatest(b)
  <2>1. /\ store' = [store EXCEPT ![Latest] = Missing] /\ pc'[b] = "swap_latest"
        /\ hidden' = [hidden EXCEPT ![b] = [hidden[b] EXCEPT ![Latest] = store[Latest]]]
        /\ staged'[b] = Len(FileOrder) /\ UNCHANGED bound /\ Untouched(b) /\ Compared(b)
        /\ store[RunOf[b]] = Whole(b)
    BY <1>1, <1>15 DEF BackUpLatest, Publishing
  <2>2. /\ store'[Latest] = Missing /\ hidden'[b][Latest] = store[Latest]
        /\ \A r \in Runs : store'[r] = store[r] /\ hidden'[b][r] = Missing
    BY <1>1, <2>1 DEF Untouched
  <2>3. Restored(b)' = store
    BY <1>1, <2>2 DEF Restored
  <2>4. Agrees(store)' /\ Agrees(Restored(b))'
    BY <1>7, <2>2, <2>3 DEF Agrees
  <2> QED
    BY <1>1, <1>4, <2>1, <2>2, <2>4 DEF Publishing
<1>16. CASE SwapLatest(b)
  <2>1. /\ store' = [store EXCEPT ![Latest] = Whole(b)] /\ pc'[b] = "clean" /\ UNCHANGED bound
        /\ store[RunOf[b]] = Whole(b)
    BY <1>1, <1>16, StagedIsLinked DEF SwapLatest, Publishing
  <2>2. store'[Latest] = Whole(b) /\ store'[RunOf[b]] = Whole(b)
    BY <1>1, <2>1
  <2>3. Agrees(store)'
    BY <1>7, <2>2 DEF Agrees, SameSummary
  <2> QED
    BY <1>4, <2>1, <2>2, <2>3 DEF Publishing
<1>17. CASE DropBackup(b)
  BY <1>1, <1>2, <1>17 DEF DropBackup, Publishing
<1>18. CASE PublishFails(b)
  <2>1. pc'[b] = "failed"
    BY <1>1, <1>18 DEF PublishFails
  <2>2. CASE UNCHANGED store
    BY <1>2, <2>1, <2>2 DEF Publishing
  <2>3. CASE ~UNCHANGED store
    <3>1. /\ pc[b] = "swap_latest" /\ hidden[b][Latest] # Missing
          /\ store' = [store EXCEPT ![Latest] = hidden[b][Latest]]
      BY <1>18, <2>3 DEF PublishFails
    <3>2. store' = Restored(b)
      BY <1>1, <3>1 DEF Restored, Publishing
    <3> QED
      BY <1>1, <2>1, <3>1, <3>2 DEF Publishing, Agrees
  <2> QED
    BY <2>2, <2>3
<1>19. CASE RestoreFails(b)
  BY <1>1, <1>2, <1>19 DEF RestoreFails, Publishing
<1> QED
  BY <1>10, <1>11, <1>12, <1>13, <1>14, <1>15, <1>16, <1>17, <1>18, <1>19 DEF Publish

LEMMA SetsOfRuns ==
  ASSUME NEW S \in SUBSET Runs
  PROVE  IsFiniteSet(S) /\ Cardinality(S) \in Nat /\ \A n \in S : n \in Int
<1>1. IsFiniteSet(Runs) /\ \A n \in Runs : n \in Int
  BY StoreAssumption, FS_Interval DEF Runs
<1>2. IsFiniteSet(S)
  BY <1>1, FS_Subset
<1> QED
  BY <1>1, <1>2, FS_CardinalityType

(* Of the runs in a set one is the newest.                                 *)
LEMMA NewestExists ==
  ASSUME NEW S \in SUBSET Runs, S # {}
  PROVE  IsFiniteSet(S) /\ Newest(S) \in S /\ \A n \in S : n <= Newest(S)
<1> DEFINE Since(n) == {m \in S : n <= m}
           Tails == {Since(n) : n \in S}
<1>1. IsFiniteSet(S) /\ \A n \in S : n \in Int
  BY SetsOfRuns
<1>2. Tails \subseteq FiniteSubsetsOf(S) /\ Tails # {}
  <2>1. \A n \in S : Since(n) \in SUBSET S /\ IsFiniteSet(Since(n))
    BY <1>1, FS_Subset
  <2> QED
    BY <2>1 DEF FiniteSubsetsOf
<1>3. PICK U \in Tails : \A V \in Tails : <<V, U>> \notin StrictSubsetOrdering(S)
  <2> HIDE DEF Tails
  <2> QED
    BY <1>2, FS_StrictSubsetOrderingWellFounded, WFMin
<1>4. PICK m \in S : U = Since(m)
  OBVIOUS
<1>5. ASSUME NEW n \in S, ~(n <= m) PROVE FALSE
  <2>1. Since(n) \subseteq Since(m)
    <3>1. \A j \in Int : n <= j => m <= j
      BY <1>1, <1>5
    <3> QED
      BY <1>1, <3>1
  <2>2. m \in Since(m) /\ m \notin Since(n)
    BY <1>1, <1>5
  <2>3. <<Since(n), U>> \in StrictSubsetOrdering(S)
    <3>1. Since(n) \in SUBSET S /\ U \in SUBSET S /\ Since(n) # U /\ Since(n) \subseteq U
      BY <1>4, <2>1, <2>2
    <3> QED
      BY <3>1 DEF StrictSubsetOrdering
  <2> QED
    BY <1>3, <2>3
<1> QED
  BY <1>1, <1>5 DEF Newest

(* Whatever the cut, the runs above the newest one that is cut are kept.   *)
LEMMA CutIsLow ==
  ASSUME NEW C \in SUBSET Runs, NEW T, T = {k \in C : Cardinality({j \in C : j > k}) >= Keep},
         NEW k \in T
  PROVE  Cardinality({j \in C \ T : j > k}) >= Keep
<1> DEFINE m == Newest(T)
           newer == {j \in C : j > m}
           kept == {j \in C \ T : j > k}
<1>1. m \in T /\ k <= m /\ \A j \in T : j <= m
  BY NewestExists
<1>2. (\A n \in C : n \in Int) /\ IsFiniteSet(kept)
  BY SetsOfRuns
<1>3. newer \subseteq kept
  <2>1. m \in Int /\ k \in Int
    BY <1>1, <1>2
  <2>2. \A j \in Int : j > m => j > k /\ ~(j <= m)
    <3> HIDE DEF m
    <3> QED
      BY <1>1, <2>1
  <2> QED
    BY <1>1, <1>2, <2>2
<1>4. Cardinality(newer) >= Keep
  BY <1>1
<1> HIDE DEF newer, kept
<1>5. Cardinality(newer) <= Cardinality(kept) /\ Cardinality(newer) \in Nat /\ Cardinality(kept) \in Nat
  BY <1>2, <1>3, FS_Subset, FS_CardinalityType
<1>6. Cardinality(kept) >= Keep
  BY <1>4, <1>5, StoreAssumption
<1> QED
  BY <1>6 DEF kept

LEMMA CandidatesAreRuns == Candidates \subseteq Runs
BY NumberedPlaces DEF Candidates, Records

LEMMA OwnPrune ==
  ASSUME StoreInv, NEW b \in Pruners, Prune(b)
  PROVE  /\ b \notin Publishers
         /\ Pruning(b)' /\ Deleting(b)' /\ Agrees(store)'
<1> USE NumberedPlaces DEF StoreInv, SafeInv, Goto, Release
<1>1. /\ b \in Actors /\ pc \in [Actors -> States] /\ targets \in [Actors -> SUBSET Places]
      /\ store \in [Places -> Directories]
      /\ Pruning(b) /\ Deleting(b)
  BY DEF TypeOK, Actors, ActorInv
<1>2. UNCHANGED hidden /\ Untouched(b) => Untouched(b)'
  BY DEF Untouched
<1>3. UNCHANGED store => Agrees(store)' /\ Candidates' = Candidates
  BY DEF Agrees, Candidates, Records
<1>4. CASE RequestPrune(b)
  <2>1. b \notin Publishers
    BY <1>1, <1>4 DEF RequestPrune, RoleInv, PublisherStates, Ended
  <2>2. targets'[b] = {k \in Candidates : Cardinality({j \in Candidates : j > k}) >= Keep}
    BY <1>1, <1>4 DEF RequestPrune
  <2>3. targets'[b] \subseteq Runs
    BY <2>2, CandidatesAreRuns
  <2>4. \A k \in targets'[b] : Cardinality({j \in Candidates \ targets'[b] : j > k}) >= Keep
    BY <2>2, CandidatesAreRuns, CutIsLow
  <2> QED
    BY <1>1, <1>2, <1>3, <1>4, <2>1, <2>3, <2>4 DEF RequestPrune, Pruning, Deleting
<1>5. CASE RemoveEntry(b)
  <2>1. b \notin Publishers
    BY <1>1, <1>5 DEF RemoveEntry, RoleInv, PublisherStates, Ended
  <2>2. PICK k \in targets[b] :
          \/ /\ store[k].files = {}
             /\ store' = [store EXCEPT ![k] = Missing]
             /\ targets' = [targets EXCEPT ![b] = @ \ {k}]
          \/ /\ \E f : store' = [store EXCEPT ![k].files = @ \ {f}]
             /\ UNCHANGED targets
    BY <1>5 DEF RemoveEntry
  <2>3. k \in Runs
    BY <1>1, <1>5 DEF RemoveEntry, Pruning
  <2>4. /\ \A j \in Places : j # k => store'[j] = store[j]
        /\ store'[k] = Missing \/ store'[k].doc = store[k].doc
    BY <1>1, <2>2, <2>3 DEF Directories
  <2>5. Candidates' \ targets'[b] = Candidates \ targets[b]
    <3>1. CASE store[k].files = {} /\ targets'[b] = targets[b] \ {k} /\ store'[k] = Missing
      BY <2>2, <2>4, <3>1, MissingIsLinked DEF Candidates, Records, Readable
    <3>2. CASE targets'[b] = targets[b]
      BY <2>2, <2>4, <3>2 DEF Candidates, Records
    <3> QED
      BY <1>1, <2>2, <2>3, <3>1, <3>2
  <2>6. targets'[b] \subseteq targets[b] /\ pc'[b] = "prune" /\ UNCHANGED hidden
    BY <1>1, <1>5, <2>2 DEF RemoveEntry
  <2>7. Agrees(store)'
    <3>1. store[Latest].doc.id \in Places
      BY <1>1 DEF Directories, Documents, NoDoc, Places
    <3>2. store'[Latest] = store[Latest]
      BY <2>3, <2>4
    <3>3. \A j \in Places : store'[j] = Missing \/ store'[j].doc = store[j].doc
      BY <2>4
    <3>4. store[k] = Missing => store'[k] = Missing
      <4>1. ASSUME store[k] = Missing, NEW f, store' = [store EXCEPT ![k].files = @ \ {f}]
            PROVE  store'[k] = Missing
        <5>1. Missing.files \ {f} = Missing.files /\ Missing = [doc |-> Missing.doc, files |-> Missing.files]
          BY DEF Missing
        <5>2. store'[k] = [store[k] EXCEPT !.files = @ \ {f}]
          BY <1>1, <2>3, <4>1
        <5> QED
          BY <4>1, <5>1, <5>2 DEF Missing
      <4> QED
        BY <1>1, <2>2, <2>3, <4>1
    <3> QED
      BY <2>4, <3>1, <3>2, <3>3, <3>4 DEF Agrees
  <2>8. Pruning(b)'
    <3>1. Untouched(b)' /\ targets'[b] \subseteq Runs
      BY <1>1, <1>2, <1>5, <2>6 DEF RemoveEntry, Pruning
    <3>2. ASSUME NEW j \in targets'[b]
          PROVE  Cardinality({i \in Candidates' \ targets'[b] : i > j}) >= Keep
      <4>1. Cardinality({i \in Candidates \ targets[b] : i > j}) >= Keep
        BY <1>1, <1>5, <2>6 DEF RemoveEntry, Pruning
      <4> QED
        BY <2>5, <4>1
    <3> QED
      BY <3>1, <3>2 DEF Pruning
  <2> QED
    BY <2>1, <2>6, <2>7, <2>8 DEF Deleting
<1>6. CASE EndPrune(b)
  BY <1>1, <1>3, <1>6 DEF EndPrune, RoleInv, PublisherStates, Ended, Pruning, Deleting
<1> QED
  BY <1>4, <1>5, <1>6 DEF Prune

(* A visible record of history is that of its own run.                     *)
LEMMA RecordsAreRuns ==
  ASSUME TypeOK, DirInv
  PROVE  /\ \A k \in Records(store) : store[k].doc.id \in Runs
         /\ \A k \in Records(store) : k # Latest => store[k].doc.id = k
<1> SUFFICES ASSUME NEW k \in Records(store)
             PROVE  store[k].doc.id \in Runs /\ (k # Latest => store[k].doc.id = k)
  OBVIOUS
<1>1. k \in Places /\ store[k] # Missing /\ Linked(store[k]) /\ store[k] \in Directories
  BY MissingIsLinked DEF Records, DirInv, TypeOK
<1>2. store[k].doc.id \in Runs
  BY <1>1 DEF Linked, Directories, Documents, NoDoc
<1> QED
  BY <1>1, <1>2, NumberedPlaces DEF TypeOK

LEMMA OwnDelete ==
  ASSUME StoreInv, NEW b \in Deleters, Delete(b)
  PROVE  /\ b \notin Publishers
         /\ Pruning(b)' /\ Deleting(b)' /\ Agrees(store)'
<1> USE NumberedPlaces, MissingIsLinked DEF StoreInv, SafeInv, Goto, Release
<1>1. /\ b \in Actors /\ pc \in [Actors -> States] /\ targets \in [Actors -> SUBSET Places]
      /\ store \in [Places -> Directories] /\ hidden \in [Actors -> [Places -> Directories]]
      /\ hidden[b] \in [Places -> Directories]
      /\ Deleting(b)
  BY DEF TypeOK, Actors, ActorInv
<1>2. UNCHANGED store => Agrees(store)' /\ Records(store)' = Records(store)
  BY DEF Agrees, Records
<1>3. b \notin Publishers
  BY <1>1 DEF Delete, RequestDelete, MoveToTrash, Repoint, EmptyTrash, DeleteFails, UndoFails, MoveBack,
              RoleInv, PublisherStates, Ended
<1>4. Missing.doc.id = NoRun
  BY DEF Missing, NoDoc
<1>5. CASE RequestDelete(b)
  <2>1. Untouched(b) /\ UNCHANGED <<store, hidden>> /\ pc'[b] = "delete"
    BY <1>1, <1>5 DEF RequestDelete, Deleting
  <2>2. targets'[b] \subseteq Records(store)
    BY <1>1, <1>5 DEF RequestDelete
  <2>3. Restored(b)' = store
    BY <1>1, <2>1 DEF Restored, Untouched
  <2> QED
    BY <1>2, <1>3, <2>1, <2>2, <2>3 DEF Pruning, Deleting, Agrees, Untouched
<1>6. CASE MoveToTrash(b)
  <2>1. PICK k \in targets[b] :
          /\ hidden' = [hidden EXCEPT ![b] = [hidden[b] EXCEPT ![k] = store[k]]]
          /\ store' = [store EXCEPT ![k] = Missing]
          /\ targets' = [targets EXCEPT ![b] = @ \ {k}]
    BY <1>6 DEF MoveToTrash
  <2>2. /\ pc[b] = "delete" /\ pc'[b] = "delete"
        /\ targets[b] \subseteq Records(store)
        /\ \A j \in Places : Missing \in {hidden[b][j], store[j]}
        /\ Agrees(Restored(b))
    BY <1>1, <1>6 DEF MoveToTrash, Deleting
  <2>3. k \in Places /\ store[k] # Missing /\ hidden[b][k] = Missing
    BY <2>1, <2>2 DEF Records
  <2>4. /\ store'[k] = Missing /\ hidden'[b][k] = store[k]
        /\ \A j \in Places : j # k => store'[j] = store[j] /\ hidden'[b][j] = hidden[b][j]
        /\ targets'[b] = targets[b] \ {k}
    BY <1>1, <2>1, <2>3
  <2>5. Restored(b)' = Restored(b)
    BY <2>3, <2>4 DEF Restored
  <2>6. targets'[b] \subseteq Records(store)'
    BY <2>2, <2>4 DEF Records
  <2>7. Agrees(store)'
    <3>1. store'[Latest] \in {Missing, store[Latest]} /\ store[Latest].doc.id \in Places
      BY <1>1, <2>4 DEF Directories, Documents, NoDoc, Places
    <3>2. \A j \in Places : store'[j] \in {Missing, store[j]}
      BY <2>4
    <3> QED
      BY <1>4, <3>1, <3>2 DEF Agrees
  <2>8. \A j \in Places : Missing \in {hidden'[b][j], store'[j]}
    BY <2>2, <2>4
  <2>9. Agrees(Restored(b))'
    BY <2>2, <2>5 DEF Agrees
  <2> QED
    BY <1>3, <2>2, <2>6, <2>7, <2>8, <2>9 DEF Pruning, Deleting
<1>7. CASE Repoint(b)
  <2>1. pc'[b] = "empty_trash"
    BY <1>1, <1>7 DEF Repoint
  <2>2. CASE Records(store) = {} \/ store[Latest] # Missing
    <3>1. UNCHANGED store
      BY <1>7, <2>2 DEF Repoint
    <3> QED
      BY <1>2, <1>3, <2>1, <2>2, <3>1 DEF Pruning, Deleting
  <2>3. CASE Records(store) # {} /\ store[Latest] = Missing
    <3> DEFINE id == Newest(Ids(store))
    <3>1. id \in Ids(store)
      <4>1. Ids(store) \in SUBSET Runs /\ Ids(store) # {}
        BY <2>3, RecordsAreRuns DEF Ids
      <4> QED
        BY <4>1, NewestExists
    <3>2. Latest \notin Records(store)
      BY <2>3 DEF Records
    <3>3. id \in Records(store) /\ id \in Runs /\ store[id].doc.id = id
      BY <3>1, <3>2, RecordsAreRuns DEF Ids
    <3>4. RecordOf(store, id) = id
      BY <3>2, <3>3 DEF RecordOf
    <3>5. store' = [store EXCEPT ![Latest] = store[id]]
      BY <1>7, <2>3, <3>4 DEF Repoint
    <3>6. store'[Latest] = store[id] /\ store'[id] = store[id]
      BY <1>1, <3>3, <3>5
    <3>7. Readable(store[id]) /\ store[id] # Missing
      BY <3>3 DEF Records
    <3> QED
      BY <1>3, <2>1, <3>3, <3>6, <3>7 DEF Pruning, Deleting, Agrees, SameSummary
  <2> QED
    BY <2>2, <2>3
<1>8. CASE EmptyTrash(b)
  BY <1>1, <1>2, <1>3, <1>8 DEF EmptyTrash, Pruning, Deleting
<1>9. CASE DeleteFails(b) \/ UndoFails(b)
  <2>1. pc[b] = "delete" /\ pc'[b] \notin {"prune", "request", "delete", "empty_trash"}
    BY <1>1, <1>9 DEF DeleteFails, UndoFails
  <2>2. \A j \in Places : store'[j] \in {Missing, Restored(b)[j]}
    <3>1. \A j \in Places : Missing \in {hidden[b][j], store[j]}
      BY <1>1, <2>1 DEF Deleting
    <3>2. \A j \in Places : store'[j] \in {store[j], hidden[b][j]}
      BY <1>1, <1>9, BackAsItWas
    <3> QED
      BY <3>1, <3>2 DEF Restored
  <2>3. Agrees(Restored(b))
    BY <1>1, <2>1 DEF Deleting
  <2>4. store'[Latest].doc.id # NoRun => store'[Latest].doc.id \in Places
    <3>1. Restored(b) \in [Places -> Directories]
      BY <1>1 DEF Restored
    <3> QED
      BY <1>4, <2>2, <3>1 DEF Directories, Documents, NoDoc, Places
  <2>5. Agrees(store)'
    BY <1>4, <2>2, <2>3, <2>4 DEF Agrees
  <2> QED
    BY <1>3, <2>1, <2>5 DEF Pruning, Deleting
<1> QED
  BY <1>5, <1>6, <1>7, <1>8, <1>9 DEF Delete

LEMMA OwnEnd ==
  ASSUME StoreInv, NEW b \in Actors, (b \in Readers /\ Read(b)) \/ Crash(b)
  PROVE  /\ b \in Publishers => Publishing(b)'
         /\ Pruning(b)' /\ Deleting(b)' /\ Agrees(store)'
<1> USE DEF StoreInv, SafeInv, TypeOK, Goto
<1>1. UNCHANGED store => Agrees(store)'
  BY DEF Agrees
<1>2. CASE b \in Readers /\ Read(b)
  BY <1>1, <1>2 DEF Read, ListRuns, LoadRun, Publishing, Pruning, Deleting
<1>3. CASE Crash(b)
  BY <1>1, <1>3 DEF Crash, Publishing, Pruning, Deleting
<1> QED
  BY <1>2, <1>3

------------------------------------------------------------------------------
(* The invariant, and what follows from it.                                *)

LEMMA StoreInit == Init => StoreInv
<1> SUFFICES ASSUME Init PROVE StoreInv
  OBVIOUS
<1> USE NumberedPlaces, MissingIsLinked DEF Init
<1>1. TypeOK
  BY TypeInit
<1>2. RoleInv
  BY DEF RoleInv, PublisherStates, Ended
<1>3. LockInv
  BY StoreAssumption DEF LockInv, Holding
<1>4. DirInv
  BY DEF DirInv, Missing, NoDoc
<1>5. Agrees(store)
  BY DEF Agrees, Missing, NoDoc
<1>6. ASSUME NEW a \in Actors
      PROVE  Pruning(a) /\ Deleting(a) /\ (a \in Publishers => Publishing(a))
  BY DEF Pruning, Deleting, Publishing, Untouched
<1>7. Publishers \subseteq Actors
  BY DEF Actors
<1> QED
  BY <1>1, <1>2, <1>3, <1>4, <1>5, <1>6, <1>7 DEF StoreInv, SafeInv, ActorInv

LEMMA StoreStep == StoreInv /\ [Next]_vars => StoreInv'
<1> SUFFICES ASSUME StoreInv, [Next]_vars PROVE StoreInv'
  OBVIOUS
<1>1. ASSUME NEW b \in Actors, StepOf(b) PROVE StoreInv'
  <2>1. SafeInv'
    <3>1. TypeOK'
      BY <1>1, TypeStep, NextByActor DEF StoreInv, SafeInv
    <3> QED
      BY <1>1, <3>1, RoleStep, DirStep DEF StoreInv, SafeInv
  <2>2. /\ Agrees(store)' /\ Pruning(b)' /\ Deleting(b)'
        /\ b \in Publishers => Publishing(b)'
    <3>1. CASE b \in Publishers /\ Publish(b)
      <4>1. pc'[b] \notin {"prune", "request", "delete", "empty_trash"}
        BY <2>1, <3>1 DEF SafeInv, RoleInv, PublisherStates, Ended
      <4> QED
        BY <3>1, <4>1, OwnPublish DEF Pruning, Deleting
    <3> QED
      BY <1>1, <3>1, OwnPrune, OwnDelete, OwnEnd DEF StepOf
  <2>3. ActorInv'
    <3>1. ASSUME NEW a \in Actors
          PROVE  Pruning(a)' /\ Deleting(a)' /\ (a \in Publishers => Publishing(a)')
      BY <1>1, <2>2, OthersKeepTheirs
    <3>2. Publishers \subseteq Actors
      BY DEF Actors
    <3> QED
      BY <3>1, <3>2 DEF ActorInv
  <2> QED
    BY <2>1, <2>2, <2>3 DEF StoreInv
<1>2. CASE UNCHANGED vars
  <2> USE <1>2 DEF vars
  <2>1. SafeInv' = SafeInv
    BY DEF SafeInv, TypeOK, RoleInv, LockInv, DirInv
  <2>2. Agrees(store)' = Agrees(store)
    BY DEF Agrees
  <2>3. ASSUME NEW p \in Publishers PROVE Publishing(p)' = Publishing(p)
    <3>1. /\ Untouched(p)' = Untouched(p) /\ Compared(p)' = Compared(p)
          /\ Stuck(RunOf[p])' = Stuck(RunOf[p]) /\ Whole(p)' = Whole(p)
          /\ PreviousRunId(RunOf[p])' = PreviousRunId(RunOf[p])
      BY DEF Untouched, Compared, Stuck, Whole, Document, PreviousRunId
    <3>2. Agrees(Restored(p))' = Agrees(Restored(p))
      BY DEF Agrees, Restored
    <3> QED
      BY <3>1, <3>2 DEF Publishing
  <2>4. ASSUME NEW a \in Actors PROVE (Pruning(a) /\ Deleting(a))' = (Pruning(a) /\ Deleting(a))
    <3>1. Untouched(a)' = Untouched(a) /\ Agrees(Restored(a))' = Agrees(Restored(a))
      BY DEF Untouched, Agrees, Restored
    <3> QED
      BY <3>1 DEF Pruning, Deleting, Candidates, Records
  <2> QED
    BY <2>1, <2>2, <2>3, <2>4 DEF StoreInv, ActorInv
<1> QED
  BY <1>1, <1>2, NextByActor

LEMMA StoreInvariant == Spec => []StoreInv
BY StoreInit, StoreStep, PTL DEF Spec

(* Every variable of the store keeps its type.                             *)
THEOREM StoreTyped == Spec => []TypeOK
<1>1. StoreInv => TypeOK
  BY DEF StoreInv, SafeInv
<1> QED
  BY <1>1, StoreInvariant, PTL

(* Whoever opens a run through latest or through its own directory learns  *)
(* the same lineage, whatever was published again, pruned, deleted, or     *)
(* broken off before.                                                      *)
THEOREM LatestTellsHistory == Spec => []LatestMatchesHistory
<1>1. StoreInv => LatestMatchesHistory
  BY DEF StoreInv, Agrees, LatestMatchesHistory
<1> QED
  BY <1>1, StoreInvariant, PTL

(* The changes block of a visible summary is about the run it links to,    *)
(* although the link and the block are rendered between two locks.         *)
THEOREM ChangesFitLink == Spec => []ChangesAgainstPredecessor
<1>1. StoreInv => ChangesAgainstPredecessor
  BY DEF StoreInv, SafeInv, DirInv, Linked, ChangesAgainstPredecessor
<1> QED
  BY <1>1, StoreInvariant, PTL

------------------------------------------------------------------------------
(* What a step makes of the directories in sight, by the kind of its actor. *)

LEMMA PublishingWrites ==
  ASSUME StoreInv, NEW b \in Publishers, Publish(b),
         NEW k \in Places, store'[k] # store[k]
  PROVE  /\ store'[k] \in {Missing, Whole(b), hidden[b][k]}
         /\ k \in Runs => store[k] = Missing
<1> USE NumberedPlaces DEF StoreInv, SafeInv
<1>1. store \in [Places -> Directories] /\ RunOf[b] \in Runs
  BY NewDocuments DEF TypeOK
<1>2. CASE Bind(b) \/ RenderFails(b) \/ Recheck(b) \/ WriteFile(b) \/ DropBackup(b)
  BY <1>2 DEF Bind, RenderFails, Recheck, WriteFile, DropBackup
<1>3. CASE SwapHistory(b)
  <2>1. store' = [store EXCEPT ![RunOf[b]] = Staged(b)] /\ store[RunOf[b]] = Missing
    BY <1>3 DEF SwapHistory
  <2>2. Staged(b) = Whole(b)
    BY <1>3, <2>1, StagedIsLinked
  <2> QED
    BY <1>1, <2>1, <2>2
<1>4. CASE BackUpLatest(b)
  BY <1>1, <1>4 DEF BackUpLatest
<1>5. CASE SwapLatest(b)
  <2>1. Staged(b) = Whole(b)
    BY <1>5, StagedIsLinked
  <2> QED
    BY <1>1, <1>5, <2>1 DEF SwapLatest
<1>6. CASE PublishFails(b) \/ RestoreFails(b)
  BY <1>1, <1>6 DEF PublishFails, RestoreFails
<1> QED
  BY <1>2, <1>3, <1>4, <1>5, <1>6 DEF Publish

LEMMA PruningWrites ==
  ASSUME StoreInv, NEW b \in Pruners, Prune(b),
         NEW k \in Places, store'[k] # store[k]
  PROVE  /\ pc[b] = "prune" /\ k \in Runs /\ k \in targets[b]
         /\ store'[k] = Missing \/ store'[k].doc = store[k].doc
<1> USE NumberedPlaces DEF StoreInv, SafeInv
<1>1. store \in [Places -> Directories] /\ b \in Actors /\ Pruning(b)
  BY DEF TypeOK, Actors, ActorInv
<1>2. RemoveEntry(b)
  BY DEF Prune, RequestPrune, EndPrune
<1>3. PICK j \in targets[b] :
        \/ store' = [store EXCEPT ![j] = Missing]
        \/ \E f : store' = [store EXCEPT ![j].files = @ \ {f}]
  BY <1>2 DEF RemoveEntry
<1>4. pc[b] = "prune" /\ j \in Runs
  BY <1>1, <1>2 DEF RemoveEntry, Pruning
<1>5. /\ \A i \in Places : i # j => store'[i] = store[i]
      /\ store'[j] = Missing \/ store'[j].doc = store[j].doc
  BY <1>1, <1>3, <1>4 DEF Directories
<1> QED
  BY <1>4, <1>5

LEMMA DeletingWrites ==
  ASSUME StoreInv, NEW b \in Deleters, Delete(b),
         NEW k \in Places, store'[k] # store[k]
  PROVE  k = Latest \/ store'[k] = Missing \/ store[k] = Missing
<1> USE NumberedPlaces DEF StoreInv, SafeInv
<1>1. store \in [Places -> Directories] /\ b \in Actors /\ Deleting(b)
  BY DEF TypeOK, Actors, ActorInv
<1>2. CASE RequestDelete(b) \/ EmptyTrash(b)
  BY <1>2 DEF RequestDelete, EmptyTrash
<1>3. CASE MoveToTrash(b)
  BY <1>1, <1>3 DEF MoveToTrash
<1>4. CASE Repoint(b)
  BY <1>1, <1>4 DEF Repoint
<1>5. CASE DeleteFails(b) \/ UndoFails(b)
  <2>1. Missing \in {hidden[b][k], store[k]}
    BY <1>1, <1>5 DEF DeleteFails, UndoFails, Deleting
  <2> QED
    BY <1>1, <1>5, <2>1, BackAsItWas
<1> QED
  BY <1>2, <1>3, <1>4, <1>5 DEF Delete

LEMMA OthersWriteNothing ==
  ASSUME NEW b \in Actors, (b \in Readers /\ Read(b)) \/ Crash(b)
  PROVE  UNCHANGED store
BY DEF Read, ListRuns, LoadRun, Crash

(* The step under way is that of the actor with the lock, if it changes    *)
(* anything that is shared or the lock passes from it.                     *)
LEMMA HolderMoves ==
  ASSUME StoreInv, NEW b \in Actors, StepOf(b), NEW a \in Actors, lock = a, a # b
  PROVE  UNCHANGED <<store, hidden, lock>> /\ pc'[a] = pc[a] /\ pc[a] \in Holding
BY LockGuards, OthersStandBy, StoreAssumption DEF StoreInv, SafeInv, LockInv

LEMMA HistoryStep ==
  ASSUME StoreInv, NEW b \in Actors, StepOf(b)
  PROVE  WholeSets /\ HistoryNeverRewritten /\ PruneKeepsNewest /\ DeletionLosesNothing
<1> USE NumberedPlaces, MissingIsLinked DEF StoreInv, SafeInv
<1>0. /\ Publishers \subseteq Actors /\ Pruners \subseteq Actors /\ Deleters \subseteq Actors
      /\ store \in [Places -> Directories] /\ pc \in [Actors -> States]
  BY DEF Actors, TypeOK
<1>1. WholeSets
  <2> SUFFICES ASSUME NEW p \in Publishers, lock = p, NEW k \in Places, store'[k] # store[k]
               PROVE  store'[k].files \in {{}, Files} \/ store'[k] = hidden[p][k]
    BY DEF WholeSets
  <2>1. p = b
    BY <1>0, HolderMoves
  <2>2. Publish(b)
    BY <2>1, OwnPrune, OwnDelete, OthersWriteNothing DEF StepOf
  <2>3. Whole(p).files = Files /\ Missing.files = {}
    BY DEF Whole, Missing
  <2> QED
    BY <2>1, <2>2, <2>3, PublishingWrites
<1>2. HistoryNeverRewritten
  <2> SUFFICES ASSUME NEW r \in Runs, store[r] # Missing, store'[r] # Missing, store'[r] # store[r]
               PROVE  store'[r].doc = store[r].doc
    BY DEF HistoryNeverRewritten
  <2>1. r \in Places /\ r # Latest
    OBVIOUS
  <2> QED
    BY <2>1, PublishingWrites, PruningWrites, DeletingWrites, OthersWriteNothing DEF StepOf
<1>3. PruneKeepsNewest
  <2> SUFFICES ASSUME NEW p \in Pruners, pc[p] = "prune", lock = p,
                      NEW k \in Places, store'[k] # store[k]
               PROVE  k # Latest /\ Cardinality({j \in Candidates : j > k}) >= Keep
    BY DEF PruneKeepsNewest
  <2>1. p = b
    BY <1>0, HolderMoves
  <2>2. Prune(b)
    <3>1. b \notin Publishers
      BY <2>1 DEF RoleInv, PublisherStates, Ended
    <3>2. ~Delete(b)
      BY <2>1 DEF Delete, RequestDelete, MoveToTrash, Repoint, EmptyTrash, DeleteFails, UndoFails, MoveBack
    <3> QED
      BY <3>1, <3>2, OthersWriteNothing DEF StepOf
  <2>3. k \in Runs /\ k \in targets[b]
    BY <2>1, <2>2, PruningWrites
  <2> DEFINE kept == {j \in Candidates \ targets[b] : j > k}
             newer == {j \in Candidates : j > k}
  <2>4. Cardinality(kept) >= Keep
    BY <2>1, <2>3 DEF ActorInv, Pruning
  <2>5. /\ kept \subseteq newer /\ IsFiniteSet(newer)
        /\ Cardinality(kept) \in Nat /\ Cardinality(newer) \in Nat
    <3>1. newer \in SUBSET Runs /\ kept \in SUBSET Runs
      BY CandidatesAreRuns
    <3> HIDE DEF kept, newer
    <3>2. IsFiniteSet(newer) /\ Cardinality(kept) \in Nat /\ Cardinality(newer) \in Nat
      BY <3>1, SetsOfRuns
    <3> QED
      BY <3>2 DEF kept, newer
  <2> HIDE DEF kept, newer
  <2>6. Cardinality(newer) >= Keep
    <3>1. Cardinality(kept) <= Cardinality(newer)
      BY <2>5, FS_Subset
    <3> QED
      BY <2>4, <2>5, <3>1, StoreAssumption
  <2> QED
    BY <2>3, <2>6 DEF newer
<1>4. DeletionLosesNothing
  <2> SUFFICES ASSUME NEW d \in Deleters, lock = d, pc'[d] \in {"delete", "undone", "stranded"},
                      NEW k \in Places
               PROVE  /\ {store'[k], hidden'[d][k]} \cup {Missing}
                           = {store[k], hidden[d][k]} \cup {Missing}
                      /\ pc'[d] = "undone" => hidden'[d][k] = Missing
    BY DEF DeletionLosesNothing
  <2>1. CASE d # b
    BY <1>0, <2>1, HolderMoves DEF Holding
  <2>2. CASE d = b
    <3>1. /\ hidden \in [Actors -> [Places -> Directories]] /\ hidden[b] \in [Places -> Directories]
          /\ Deleting(b)
      BY <1>0, <2>2 DEF TypeOK, ActorInv
    <3>0. CASE RestoreFails(b)
      BY <1>0, <2>2, <3>0 DEF RestoreFails, Release, Goto
    <3> SUFFICES ASSUME ~RestoreFails(b)
                 PROVE  /\ {store'[k], hidden'[d][k]} \cup {Missing}
                             = {store[k], hidden[d][k]} \cup {Missing}
                        /\ pc'[d] = "undone" => hidden'[d][k] = Missing
      BY <3>0
    <3>2. MoveToTrash(b) \/ DeleteFails(b) \/ UndoFails(b)
      <4>1. pc[b] \in Holding
        BY <2>2 DEF LockInv
      <4> USE <1>0, <2>2, <4>1 DEF Goto, Release, Holding
      <4>2. ~Publish(b)
        BY StoreAssumption DEF Publish, Bind, RenderFails, Recheck, WriteFile, Staging, SwapHistory,
           BackUpLatest, SwapLatest, DropBackup, PublishFails
      <4>3. ~Prune(b)
        BY DEF Prune, RequestPrune, RemoveEntry, EndPrune
      <4>4. ~Read(b) /\ ~Crash(b)
        BY DEF Read, ListRuns, LoadRun, Crash
      <4>5. Delete(b)
        BY <4>2, <4>3, <4>4 DEF StepOf
      <4> QED
        BY <4>5, StoreAssumption DEF Delete, RequestDelete, Repoint, EmptyTrash
    <3>3. /\ pc[b] = "delete"
          /\ targets[b] \subseteq Records(store)
          /\ \A j \in Places : Missing \in {hidden[b][j], store[j]}
      BY <3>1, <3>2 DEF MoveToTrash, DeleteFails, UndoFails, Deleting
    <3>4. CASE MoveToTrash(b)
      <4>1. PICK j \in targets[b] :
              /\ hidden' = [hidden EXCEPT ![b] = [hidden[b] EXCEPT ![j] = store[j]]]
              /\ store' = [store EXCEPT ![j] = Missing]
        BY <3>4 DEF MoveToTrash
      <4>2. j \in Places /\ hidden[b][j] = Missing
        BY <3>3 DEF Records
      <4>3. /\ store'[j] = Missing /\ hidden'[b][j] = store[j]
            /\ \A i \in Places : i # j => store'[i] = store[i] /\ hidden'[b][i] = hidden[b][i]
        BY <1>0, <3>1, <4>1, <4>2
      <4>4. pc'[b] = "delete"
        BY <3>3, <3>4 DEF MoveToTrash
      <4> QED
        BY <2>2, <4>2, <4>3, <4>4
    <3>5. CASE DeleteFails(b) \/ UndoFails(b)
      <4>1. pc'[b] = "undone" => DeleteFails(b)
        BY <1>0, <2>2, <3>5 DEF DeleteFails, UndoFails, Goto, Release
      <4>2. {store'[k], hidden'[d][k]} \cup {Missing} = {store[k], hidden[d][k]} \cup {Missing}
        BY <2>2, <3>3, <3>5, BackAsItWas
      <4>3. pc'[b] = "undone" => hidden'[d][k] = Missing
        BY <2>2, <3>5, <4>1, BackAsItWas
      <4> QED
        BY <2>2, <4>2, <4>3
    <3> QED
      BY <3>2, <3>4, <3>5
  <2> QED
    BY <2>1, <2>2
<1> QED
  BY <1>1, <1>2, <1>3, <1>4

LEMMA LatestStep ==
  ASSUME StoreInv, NEW b \in Actors, StepOf(b),
         NEW a \in Actors, lock = a, lock' # a, pc'[a] # "crashed", hidden[a][Latest] # Missing
  PROVE  \/ store'[Latest] # Missing
         \/ Records(store') = {}
         \/ pc'[a] = "stranded" /\ hidden'[a][Latest] = hidden[a][Latest]
<1> USE NumberedPlaces, StoreAssumption DEF StoreInv, SafeInv, Goto, Release
<1>1. /\ a = b /\ pc[b] \in Holding /\ pc'[b] # "crashed" /\ hidden[b][Latest] # Missing
      /\ pc \in [Actors -> States] /\ store \in [Places -> Directories]
  BY HolderMoves DEF LockInv, TypeOK
<1>2. ~Untouched(b)
  BY <1>1 DEF Untouched
<1>3. CASE b \in Publishers /\ Publish(b)
  <2>1. Publishing(b)
    BY <1>3 DEF ActorInv
  <2>2. ~(pc[b] \in {"bind", "rendered", "stage_history", "stage_latest"})
    BY <1>2, <2>1 DEF Publishing
  <2> SUFFICES ASSUME ~RestoreFails(b)
               PROVE  store'[Latest] # Missing
    BY <1>1 DEF RestoreFails
  <2>3. DropBackup(b) \/ PublishFails(b)
    BY <1>1, <1>3, <2>2 DEF Publish, Bind, RenderFails, Recheck, WriteFile, SwapHistory,
       BackUpLatest, SwapLatest
  <2>4. CASE pc[b] = "clean"
    <3>1. UNCHANGED store
      BY <2>3, <2>4 DEF DropBackup, PublishFails, RestoreFails
    <3>2. Whole(b) # Missing
      BY DEF Whole, Missing, Files
    <3> QED
      BY <2>1, <2>4, <3>1, <3>2 DEF Publishing
  <2>5. CASE pc[b] = "swap_latest"
    BY <1>1, <2>3, <2>5 DEF DropBackup, PublishFails, RestoreFails
  <2> QED
    BY <2>2, <2>3, <2>4, <2>5 DEF DropBackup, PublishFails, RestoreFails
<1>4. CASE b \in Pruners /\ Prune(b)
  <2>1. pc[b] = "prune"
    BY <1>1, <1>4 DEF Prune, RequestPrune, RemoveEntry, EndPrune
  <2> QED
    BY <1>2, <2>1 DEF ActorInv, Pruning
<1>5. CASE b \in Deleters /\ Delete(b)
  <2>1. EmptyTrash(b) \/ DeleteFails(b) \/ UndoFails(b)
    BY <1>1, <1>5 DEF Delete, RequestDelete, MoveToTrash, Repoint
  <2>2. CASE EmptyTrash(b)
    BY <2>2 DEF EmptyTrash, ActorInv, Deleting, Records
  <2>3. CASE DeleteFails(b)
    BY <1>1, <2>3, BackAsItWas DEF Restored
  <2>4. CASE UndoFails(b)
    <3>1. pc'[b] = "stranded"
      BY <1>1, <2>4 DEF UndoFails
    <3>2. \/ hidden'[b][Latest] = hidden[b][Latest]
          \/ store'[Latest] = hidden[b][Latest]
      BY <2>4, BackAsItWas
    <3> QED
      BY <1>1, <3>1, <3>2
  <2> QED
    BY <2>1, <2>2, <2>3, <2>4
<1>6. CASE (b \in Readers /\ Read(b)) \/ Crash(b)
  BY <1>1, <1>6 DEF Read, ListRuns, LoadRun, Crash
<1> QED
  BY <1>3, <1>4, <1>5, <1>6 DEF StepOf

(* A publication shows no partial set, a document in history is never      *)
(* rewritten, a pruning touches nothing but what lies beyond the newest    *)
(* Keep, and until a deletion empties its trash each directory it found is *)
(* where it was or hidden, also when its rollback fails half-way.          *)
THEOREM HistoryKept == Spec => HistoryIsKept
<1>1. StoreInv /\ [Next]_vars =>
        [WholeSets /\ HistoryNeverRewritten /\ PruneKeepsNewest /\ DeletionLosesNothing]_vars
  BY HistoryStep, NextByActor
<1> QED
  BY <1>1, StoreInvariant, PTL DEF Spec, HistoryIsKept

(* A publication or a deletion that took latest away and is not killed     *)
(* leaves a latest while a run is left that it could show; if its rollback *)
(* fails in its turn, what latest was is still whole where it was hidden.  *)
THEOREM LatestKept == Spec => LatestNeverLost
<1> DEFINE Kept == \A a \in Actors :
                     /\ lock = a /\ lock' # a
                     /\ pc'[a] # "crashed"
                     /\ hidden[a][Latest] # Missing
                     => \/ store'[Latest] # Missing
                        \/ Records(store') = {}
                        \/ pc'[a] = "stranded" /\ hidden'[a][Latest] = hidden[a][Latest]
<1>1. StoreInv /\ [Next]_vars => [Kept]_vars
  BY LatestStep, NextByActor
<1> QED
  BY <1>1, StoreInvariant, PTL DEF Spec, LatestNeverLost

------------------------------------------------------------------------------
(* Publishers that have each a run of their own.                           *)

(* Once bound for good a document stays what it is.                        *)
LEMMA DocumentStays ==
  ASSUME StoreInv, NEW b \in Actors, StepOf(b), NEW doc, Published(doc)
  PROVE  doc.id # NoRun =>
           \E p \in Publishers : doc = Document(p)' /\ pc'[p] \notin {"bind", "rendered"}
<1> SUFFICES ASSUME doc.id # NoRun
             PROVE  \E p \in Publishers : doc = Document(p)' /\ pc'[p] \notin {"bind", "rendered"}
  OBVIOUS
<1> USE DEF StoreInv, SafeInv, TypeOK
<1>1. PICK p \in Publishers : doc = Document(p) /\ pc[p] \notin {"bind", "rendered"}
  BY DEF Published
<1>2. p \in Actors
  BY DEF Actors
<1>3. bound'[p] = bound[p] /\ pc'[p] \notin {"bind", "rendered"}
  <2>1. CASE p # b
    BY <1>1, <1>2, <2>1, OthersStandBy
  <2>2. CASE p = b
    <3> USE <1>1, <1>2, <2>2 DEF Goto, Release
    <3>1. CASE Publish(b)
      BY <3>1 DEF Publish, Bind, RenderFails, Recheck, WriteFile, SwapHistory, BackUpLatest,
                  SwapLatest, DropBackup, PublishFails, RestoreFails
    <3>2. CASE Read(b) \/ Crash(b)
      BY <3>2 DEF Read, ListRuns, LoadRun, Crash
    <3>3. ~(b \in Pruners /\ Prune(b)) /\ ~(b \in Deleters /\ Delete(b))
      BY OwnPrune, OwnDelete
    <3> QED
      BY <3>1, <3>2, <3>3 DEF StepOf
  <2> QED
    BY <2>1, <2>2
<1>4. Document(p)' = Document(p)
  BY <1>3 DEF Document
<1> QED
  BY <1>1, <1>3, <1>4

(* A step moves documents, or shows the one of the publisher that takes it. *)
LEMMA DocumentsMove ==
  ASSUME StoreInv, NEW b \in Actors, StepOf(b)
  PROVE  /\ \A k \in Places :
              \/ store'[k] = Missing
              \/ \E j \in Places : store'[k].doc \in {store[j].doc, hidden[b][j].doc}
              \/ /\ b \in Publishers /\ pc[b] \in {"stage_history", "swap_latest"}
                 /\ store'[k].doc = Document(b)
         /\ \A k \in Places : hidden'[b][k] \in {Missing, store[k], hidden[b][k]}
<1> USE NumberedPlaces DEF StoreInv, SafeInv
<1>1. /\ store \in [Places -> Directories] /\ hidden \in [Actors -> [Places -> Directories]]
      /\ hidden[b] \in [Places -> Directories] /\ targets \in [Actors -> SUBSET Places]
  BY DEF TypeOK
<1>2. CASE UNCHANGED <<store, hidden>>
  BY <1>1, <1>2
<1>3. ASSUME b \in Publishers, SwapHistory(b) \/ SwapLatest(b)
      PROVE  /\ pc[b] \in {"stage_history", "swap_latest"} /\ UNCHANGED hidden
             /\ \A k \in Places : store'[k] = store[k] \/ store'[k].doc = Document(b)
  <2>1. Staged(b).doc = Document(b) /\ RunOf[b] \in Runs
    BY <1>3, NewDocuments DEF Staged
  <2> QED
    BY <1>1, <1>3, <2>1 DEF SwapHistory, SwapLatest
<1>4. ASSUME BackUpLatest(b) \/ MoveToTrash(b)
      PROVE  \A k \in Places : /\ store'[k] \in {Missing, store[k]}
                               /\ hidden'[b][k] \in {store[k], hidden[b][k]}
  <2>1. PICK j \in Places :
          /\ hidden' = [hidden EXCEPT ![b] = [hidden[b] EXCEPT ![j] = store[j]]]
          /\ store' = [store EXCEPT ![j] = Missing]
    BY <1>1, <1>4 DEF BackUpLatest, MoveToTrash
  <2> QED
    BY <1>1, <2>1
<1>5. ASSUME \/ DropBackup(b) \/ PublishFails(b) \/ EmptyTrash(b)
             \/ DeleteFails(b) \/ UndoFails(b)
      PROVE  \A k \in Places : /\ store'[k] \in {store[k], hidden[b][k]}
                               /\ hidden'[b][k] \in {Missing, hidden[b][k]}
  BY <1>1, <1>5, BackAsItWas DEF DropBackup, PublishFails, EmptyTrash
<1>6. ASSUME RemoveEntry(b)
      PROVE  \A k \in Places : /\ store'[k] = Missing \/ store'[k].doc = store[k].doc
                               /\ hidden'[b][k] = hidden[b][k]
  <2>1. PICK k \in targets[b] :
          \/ store' = [store EXCEPT ![k] = Missing]
          \/ \E f : store' = [store EXCEPT ![k].files = @ \ {f}]
    BY <1>6 DEF RemoveEntry
  <2>2. k \in Places /\ UNCHANGED hidden
    BY <1>1, <1>6 DEF RemoveEntry
  <2>3. /\ \A j \in Places : j # k => store'[j] = store[j]
        /\ store'[k] = Missing \/ store'[k].doc = store[k].doc
    BY <1>1, <2>1, <2>2 DEF Directories
  <2> QED
    BY <2>2, <2>3
<1>7. ASSUME Repoint(b)
      PROVE  /\ UNCHANGED hidden
             /\ \A k \in Places : \E j \in Places : store'[k] = store[j]
  BY <1>1, <1>7, RecordIsPlace DEF Repoint
<1> QED
  BY <1>1, <1>2, <1>3, <1>4, <1>5, <1>6, <1>7
     DEF StepOf, Publish, Bind, RenderFails, Recheck, WriteFile, RestoreFails, Prune, RequestPrune, EndPrune,
         Delete, RequestDelete, Read, ListRuns, LoadRun, Crash

LEMMA ReadersCopy ==
  ASSUME StoreInv, NEW b \in Actors, StepOf(b), NEW q \in Readers
  PROVE  \/ selected'[q].doc = selected[q].doc
         \/ \E k \in Places : selected'[q].doc = store[k].doc
<1> USE NumberedPlaces, RecordIsPlace DEF StoreInv, SafeInv, TypeOK
<1>1. CASE q # b
  <2>1. q \in Actors
    BY DEF Actors
  <2> QED
    BY <1>1, <2>1, OthersStandBy
<1>2. CASE ~(b \in Readers /\ Read(b))
  BY <1>2 DEF StepOf, Publish, Bind, RenderFails, Recheck, WriteFile, SwapHistory, BackUpLatest,
     SwapLatest, DropBackup, PublishFails, RestoreFails, Prune, RequestPrune, RemoveEntry, EndPrune,
     Delete, RequestDelete, MoveToTrash, Repoint, EmptyTrash, DeleteFails, UndoFails, MoveBack, Crash
<1>3. CASE q = b /\ ListRuns(q)
  <2>1. PICK k \in Places : selected' = [selected EXCEPT ![q] = [place |-> k, doc |-> store[k].doc]]
    BY <1>3 DEF ListRuns
  <2> QED
    BY <2>1
<1>4. CASE q = b /\ LoadRun(q)
  <2>1. selected[q].doc.id \in Places
    BY DEF Documents, NoDoc, Places, NoRun, Latest
  <2> QED
    BY <1>4, <2>1 DEF LoadRun
<1> QED
  BY <1>1, <1>2, <1>3, <1>4 DEF Read

LEMMA OwnInit == Init => OwnInv
<1>1. NoDoc.id = NoRun /\ Missing.doc = NoDoc
  BY DEF NoDoc, Missing
<1> QED
  BY <1>1 DEF Init, OwnInv, Published

LEMMA OwnStep == StoreInv /\ OwnInv /\ [Next]_vars => OwnInv'
<1> SUFFICES ASSUME StoreInv, OwnInv, [Next]_vars PROVE OwnInv'
  OBVIOUS
<1>1. ASSUME NEW b \in Actors, StepOf(b) PROVE OwnInv'
  <2> USE NumberedPlaces DEF StoreInv, SafeInv
  <2> DEFINE Remains(doc) ==
        doc.id # NoRun =>
          \E p \in Publishers : doc = Document(p)' /\ pc'[p] \notin {"bind", "rendered"}
  <2>1. \A doc : Published(doc) => Remains(doc)
    BY <1>1, DocumentStays
  <2>2. Remains(Missing.doc)
    BY DEF Missing, NoDoc
  <2>3. /\ \A k \in Places : Remains(store[k].doc)
        /\ \A a \in Actors, k \in Places : Remains(hidden[a][k].doc)
        /\ \A q \in Readers : Remains(selected[q].doc)
    <3> HIDE DEF Remains
    <3> QED
      BY <2>1 DEF OwnInv
  <2>4. b \in Publishers /\ pc[b] \in {"stage_history", "swap_latest"} => Remains(Document(b))
    BY <2>1 DEF Published
  <2>5. /\ \A k \in Places :
             \/ store'[k] = Missing
             \/ \E j \in Places : store'[k].doc \in {store[j].doc, hidden[b][j].doc}
             \/ /\ b \in Publishers /\ pc[b] \in {"stage_history", "swap_latest"}
                /\ store'[k].doc = Document(b)
        /\ \A k \in Places : hidden'[b][k] \in {Missing, store[k], hidden[b][k]}
    BY <1>1, DocumentsMove
  <2>6. \A q \in Readers : \/ selected'[q].doc = selected[q].doc
                           \/ \E k \in Places : selected'[q].doc = store[k].doc
    BY <1>1, ReadersCopy
  <2>7. \A a \in Actors : a # b => hidden'[a] = hidden[a]
    BY <1>1, OthersStandBy
  <2>8. /\ \A k \in Places : Remains(store'[k].doc)
        /\ \A a \in Actors, k \in Places : Remains(hidden'[a][k].doc)
        /\ \A q \in Readers : Remains(selected'[q].doc)
    <3> HIDE DEF Remains
    <3> QED
      BY <1>1, <2>2, <2>3, <2>4, <2>5, <2>6, <2>7
  <2> QED
    BY <2>8 DEF OwnInv, Published
<1>2. CASE UNCHANGED vars
  BY <1>2 DEF vars, OwnInv, Published, Document
<1> QED
  BY <1>1, <1>2, NextByActor

LEMMA OwnInvariant == Spec => [](StoreInv /\ OwnInv)
<1>1. Init => StoreInv /\ OwnInv
  BY StoreInit, OwnInit
<1>2. StoreInv /\ OwnInv /\ [Next]_vars => (StoreInv /\ OwnInv)'
  BY StoreStep, OwnStep
<1> QED
  BY <1>1, <1>2, PTL DEF Spec

(* A run is told the same wherever it is found.                            *)
LEMMA RecordTellsAll ==
  ASSUME StoreInv, NEW id \in Runs, NEW j \in Records(store), store[j].doc.id = id
  PROVE  /\ Readable(store[RecordOf(store, id)])
         /\ SameSummary(store[RecordOf(store, id)].doc, store[j].doc)
<1> USE NumberedPlaces DEF StoreInv, SafeInv
<1>1. j = id \/ j = Latest
  BY RecordsAreRuns
<1>2. id \in Records(store) => store[id].doc.id = id
  BY RecordsAreRuns
<1>3. CASE id \in Records(store) /\ Latest \in Records(store) /\ store[Latest].doc.id = id
  <2>1. SameSummary(store[id].doc, store[Latest].doc)
    BY <1>3, MissingIsLinked DEF Agrees, Records
  <2> QED
    BY <1>1, <1>3, <2>1 DEF RecordOf, Records, SameSummary
<1>4. CASE ~(id \in Records(store) /\ Latest \in Records(store) /\ store[Latest].doc.id = id)
  BY <1>1, <1>2, <1>4 DEF RecordOf, Records, SameSummary
<1> QED
  BY <1>3, <1>4

LEMMA ReaderStep ==
  ASSUME StoreInv, NEW b \in Actors, StepOf(b), NEW q \in Readers, pc[q] = "listed"
  PROVE  /\ pc'[q] = "loaded" =>
              \E k \in Places : /\ Readable(store[k])
                                /\ SameSummary(store[k].doc, selected[q].doc)
                                /\ selected'[q].doc = store[k].doc
         /\ pc'[q] = "refused" /\ selected[q].place = Latest =>
              \A k \in Records(store) : ~SameSummary(store[k].doc, selected[q].doc)
<1> USE NumberedPlaces DEF StoreInv, SafeInv, Goto
<1>1. /\ q \in Actors /\ pc \in [Actors -> States]
      /\ selected \in [Readers -> [place : Places, doc : Documents \cup {NoDoc}]]
  BY DEF Actors, TypeOK
<1>2. CASE q # b
  BY <1>1, <1>2, OthersStandBy
<1>3. CASE q = b /\ ~LoadRun(q)
  <2>1. ~Publish(b)
    BY <1>3 DEF Publish, Bind, RenderFails, Recheck, WriteFile, Staging, SwapHistory,
       BackUpLatest, SwapLatest, DropBackup, PublishFails, RestoreFails
  <2>2. ~Prune(b) /\ ~Delete(b)
    BY <1>3 DEF Prune, RequestPrune, RemoveEntry, EndPrune,
       Delete, RequestDelete, MoveToTrash, Repoint, EmptyTrash, DeleteFails, UndoFails, MoveBack
  <2>3. ~ListRuns(b)
    BY <1>3 DEF ListRuns
  <2>4. Crash(b)
    BY <1>3, <2>1, <2>2, <2>3 DEF StepOf, Read
  <2> QED
    BY <1>1, <1>3, <2>4 DEF Crash
<1>4. CASE LoadRun(q)
  <2> DEFINE id == selected[q].doc.id
             k  == IF selected[q].place = Latest THEN RecordOf(store, id) ELSE id
  <2>1. k \in Places
    BY <1>1, RecordIsPlace DEF Documents, NoDoc, Places, NoRun, Latest
  <2>2. IF Readable(store[k]) /\ SameSummary(store[k].doc, selected[q].doc)
        THEN selected' = [selected EXCEPT ![q].doc = store[k].doc] /\ pc'[q] = "loaded"
        ELSE pc'[q] = "refused"
    BY <1>1, <1>4 DEF LoadRun
  <2>3. ASSUME pc'[q] = "refused", selected[q].place = Latest, NEW j \in Records(store),
               SameSummary(store[j].doc, selected[q].doc)
        PROVE  FALSE
    <3>1. store[j].doc.id = id /\ id \in Runs
      BY <2>3, RecordsAreRuns DEF SameSummary
    <3>2. Readable(store[k]) /\ SameSummary(store[k].doc, store[j].doc)
      BY <2>3, <3>1, RecordTellsAll
    <3>3. SameSummary(store[k].doc, selected[q].doc)
      BY <2>3, <3>2 DEF SameSummary
    <3> QED
      BY <2>2, <2>3, <3>2, <3>3
  <2>4. ASSUME pc'[q] = "loaded"
        PROVE  /\ Readable(store[k]) /\ SameSummary(store[k].doc, selected[q].doc)
               /\ selected'[q].doc = store[k].doc
    <3> HIDE DEF k
    <3> QED
      BY <1>1, <2>2, <2>4
  <2> HIDE DEF k
  <2> QED
    BY <2>1, <2>3, <2>4
<1> QED
  BY <1>2, <1>3, <1>4

LEMMA OneDocument ==
  ASSUME OneRunEach, NEW x, NEW y, Published(x), Published(y), x.id = y.id, x.id # NoRun
  PROVE  x = y
<1>1. PICK p \in Publishers : x = Document(p)
  BY DEF Published
<1>2. PICK q \in Publishers : y = Document(q)
  BY DEF Published
<1>3. RunOf[p] = RunOf[q]
  BY <1>1, <1>2 DEF Document
<1> QED
  BY <1>1, <1>2, <1>3 DEF OneRunEach

(* When each publisher has a run of its own, whoever opens a run gets the  *)
(* very document that was listed, however latest moved on and history was  *)
(* cut in between, and a run picked from latest is refused only once no    *)
(* directory holds it.                                                     *)
THEOREM ReadersOpenSelected ==
  ASSUME OneRunEach
  PROVE  Spec => ReaderOpensSelected
<1> DEFINE Opens ==
      \A q \in Readers : pc[q] = "listed" =>
        /\ pc'[q] = "loaded" => selected'[q].doc = selected[q].doc
        /\ pc'[q] = "refused" /\ selected[q].place = Latest =>
             \A k \in Records(store) : ~SameSummary(store[k].doc, selected[q].doc)
<1>1. StoreInv /\ OwnInv /\ [Next]_vars => [Opens]_vars
  <2> SUFFICES ASSUME StoreInv, OwnInv, NEW b \in Actors, StepOf(b),
                      NEW q \in Readers, pc[q] = "listed"
               PROVE  /\ pc'[q] = "loaded" => selected'[q].doc = selected[q].doc
                      /\ pc'[q] = "refused" /\ selected[q].place = Latest =>
                           \A k \in Records(store) : ~SameSummary(store[k].doc, selected[q].doc)
    BY NextByActor
  <2>1. ASSUME pc'[q] = "loaded" PROVE selected'[q].doc = selected[q].doc
    <3>1. PICK k \in Places : /\ Readable(store[k])
                              /\ SameSummary(store[k].doc, selected[q].doc)
                              /\ selected'[q].doc = store[k].doc
      BY <2>1, ReaderStep
    <3>2. store[k].doc.id \in Runs
      BY <3>1, RecordsAreRuns DEF StoreInv, SafeInv, Records
    <3> QED
      BY <3>1, <3>2, OneDocument, NumberedPlaces DEF OwnInv, SameSummary
  <2> QED
    BY <2>1, ReaderStep
<1> QED
  BY <1>1, OwnInvariant, PTL DEF Spec, ReaderOpensSelected

------------------------------------------------------------------------------
(* The chain of runs that became latest.                                   *)

LEMMA ChainInit == Init => ChainInv
<1> SUFFICES ASSUME Init PROVE ChainInv
  OBVIOUS
<1>1. published = <<>> /\ DOMAIN published = {} /\ store[Latest] = Missing
  BY NumberedPlaces DEF Init
<1>2. \A p \in Publishers : pc[p] = "bind"
  BY DEF Init, Actors
<1> QED
  BY <1>1, <1>2 DEF ChainInv, ConcurrentRunsFormChain, Shows

(* While nobody publishes, the link a run is given is the run published    *)
(* last: its own directory cannot be there yet.                            *)
LEMMA LinkIsLast ==
  ASSUME OneRunEach, StoreInv, OwnInv, ChainInv,
         NEW p \in Publishers, pc[p] = "rendered", lock = Nobody
  PROVE  PreviousRunId(RunOf[p]) = Predecessor(RunOf[p])
<1> USE NumberedPlaces, MissingIsLinked DEF StoreInv, SafeInv
<1> DEFINE r == RunOf[p]
<1>1. r \in Runs
  BY NewDocuments
<1>2. ASSUME NEW k \in Places PROVE store[k].doc.id # r
  <2> SUFFICES ASSUME store[k].doc.id = r PROVE FALSE
    OBVIOUS
  <2>1. PICK q \in Publishers : store[k].doc = Document(q) /\ pc[q] \notin {"bind", "rendered"}
    BY <1>1 DEF OwnInv, Published
  <2>2. RunOf[q] = RunOf[p]
    BY <2>1 DEF Document
  <2> QED
    BY <2>1, <2>2 DEF OneRunEach
<1>3. ~Readable(store[r])
  <2> SUFFICES ASSUME Readable(store[r]) PROVE FALSE
    OBVIOUS
  <2>1. r \in Records(store)
    BY <1>1 DEF Records
  <2> QED
    BY <1>1, <1>2, <2>1, RecordsAreRuns
<1>4. Shows(store[Latest])
  <2>1. \A q \in Publishers : pc[q] # "swap_latest"
    BY StoreAssumption DEF LockInv, Holding, Actors
  <2> QED
    BY <2>1 DEF ChainInv
<1>5. CASE published = <<>>
  BY <1>3, <1>4, <1>5 DEF PreviousRunId, Predecessor, Shows
<1>6. CASE published # <<>>
  <2>1. published[Len(published)] \in Documents
    BY <1>6 DEF TypeOK
  <2>2. store[Latest].doc = published[Len(published)] /\ store[Latest] # Missing
    BY <1>4, <1>6, <2>1 DEF Shows, Documents, Missing, NoDoc
  <2>3. Readable(store[Latest])
    BY <2>2 DEF Agrees
  <2> QED
    BY <1>2, <1>3, <1>6, <2>2, <2>3 DEF PreviousRunId, Predecessor
<1> QED
  BY <1>5, <1>6

LEMMA ChainStep ==
  ASSUME OneRunEach, Deleters = {}, Faults \subseteq {"error"},
         StoreInv, OwnInv, ChainInv, NEW b \in Actors, StepOf(b)
  PROVE  ChainInv'
<1> USE NumberedPlaces DEF StoreInv, SafeInv, Goto, Release
<1>1. /\ Publishers \subseteq Actors /\ pc \in [Actors -> States]
      /\ store \in [Places -> Directories] /\ hidden \in [Actors -> [Places -> Directories]]
      /\ hidden[b] \in [Places -> Directories] /\ published \in Seq(Documents)
      /\ bound \in [Publishers -> [prev : Places, changes : Places]]
  BY DEF TypeOK, Actors
<1> DEFINE Inside == {"stage_history", "stage_latest", "swap_latest"}
(* Whoever is between its locks has nobody beside it.                      *)
<1>2. ASSUME NEW p \in Publishers, p # b, pc'[p] \in Inside
      PROVE  /\ pc[p] \in Inside /\ pc[p] = pc'[p]
             /\ UNCHANGED <<store, hidden, published>> /\ bound'[p] = bound[p]
  <2>1. pc'[p] = pc[p] /\ bound'[p] = bound[p]
    BY <1>1, <1>2, OthersStandBy
  <2>2. lock # b /\ lock = p
    BY <1>1, <1>2, <2>1 DEF LockInv, Holding
  <2> QED
    BY <1>2, <2>1, <2>2, LockGuards
<1>3. lock = b => \A p \in Publishers : p # b => pc[p] \notin Inside
  BY <1>1 DEF LockInv, Holding
<1> DEFINE Own ==
      b \in Publishers =>
        /\ pc'[b] = "swap_latest" => Shows(hidden[b][Latest])'
        /\ pc'[b] \in Inside => bound'[b].prev = Predecessor(RunOf[b])'
<1>4. ASSUME ConcurrentRunsFormChain', Own,
             (\A p \in Publishers : pc'[p] # "swap_latest") => Shows(store[Latest])'
      PROVE  ChainInv'
  <2>1. ASSUME NEW p \in Publishers, p # b, pc'[p] \in Inside
        PROVE  /\ pc'[p] = "swap_latest" => Shows(hidden[p][Latest])'
               /\ bound'[p].prev = Predecessor(RunOf[p])'
    BY <1>2, <2>1 DEF ChainInv, Shows, Predecessor
  <2>2. ASSUME NEW p \in Publishers
        PROVE  /\ pc'[p] = "swap_latest" => Shows(hidden[p][Latest])'
               /\ pc'[p] \in Inside => bound'[p].prev = Predecessor(RunOf[p])'
    BY <1>4, <2>1
  <2> QED
    BY <1>4, <2>2 DEF ChainInv
(* A step that publishes nothing and leaves latest alone.                  *)
<1>5. ASSUME UNCHANGED published, store'[Latest] = store[Latest],
             b \in Publishers => (pc[b] = "swap_latest" <=> pc'[b] = "swap_latest"),
             b \in Publishers /\ pc'[b] \in Inside =>
               /\ bound'[b].prev = Predecessor(RunOf[b])
               /\ hidden'[b][Latest] = hidden[b][Latest]
      PROVE  ChainInv'
  <2>1. ConcurrentRunsFormChain'
    BY <1>5 DEF ChainInv, ConcurrentRunsFormChain
  <2>2. Own
    BY <1>5 DEF ChainInv, Shows, Predecessor
  <2>3. ASSUME \A p \in Publishers : pc'[p] # "swap_latest" PROVE Shows(store[Latest])'
    <3>1. \A p \in Publishers : pc[p] # "swap_latest"
      BY <1>1, <1>5, <2>3, OthersStandBy
    <3> QED
      BY <1>5, <3>1 DEF ChainInv, Shows
  <2> QED
    BY <1>4, <2>1, <2>2, <2>3
<1>6. CASE b \in Publishers /\ Publish(b)
  <2>1. RunOf[b] \in Runs /\ Publishing(b)
    BY <1>6, NewDocuments DEF ActorInv
  <2>2. pc[b] \in Inside => bound[b].prev = Predecessor(RunOf[b])
    BY <1>6 DEF ChainInv
  <2>3. CASE Bind(b) \/ RenderFails(b)
    BY <1>1, <1>5, <1>6, <2>3 DEF Bind, RenderFails
  <2>4. CASE Recheck(b)
    <3>1. pc'[b] \in Inside => bound[b].prev = Predecessor(RunOf[b])
      BY <1>1, <1>6, <2>4, LinkIsLast DEF Recheck
    <3> QED
      BY <1>1, <1>5, <1>6, <2>4, <3>1 DEF Recheck
  <2>5. CASE WriteFile(b) \/ DropBackup(b)
    BY <1>1, <1>5, <1>6, <2>2, <2>5 DEF WriteFile, DropBackup
  <2>6. CASE SwapHistory(b)
    <3>1. store'[Latest] = store[Latest] /\ UNCHANGED <<hidden, bound, published>>
      BY <1>1, <2>1, <2>6 DEF SwapHistory
    <3> QED
      BY <1>1, <1>5, <1>6, <2>2, <2>6, <3>1 DEF SwapHistory
  <2>7. CASE BackUpLatest(b)
    <3>1. /\ UNCHANGED <<bound, published>> /\ pc[b] = "stage_latest" /\ pc'[b] = "swap_latest"
          /\ hidden'[b][Latest] = store[Latest]
      BY <1>1, <1>6, <2>7 DEF BackUpLatest
    <3>2. Shows(store[Latest])
      BY <1>1, <1>3, <1>6, <3>1 DEF ChainInv, LockInv, Holding
    <3>3. Own
      BY <2>2, <3>1, <3>2 DEF Shows, Predecessor
    <3>4. ConcurrentRunsFormChain'
      BY <3>1 DEF ChainInv, ConcurrentRunsFormChain
    <3> QED
      BY <1>4, <1>6, <3>1, <3>3, <3>4
  <2>8. CASE SwapLatest(b)
    <3>1. /\ published' = Append(published, Document(b))
          /\ pc[b] = "swap_latest" /\ pc'[b] = "clean"
          /\ store'[Latest] = Staged(b)
      BY <1>1, <1>6, <2>8 DEF SwapLatest
    <3>2. Document(b) \in Documents /\ Staged(b).doc = Document(b)
      BY <1>6, NewDocuments DEF Staged
    <3>3. /\ Len(published') = Len(published) + 1 /\ published'[Len(published')] = Document(b)
          /\ published' # <<>>
          /\ \A k \in DOMAIN published : published'[k] = published[k]
          /\ DOMAIN published = 1..Len(published) /\ DOMAIN published' = 1..Len(published)+1
          /\ Len(published) \in Nat
      BY <1>1, <3>1, <3>2
    <3>4. Document(b).prev = IF published = <<>> \/ RunOf[b] \in Redacted THEN NoRun
                             ELSE published[Len(published)].id
      BY <2>2, <3>1 DEF Document, Predecessor
    <3>5. ConcurrentRunsFormChain'
      <4> SUFFICES ASSUME NEW k \in DOMAIN published'
                   PROVE  published'[k].prev =
                            IF k = 1 \/ published'[k].id \in Redacted THEN NoRun
                            ELSE published'[k - 1].id
        BY DEF ConcurrentRunsFormChain
      <4>1. CASE k = Len(published')
        <5>1. k = 1 <=> published = <<>>
          BY <1>1, <3>3, <4>1
        <5>2. k # 1 => k - 1 \in DOMAIN published /\ k - 1 = Len(published)
          BY <3>3, <4>1
        <5>3. published'[k] = Document(b) /\ Document(b).id = RunOf[b]
          BY <3>3, <4>1 DEF Document
        <5> QED
          BY <3>3, <3>4, <5>1, <5>2, <5>3
      <4>2. CASE k # Len(published')
        <5>1. k \in DOMAIN published /\ (k # 1 => k - 1 \in DOMAIN published)
          BY <3>3, <4>2
        <5> QED
          BY <3>3, <5>1 DEF ChainInv, ConcurrentRunsFormChain
      <4> QED
        BY <4>1, <4>2
    <3>6. Shows(store[Latest])'
      BY <3>1, <3>2, <3>3 DEF Shows
    <3> QED
      BY <1>4, <3>1, <3>5, <3>6
  <2>9. CASE PublishFails(b)
    <3>1. pc'[b] = "failed" /\ UNCHANGED published
      BY <1>1, <1>6, <2>9 DEF PublishFails
    <3>2. CASE pc[b] # "swap_latest"
      <4>1. UNCHANGED store
        BY <2>9, <3>2 DEF PublishFails
      <4> QED
        BY <1>5, <3>1, <3>2, <4>1
    <3>3. CASE pc[b] = "swap_latest"
      <4>1. Shows(hidden[b][Latest]) /\ store[Latest] = Missing
        BY <1>6, <2>1, <3>3 DEF ChainInv, Publishing
      <4>2. store'[Latest] = hidden[b][Latest]
        BY <1>1, <2>9, <3>3, <4>1 DEF PublishFails
      <4>3. Shows(store[Latest])'
        BY <3>1, <4>1, <4>2 DEF Shows
      <4>4. ConcurrentRunsFormChain'
        BY <3>1 DEF ChainInv, ConcurrentRunsFormChain
      <4> QED
        BY <1>4, <3>1, <4>3, <4>4
    <3> QED
      BY <3>2, <3>3
  <2> QED
    BY <1>6, <2>3, <2>4, <2>5, <2>6, <2>7, <2>8, <2>9 DEF Publish, RestoreFails
<1>7. CASE b \in Pruners /\ Prune(b)
  <2>1. store'[Latest] = store[Latest]
    BY <1>7, PruningWrites
  <2> QED
    BY <1>5, <1>7, <2>1, OwnPrune DEF Prune, RequestPrune, RemoveEntry, EndPrune
<1>8. CASE b \in Readers /\ Read(b)
  BY <1>1, <1>5, <1>8 DEF Read, ListRuns, LoadRun, RoleInv, PublisherStates, Ended
<1> QED
  BY <1>6, <1>7, <1>8 DEF StepOf, Crash

(* When each publisher has a run of its own, none is killed, no rollback   *)
(* fails and no run is deleted meanwhile, the runs that became latest form one chain: each     *)
(* links to the one before it, in the order in which they became latest,   *)
(* whatever renderings crossed and whatever publications failed.           *)
THEOREM RunsFormChain ==
  ASSUME OneRunEach, Deleters = {}, Faults \subseteq {"error"}
  PROVE  Spec => []ConcurrentRunsFormChain
<1>1. ChainInv /\ UNCHANGED vars => ChainInv'
  BY DEF vars, ChainInv, ConcurrentRunsFormChain, Shows, Predecessor
<1>2. StoreInv /\ OwnInv /\ ChainInv /\ [Next]_vars => ChainInv'
  BY <1>1, ChainStep, NextByActor
<1>3. ChainInv => ConcurrentRunsFormChain
  BY DEF ChainInv
<1> QED
  BY <1>2, <1>3, ChainInit, OwnInvariant, PTL DEF Spec
==============================================================================
