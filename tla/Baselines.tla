------------------------------ MODULE Baselines ------------------------------
(***************************************************************************)
(* The baseline store (baselines.py) and an engine run's view of it        *)
(* (engine/baseline.py).  Profiles are published as files named by their   *)
(* time; `baseline set` pins one of them, `diff` picks two, and a run      *)
(* resolves the references its drift checks name, from several workers.    *)
(* Clocks may be set back, a writer may die, and somebody may remove a     *)
(* snapshot by hand.                                                       *)
(*                                                                         *)
(* A snapshot's name is its microsecond, 1..Horizon; a file of another name*)
(* in the directory is left out.  A snapshot's content is its writer.      *)
(***************************************************************************)
EXTENDS Integers, FiniteSets, FiniteSetsExt

CONSTANTS
  Writers,    \* calls of write_baseline
  Workers,    \* engine workers that resolve a reference
  Refs,       \* what they resolve: Latest or a name
  Horizon,    \* bound on times
  NoFile

(* A writer's name is not one of the words for the state of a read.        *)
ASSUME BaselinesAssumption ==
  /\ Horizon \in Nat
  /\ Refs \subseteq 0..Horizon
  /\ {"unread", "unasked", "reading", NoFile} \cap Writers = {}

VARIABLES
  files,      \* the writer of each visible snapshot
  writing,    \* where each writer is
  stamp,      \* the name it tries next
  staged,     \* hidden staging files
  pin,        \* the name in current-baseline.json
  setting,    \* what `baseline set` has selected
  diffing,    \* where a diff is: [stage, listed, current, latest]
  paths,      \* _paths: the name each reference stands for in the run
  sources,    \* _sources: what was read under each name
  answers     \* what each worker got

store   == <<files, writing, stamp, staged>>
pinning == <<pin, setting>>
run     == <<paths, sources, answers>>
books   == <<store, pinning, diffing, run>>

Instants == 1..Horizon
Visible == {n \in Instants : files[n] # NoFile}
Newest(names) == Max(names)
Previous(names) == Max(names \ {Max(names)})

(* A reference is a name, or Latest; a path is a name, or none yet, or     *)
(* known to be missing.                                                    *)
Latest == 0
NoPath == -1
MissingPath == 0

------------------------------------------------------------------------------
BaselinesInit ==
  /\ files = [n \in Instants |-> NoFile]
  /\ writing = [w \in Writers |-> "idle"]
  /\ stamp = [w \in Writers |-> 0]
  /\ staged = {}
  /\ pin = 0
  /\ setting = 0
  /\ diffing = [stage |-> "listing", listed |-> {}, current |-> 0, latest |-> 0]
  /\ paths = [r \in Refs |-> NoPath]
  /\ sources = [n \in Instants |-> "unread"]
  /\ answers = [k \in Workers |-> [r \in Refs |-> "unasked"]]

(* write_baseline: read the clock, write and sync a hidden file, ...       *)
Stage(w) ==
  /\ writing[w] = "idle"
  /\ \E now \in Instants : stamp' = [stamp EXCEPT ![w] = now]
  /\ staged' = staged \cup {w}
  /\ writing' = [writing EXCEPT ![w] = "linking"]
  /\ UNCHANGED <<files, pinning, diffing, run>>

(* ... link it under its time, or the next one if that is taken, ...       *)
Replace(w) ==  \* os.replace instead of os.link
  /\ writing[w] = "linking"
  /\ files' = [files EXCEPT ![stamp[w]] = w]
  /\ writing' = [writing EXCEPT ![w] = "cleaning"]
  /\ UNCHANGED <<stamp, staged, pinning, diffing, run>>

Link(w) ==
  /\ writing[w] = "linking"
  /\ IF files[stamp[w]] = NoFile
     THEN /\ files' = [files EXCEPT ![stamp[w]] = w]
          /\ writing' = [writing EXCEPT ![w] = "cleaning"]
          /\ UNCHANGED stamp
     ELSE /\ stamp[w] < Horizon
          /\ stamp' = [stamp EXCEPT ![w] = @ + 1]
          /\ UNCHANGED <<files, writing>>
  /\ UNCHANGED <<staged, pinning, diffing, run>>

(* ... and remove the staging file, whatever happened.                     *)
Unstage(w) ==
  /\ writing[w] \in {"linking", "cleaning"}  \* linking: the disk failed
  /\ staged' = staged \ {w}
  /\ writing' = [writing EXCEPT ![w] = "done"]
  /\ UNCHANGED <<files, stamp, pinning, diffing, run>>

Die(w) ==
  /\ writing[w] \in {"linking", "cleaning"}
  /\ writing' = [writing EXCEPT ![w] = "done"]
  /\ UNCHANGED <<files, stamp, staged, pinning, diffing, run>>

RemoveByHand(n) ==
  /\ files[n] # NoFile
  /\ files' = [files EXCEPT ![n] = NoFile]
  /\ UNCHANGED <<writing, stamp, staged, pinning, diffing, run>>

------------------------------------------------------------------------------
(* set_current_baseline: by name, or the run before the newest.            *)
SelectCurrent ==
  /\ setting = 0
  /\ Visible # {}
  /\ \/ setting' = IF Cardinality(Visible) = 1 THEN Newest(Visible) ELSE Previous(Visible)
     \/ setting' \in Visible
  /\ UNCHANGED <<store, pin, diffing, run>>

WritePin ==
  /\ setting # 0
  /\ \/ pin' = setting
     \/ UNCHANGED pin  \* the disk failed
  /\ setting' = 0
  /\ UNCHANGED <<store, diffing, run>>

(* resolve_diff_baselines without names: the listing, the pin, and the     *)
(* listing that get_current_baseline makes to check it.                    *)
ListForDiff ==
  /\ diffing.stage = "listing"
  /\ diffing' = [diffing EXCEPT !.listed = Visible,
                                !.stage = IF Cardinality(Visible) < 2 THEN "missing" ELSE "pin"]
  /\ UNCHANGED <<store, pinning, run>>

ReadCurrent ==
  /\ diffing.stage = "pin"
  /\ diffing' =
       IF pin # 0 /\ pin \notin Visible THEN [diffing EXCEPT !.stage = "missing"]
       ELSE [diffing EXCEPT !.latest = Newest(diffing.listed), !.stage = "resolved",
                            !.current = IF pin = 0 THEN Previous(diffing.listed) ELSE pin]
  /\ UNCHANGED <<store, pinning, run>>

------------------------------------------------------------------------------
(* DirectoryBaselineProvider.resolve: the reference's path is chosen once  *)
(* per run, a missing one included, ...                                    *)
PathFor(r) ==
  IF r = Latest /\ Visible # {} THEN Newest(Visible)
  ELSE IF r \in Visible THEN r ELSE MissingPath

(* The worker that reads holds the provider's lock.                        *)
LockIsFree == \A k \in Workers, r \in Refs : answers[k][r] # "reading"

PathInRun(r) == IF paths[r] = NoPath THEN PathFor(r) ELSE paths[r]

ChoosePath(k, r, known) ==
  /\ answers[k][r] = "unasked" /\ LockIsFree
  /\ paths' = [paths EXCEPT ![r] = PathInRun(r)]
  /\ answers' = [answers EXCEPT ![k][r] = IF PathInRun(r) = MissingPath THEN "missing"
                                          ELSE IF PathInRun(r) \in known THEN sources[PathInRun(r)]
                                          ELSE "reading"]
  /\ UNCHANGED <<store, pinning, diffing, sources>>

ResolveUncached(k, r) == ChoosePath(k, r, {})  \* remembers the path, reads it every time
Resolve(k, r) == ChoosePath(k, r, {n \in Instants : sources[n] # "unread"})

(* ... and each path is read once: one that cannot be read, or has gone    *)
(* since it was chosen, is remembered as invalid.                          *)
ReadSource(k, r) ==
  LET text == IF files[paths[r]] = NoFile THEN "invalid" ELSE files[paths[r]]
  IN  /\ answers[k][r] = "reading"
      /\ sources' = [sources EXCEPT ![paths[r]] = text]
      /\ answers' = [answers EXCEPT ![k][r] = text]
      /\ UNCHANGED <<store, pinning, diffing, paths>>

Served(k, r) == answers[k][r] \notin {"unasked", "reading"}

(* Engine.run with the same provider again: fresh() forgets everything.    *)
Fresh ==
  /\ \A k \in Workers, r \in Refs : Served(k, r)
  /\ paths' = [r \in Refs |-> NoPath]
  /\ sources' = [n \in Instants |-> "unread"]
  /\ answers' = [k \in Workers |-> [r \in Refs |-> "unasked"]]
  /\ UNCHANGED <<store, pinning, diffing>>

BaselinesNext ==
  \/ \E w \in Writers : Stage(w) \/ Link(w) \/ Unstage(w) \/ Die(w)
  \/ \E n \in Instants : RemoveByHand(n)
  \/ SelectCurrent \/ WritePin \/ ListForDiff \/ ReadCurrent
  \/ \E k \in Workers, r \in Refs : Resolve(k, r) \/ ReadSource(k, r)
  \/ Fresh

BaselinesSpec == BaselinesInit /\ [][BaselinesNext]_books

------------------------------------------------------------------------------
(* A published snapshot keeps its content for as long as it is there,      *)
(* whatever the clocks of later writers say (SPEC-05: collisions "retry    *)
(* without replacement"): baseline_ref and the pin name what they named.   *)
SnapshotsArePermanent ==
  \A n \in Instants : files[n] # NoFile => files'[n] \in {files[n], NoFile}

(* All checks of a run that name one baseline are measured against the same*)
(* snapshot, though profiles are written, removed or written again under   *)
(* the same name meanwhile, also between the choice of a path and its      *)
(* reading; a missing baseline stays missing, an unreadable one unreadable *)
(* (SPEC-05: "pins baseline references (including missing references) on   *)
(* first use").                                                            *)
RunSeesOneBaseline ==
  /\ \A j, k \in Workers, r \in Refs :
       Served(j, r) /\ Served(k, r) => answers[j][r] = answers[k][r]
  /\ \A k \in Workers, q, r \in Refs :
       Served(k, q) /\ Served(k, r) /\ paths[q] = paths[r] => answers[k][q] = answers[k][r]

(* What `diff` compares was published: a pin is followed only to a snapshot*)
(* that is still there, and the newer side is the newest of one listing.   *)
DiffPinIsChecked ==
  diffing.stage = "pin" /\ diffing'.stage = "resolved" =>
    /\ diffing'.latest = Newest(diffing.listed)
    /\ IF pin # 0 THEN diffing'.current \in Visible ELSE diffing'.current < diffing'.latest
==============================================================================
