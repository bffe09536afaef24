-------------------------- MODULE InstallTxnProofs --------------------------
(***************************************************************************)
(* Proofs about one run of the installer, for every file system, package,  *)
(* and set of faults that the assumptions of InstallTxn allow.             *)
(*                                                                         *)
(* The first part is what holds of all packages: the types of the          *)
(* variables, what a revert can give back, and what never happens to what  *)
(* was there before.                                                       *)
(*                                                                         *)
(* The second part is what a run leaves behind it, for every Sound         *)
(* package.  Clean is what holds of the plan, the logs and the disk as     *)
(* long as nothing has been reverted.  It is inductive: the steps come in  *)
(* four kinds (ForwardSteps) - those that only move on, those that write a *)
(* log, those that change the disk in one of five ways (MakesWhat), and    *)
(* the cleaning up - and each part of it is proved for these.              *)
(*                                                                         *)
(* The third part goes on from there to the reverts: that the installer    *)
(* implements AtomicInstall, for every package that is Sound and Succeeds  *)
(* the version before it, in runs in which nothing is injected.            *)
(*                                                                         *)
(* The last part proves that such a revert leaves no debris either.        *)
(***************************************************************************)
EXTENDS InstallTxn, SequenceTheorems, TLAPS

\* What the plan of a run is made of: entries of archives, the destination
\* directory, and tasks about the installer's own files.
PlanTask ==
  {t \in Task :
     /\ t.path \notin Image(Slot)
     /\ t.do = "install" => t \in Entry
     /\ t.do \in {"fetch", "menu", "manifest", "declare"} => t.path \in OwnPaths
     /\ t.do = "put" => t.path \in OwnPaths \/ t.kind = "dir"}

LEMMA DestInPath == Dest \in Path /\ Dest \notin Image(Slot)
BY TreeAssumption, SlotAssumption DEF Image

LEMMA BareIsPlanTask ==
  ASSUME NEW d \in {"gate", "menusdone", "obsolete"}
  PROVE  Bare(d) \in PlanTask
BY DestInPath DEF PlanTask, Bare, Task, Entry

LEMMA DestIsPlanTask == DestTask \in PlanTask
BY DestInPath DEF PlanTask, DestTask, Task, Entry

LEMMA OwnsArePlanTasks ==
  ASSUME NEW d \in {"put", "fetch", "menu", "manifest", "declare"},
         NEW s \in Seq(Path),
         \A i \in DOMAIN s : s[i] \in OwnPaths \ Image(Slot)
  PROVE  Owns(d, s) \in Seq(PlanTask)
<1>1. \A i \in DOMAIN s : Own(d, s[i]) \in PlanTask
  BY DEF PlanTask, Own, Task, Entry
<1>2. QED
  BY <1>1 DEF Owns

LEMMA EntriesArePlanTasks ==
  ASSUME NEW s \in Seq(Entry)
  PROVE  s \in Seq(PlanTask)
<1>1. Entry \subseteq PlanTask
  BY DEF Entry, PlanTask
<1>2. QED
  BY <1>1

\* The files of the installer itself are none of the rollback files.
LEMMA OwnSequences ==
  /\ \A i \in DOMAIN Downloads : Downloads[i] \in OwnPaths \ Image(Slot)
  /\ \A i \in DOMAIN MenuFiles : MenuFiles[i] \in OwnPaths \ Image(Slot)
  /\ \A i \in DOMAIN Scripts : Scripts[i] \in OwnPaths \ Image(Slot)
  /\ \A i \in DOMAIN Manifests : Manifests[i] \in OwnPaths \ Image(Slot)
BY SlotAssumption DEF OwnPaths, Image

\* Whatever the archives hold, the plan is a sequence of such tasks.
LEMMA WorkType ==
  ASSUME NEW archive \in Seq(Entry), NEW control \in Seq(Entry)
  PROVE  Work(archive, control) \in Seq(PlanTask)
<1>1. /\ <<DestTask, Bare("gate")>> \in Seq(PlanTask)
      /\ <<Bare("gate")>> \in Seq(PlanTask)
      /\ <<Bare("menusdone")>> \in Seq(PlanTask)
      /\ <<Bare("obsolete"), Bare("gate")>> \in Seq(PlanTask)
  BY BareIsPlanTask, DestIsPlanTask
<1>2. /\ Owns("fetch", Downloads) \in Seq(PlanTask)
      /\ Owns("menu", MenuFiles) \in Seq(PlanTask)
      /\ Owns("put", Scripts) \in Seq(PlanTask)
      /\ Owns("declare", Manifests) \in Seq(PlanTask)
      /\ Owns("manifest", Manifests) \in Seq(PlanTask)
  BY OwnsArePlanTasks, OwnSequences, SequenceAssumption
<1>3. archive \in Seq(PlanTask) /\ control \in Seq(PlanTask)
  BY EntriesArePlanTasks
<1>4. \A s, t \in Seq(PlanTask) : s \o t \in Seq(PlanTask)
  OBVIOUS
<1>5. QED
  BY <1>1, <1>2, <1>3, <1>4 DEF Work

LEMMA PlanType ==
  ASSUME job \in DOMAIN Scenarios
  PROVE  Plan \in Seq(PlanTask)
BY WorkType, ScenarioAssumption DEF Plan

-----------------------------------------------------------------------------
(* Type correctness. *)

\* Where a task is being done; where backup_file() is at work; where
\* install_parent_dirs() may work for backup_file() or for the task.
Busy    == {"gate", "menusdone", "declare", "permit", "obsolete", "backup",
            "log", "move", "parents", "mkdir", "link", "record", "claim",
            "open", "write", "unclaim", "reclaim", "fetched", "register"}
Nested  == {"backup", "log", "move"}
Between == {"parents", "record"}

Control ==
  /\ pc \in Busy => step >= 1
  /\ pc \in Nested => stack # <<>>
  /\ pc \in (Busy \cup {"task"}) \ (Nested \cup Between) => stack = <<>>
  /\ pc \in Between \cup {"log"} /\ stack # <<>> => SlotsLeft
  /\ pc = "move" => rollbacks # <<>>
  /\ torn # {} => "signal" \in Faults

TypeInv == TypeOK /\ Control

\* What depends on the scenario only never changes.
LEMMA Fixed ==
  ASSUME job' = job
  PROVE  /\ Plan' = Plan /\ old' = old /\ before' = before
         /\ oldFiles' = oldFiles /\ oldDirs' = oldDirs
         /\ links' = links /\ Taken' = Taken /\ Ceded' = Ceded
BY DEF Plan, old, before, oldFiles, oldDirs, links, Taken, Ceded

LEMMA JobFixed ==
  ASSUME [Next]_vars
  PROVE  /\ job' = job /\ torn \subseteq torn' /\ (~Signal => torn' = torn)
         /\ fate' = "open" => fate = "open"
BY DEF Next, Run, Install, Cleanup, Revert, StartTask, Gate, MenusInstalled,
   Declare, PermitWrite, PickObsolete, BackupDescend, BackupReady,
   LogRollback, MoveAway, MakeParent, ParentsDone, MakeEntryDir, MakeLink,
   Record, Claim, OpenFile, WriteFile, Unclaim, Reclaim, Fetched,
   RegisterMenu, FinishStages, DropSlots, DropDownloads, DropScratch,
   DropDirs, Forget, Show, RevertMenus, RevertDownloads, RevertFiles,
   Rollback, RevertScratch, Sweep, Signal, Kill, Ending, vars

LEMMA InitType == Init => TypeInv
<1> SUFFICES ASSUME Init PROVE TypeInv
  OBVIOUS
<1>1. Plan \in Seq(PlanTask)
  BY PlanType DEF Init
<1>2. fs \in [Path -> Node]
  BY ScenarioAssumption DEF Init, before
<1>3. /\ rollbacks \in Seq(Path) /\ Len(rollbacks) <= Len(Slot)
      /\ stack \in Seq(Path) /\ step \in 0 .. Len(Plan)
  BY <1>1, SequenceAssumption DEF Init
<1>4. TypeOK
  BY <1>2, <1>3, DestInPath DEF Init, TypeOK, Labels
<1>5. Control
  BY DEF Init, Control, Busy, Nested, Between
<1>6. QED
  BY <1>4, <1>5 DEF TypeInv

\* What the file system operations yield.
LEMMA Nodes ==
  /\ Absent \in Node /\ Dir \in Node
  /\ \A p \in Path : Prior(p) \in Node /\ Partial(p) \in Node /\ New(p) \in Node
BY DestInPath DEF Node, Absent, Dir, Prior, Partial, New

LEMMA MovedType ==
  ASSUME fs \in [Path -> Node], NEW p \in Path, NEW q \in Path
  PROVE  Moved(p, q) \in [Path -> Node]
BY Nodes DEF Moved

LEMMA MoveFailedType ==
  ASSUME fs \in [Path -> Node], NEW p \in Path, NEW q \in Path, MoveFailed(p, q)
  PROVE  fs' \in [Path -> Node]
BY Nodes DEF MoveFailed

LEMMA TryDeleteType ==
  ASSUME fs \in [Path -> Node], NEW p \in Path, TryDelete(p)
  PROVE  fs' \in [Path -> Node]
BY Nodes DEF TryDelete, Deleted

LEMMA MakeDirType ==
  ASSUME fs \in [Path -> Node], made \in Path, NEW a \in Path, MakeDir(a)
  PROVE  /\ fs' \in [Path -> Node] /\ made' \in Path
         /\ pc' \in {"record", "revert"}
BY Nodes DEF MakeDir, Goto, Fatal

LEMMA Singleton == \A p \in Path : <<p>> \in Seq(Path)
OBVIOUS

LEMMA StackType ==
  ASSUME stack \in Seq(Path), stack # <<>>
  PROVE  Top \in Path /\ Pop \in Seq(Path)
BY DEF Top, Pop

\* The loops over a list keep everything but the list and the file system.
LEMMA SweepType ==
  ASSUME TypeInv, NEW here, NEW next \in Labels \ (Busy \cup {"task"}),
         here \notin Busy \cup {"task"},
         NEW queue \in SUBSET Path, Sweep(here, next, queue)
  PROVE  TypeInv'
<1>1. Plan' = Plan /\ old' = old
  BY Fixed DEF Sweep
<1>2. fs' \in [Path -> Node] /\ rest' \subseteq Path
  BY TryDeleteType DEF Sweep, TypeInv, TypeOK, Latest
<1>3. TypeOK'
  BY <1>1, <1>2 DEF Sweep, TypeInv, TypeOK, Goto, logs, menuv
<1>4. Control'
  BY DEF Sweep, TypeInv, Control, Goto, logs, menuv, Busy, Nested, Between
<1>5. QED
  BY <1>3, <1>4 DEF TypeInv

LEMMA InstallType ==
  ASSUME TypeInv, Install
  PROVE  TypeInv'
<1> USE DEF Goto, Fatal, logs, menuv, ctl
<1>1. job' = job
  BY DEF Install, StartTask, Gate, MenusInstalled,
   Declare, PermitWrite, PickObsolete, BackupDescend, BackupReady,
   LogRollback, MoveAway, MakeParent, ParentsDone, MakeEntryDir, MakeLink,
   Record, Claim, OpenFile, WriteFile, Unclaim, Reclaim, Fetched,
   RegisterMenu
<1>2. Plan' = Plan /\ old' = old
  BY <1>1, Fixed
<1>3. Plan \in Seq(PlanTask)
  BY PlanType DEF TypeInv, TypeOK
<1>4. pc \in Busy => cur \in Task
  BY <1>3 DEF TypeInv, TypeOK, Control, cur, PlanTask
<1>5. pc \in Busy => cur.path \in Path
  BY <1>4 DEF Task
<1>6. CASE StartTask
  <2>1. Plan[step + 1] \in Task /\ step + 1 \in 0 .. Len(Plan)
    BY <1>3, <1>6 DEF StartTask, TypeInv, TypeOK, PlanTask
  <2>2. FirstStep[Plan[step + 1].do] \in
           {"gate", "permit", "parents", "menusdone", "obsolete", "declare"}
    BY <2>1 DEF Task, FirstStep
  <2>3. TypeOK'
    BY <1>1, <1>2, <1>6, <2>1, <2>2 DEF StartTask, TypeInv, TypeOK, Labels
  <2>4. Control'
    BY <1>6, <2>1, <2>2 DEF StartTask, TypeInv, TypeOK, Control, Busy, Nested, Between
  <2>5. QED
    BY <2>3, <2>4 DEF TypeInv
<1>7. CASE Gate \/ MenusInstalled \/ RegisterMenu \/ Fetched
  <2>1. TypeOK'
    BY <1>1, <1>2, <1>5, <1>7 DEF Gate, MenusInstalled, RegisterMenu, Fetched,
       TypeInv, TypeOK, Labels, Reverting, Busy
  <2>2. Control'
    BY <1>7 DEF Gate, MenusInstalled, RegisterMenu, Fetched, TypeInv, Control,
       Busy, Nested, Between
  <2>3. QED
    BY <2>1, <2>2 DEF TypeInv
<1>8. CASE Declare \/ Claim \/ Unclaim \/ Reclaim \/ Record
  <2>1. TypeOK'
    BY <1>1, <1>2, <1>5, <1>8 DEF Declare, Claim, Unclaim, Reclaim, Record,
       Enter, TypeInv, TypeOK, Labels, Busy
  <2>2. Control'
    BY <1>8 DEF Declare, Claim, Unclaim, Reclaim, Record, TypeInv, Control,
       Busy, Nested, Between, SlotsLeft
  <2>3. QED
    BY <2>1, <2>2 DEF TypeInv
<1>9. CASE PermitWrite
  <2>1. stack' = stack \/ stack' = <<cur.path>>
    BY <1>9 DEF PermitWrite
  <2>2. stack' \in Seq(Path)
    BY <1>5, <1>9, <2>1, Singleton DEF PermitWrite, TypeInv, TypeOK, Busy
  <2>3. TypeOK'
    BY <1>1, <1>2, <1>9, <2>2 DEF PermitWrite, Answers, TypeInv, TypeOK, Labels
  <2>4. Control'
    BY <1>9 DEF PermitWrite, TypeInv, Control, Busy, Nested, Between
  <2>5. QED
    BY <2>3, <2>4 DEF TypeInv
<1>10. CASE PickObsolete
  <2>1. Obsolete \subseteq Path
    BY ScenarioAssumption DEF Obsolete, oldFiles, TypeInv, TypeOK
  <2>2. stack' = stack \/ \E p \in Path : stack' = <<p>>
    BY <1>10, <2>1 DEF PickObsolete
  <2>3. TypeOK'
    BY <1>1, <1>2, <1>10, <2>2, Singleton DEF PickObsolete, TypeInv, TypeOK, Labels
  <2>4. Control'
    BY <1>10 DEF PickObsolete, TypeInv, Control, Busy, Nested, Between
  <2>5. QED
    BY <2>3, <2>4 DEF TypeInv
<1>11. CASE BackupDescend
  <2>1. stack' \in Seq(Path) /\ stack' # <<>>
    BY <1>11 DEF BackupDescend, Children, TypeInv, TypeOK
  <2>2. TypeOK'
    BY <1>1, <1>2, <1>11, <2>1 DEF BackupDescend, TypeInv, TypeOK, Labels
  <2>3. Control'
    BY <1>11, <2>1 DEF BackupDescend, TypeInv, Control, Busy, Nested, Between
  <2>4. QED
    BY <2>2, <2>3 DEF TypeInv
<1>12. CASE BackupReady
  <2>1. TypeOK'
    BY <1>1, <1>2, <1>12 DEF BackupReady, TypeInv, TypeOK, Labels
  <2>2. Control'
    BY <1>12 DEF BackupReady, TypeInv, Control, Busy, Nested, Between, SlotsLeft
  <2>3. QED
    BY <2>1, <2>2 DEF TypeInv
<1>13. CASE LogRollback
  <2>1. Top \in Path
    BY <1>13, StackType DEF LogRollback, TypeInv, TypeOK, Control, Nested
  <2>2. /\ rollbacks' \in Seq(Path) /\ rollbacks' # <<>>
        /\ Len(rollbacks') <= Len(Slot)
    BY <1>13, <2>1, SequenceAssumption DEF LogRollback, SlotsLeft, TypeInv, TypeOK
  <2>3. TypeOK'
    BY <1>1, <1>2, <1>13, <2>2 DEF LogRollback, TypeInv, TypeOK, Labels
  <2>4. Control'
    BY <1>13, <2>2 DEF LogRollback, TypeInv, Control, Busy, Nested, Between
  <2>5. QED
    BY <2>3, <2>4 DEF TypeInv
<1>14. CASE MoveAway
  <2>1. Top \in Path /\ Pop \in Seq(Path)
    BY <1>14, StackType DEF MoveAway, TypeInv, TypeOK, Control, Nested
  <2>2. Slot[Len(rollbacks)] \in Path
    BY <1>14, SequenceAssumption DEF MoveAway, TypeInv, TypeOK, Control
  <2>3. fs' \in [Path -> Node]
    BY <1>14, <2>1, <2>2, MovedType, MoveFailedType DEF MoveAway, TypeInv, TypeOK
  <2>4. /\ pc' \in {"backup", "obsolete", "parents", "revert"}
        /\ stack' \in Seq(Path)
        /\ pc' = "backup" => stack' # <<>>
        /\ pc' \in {"obsolete", "parents"} => stack' = <<>>
    BY <1>14, <2>1 DEF MoveAway, TypeInv, TypeOK
  <2>5. seen' \subseteq old
    BY <1>14 DEF MoveAway, TypeInv, TypeOK
  <2>6. TypeOK'
    BY <1>1, <1>2, <1>14, <2>3, <2>4, <2>5
    DEF MoveAway, TypeInv, TypeOK, Labels, Reverting
  <2>7. Control'
    BY <1>14, <2>4 DEF MoveAway, TypeInv, Control, Busy, Nested, Between
  <2>8. QED
    BY <2>6, <2>7 DEF TypeInv
<1>15. CASE MakeParent \/ MakeEntryDir
  <2>1. pc \in {"parents", "mkdir"} /\ (pc = "mkdir" => stack = <<>>)
    BY <1>15 DEF MakeParent, MakeEntryDir, TypeInv, Control, Busy, Nested, Between
  <2>2. Target \in Path \/ pc = "mkdir"
    BY <1>5, <2>1, SequenceAssumption
    DEF Target, NextSlot, SlotsLeft, TypeInv, TypeOK, Control, Busy, Between
  <2>3. \E a \in Path : MakeDir(a)
    BY <1>5, <1>15, <2>1, <2>2, TreeAssumption
    DEF MakeParent, MakeEntryDir, Missing, Busy
  <2>4. /\ fs' \in [Path -> Node] /\ made' \in Path
        /\ pc' \in {"record", "revert"}
    BY <2>3, MakeDirType DEF TypeInv, TypeOK
  <2>5. TypeOK'
    BY <1>1, <1>2, <1>15, <2>4
    DEF MakeParent, MakeEntryDir, TypeInv, TypeOK, Labels, Reverting
  <2>6. Control'
    BY <1>15, <2>1, <2>4
    DEF MakeParent, MakeEntryDir, TypeInv, Control, Busy, Nested, Between,
        SlotsLeft
  <2>7. QED
    BY <2>5, <2>6 DEF TypeInv
<1>16. CASE ParentsDone
  <2>1. Create \in {"mkdir", "link", "open", "claim"}
    BY DEF Create
  <2>2. TypeOK'
    BY <1>1, <1>2, <1>16, <2>1 DEF ParentsDone, TypeInv, TypeOK, Labels
  <2>3. Control'
    BY <1>16, <2>1 DEF ParentsDone, TypeInv, Control, Busy, Nested, Between,
       SlotsLeft
  <2>4. QED
    BY <2>2, <2>3 DEF TypeInv
<1>17. CASE MakeLink \/ OpenFile \/ WriteFile
  <2>1. fs' \in [Path -> Node] /\ made' \in Path
    BY <1>5, <1>17, Nodes DEF MakeLink, OpenFile, WriteFile, TypeInv, TypeOK, Busy
  <2>2. pc' \in {"record", "revert", "write", "fetched", "task", "unclaim"}
    BY <1>17 DEF MakeLink, OpenFile, WriteFile
  <2>3. TypeOK'
    BY <1>1, <1>2, <1>17, <2>1, <2>2
    DEF MakeLink, OpenFile, WriteFile, TypeInv, TypeOK, Labels, Reverting
  <2>4. Control'
    BY <1>17, <2>2 DEF MakeLink, OpenFile, WriteFile, TypeInv, Control, Busy,
       Nested, Between, SlotsLeft
  <2>5. QED
    BY <2>3, <2>4 DEF TypeInv
<1>18. QED
  BY <1>6, <1>7, <1>8, <1>9, <1>10, <1>11, <1>12, <1>13, <1>14, <1>15, <1>16,
     <1>17 DEF Install

LEMMA NoRollbacks == <<>> \in Seq(Path) /\ Len(<<>>) <= Len(Slot)
<1>1. Len(Slot) \in Nat
  BY SequenceAssumption
<1>2. QED
  BY <1>1

LEMMA ScratchDirsInPath == ScratchDirs \subseteq Path
BY TreeAssumption

LEMMA CleanupType ==
  ASSUME TypeInv, Cleanup
  PROVE  TypeInv'
<1> USE DEF Goto, logs, menuv, ctl
<1>1. ObsoleteDirs \subseteq Path /\ downloads \subseteq Path
  BY ScenarioAssumption DEF ObsoleteDirs, oldDirs, TypeInv, TypeOK
<1>2. CASE FinishStages
  <2>1. {Slot[i] : i \in 1 .. Len(rollbacks)} \subseteq Path
    BY SequenceAssumption DEF TypeInv, TypeOK
  <2>2. Plan' = Plan /\ old' = old
    BY <1>2, Fixed DEF FinishStages
  <2>3. /\ rollbacks' \in Seq(Path) /\ Len(rollbacks') <= Len(Slot)
        /\ rest' \subseteq Path
    BY <1>2, <2>1, NoRollbacks DEF FinishStages, TypeInv, TypeOK
  <2>4. TypeOK'
    BY <1>2, <2>2, <2>3 DEF FinishStages, TypeInv, TypeOK, Labels
  <2>5. Control'
    BY <1>2 DEF FinishStages, TypeInv, Control, Busy, Nested, Between
  <2>6. QED
    BY <2>4, <2>5 DEF TypeInv
<1>3. CASE DropSlots \/ DropDownloads \/ DropScratch
  <2>1. DropSlots => TypeInv'
    BY <1>1, SweepType DEF DropSlots, Labels, Busy
  <2>2. DropDownloads => TypeInv'
    BY ScratchDirsInPath, SweepType DEF DropDownloads, Labels, Busy
  <2>3. DropScratch => TypeInv'
    BY <1>1, SweepType DEF DropScratch, Labels, Busy
  <2>4. QED
    BY <1>3, <2>1, <2>2, <2>3
<1>4. CASE DropDirs
  <2>1. Plan' = Plan /\ old' = old
    BY <1>4, Fixed DEF DropDirs
  <2>2. fs' \in [Path -> Node] /\ rest' \subseteq Path
    BY <1>4, TryDeleteType DEF DropDirs, TypeInv, TypeOK
  <2>3. TypeOK'
    BY <1>4, <2>1, <2>2 DEF DropDirs, TypeInv, TypeOK, Labels
  <2>4. Control'
    BY <1>4 DEF DropDirs, TypeInv, Control, Busy, Nested, Between
  <2>5. QED
    BY <2>3, <2>4 DEF TypeInv
<1>5. CASE Forget \/ Show
  <2>1. Plan' = Plan /\ old' = old
    BY <1>5, Fixed DEF Forget, Show
  <2>2. rollbacks' \in Seq(Path) /\ Len(rollbacks') <= Len(Slot)
    BY <1>5, NoRollbacks DEF Forget, Show, TypeInv, TypeOK
  <2>3. TypeOK'
    <3>1. CASE Forget
      BY <2>1, <2>2, <3>1 DEF Forget, TypeInv, TypeOK, Labels
    <3>2. CASE Show
      BY <2>1, <2>2, <3>2 DEF Show, TypeInv, TypeOK, Labels, Ended
    <3>3. QED
      BY <1>5, <3>1, <3>2
  <2>4. Control'
    BY <1>5 DEF Forget, Show, TypeInv, Control, Busy, Nested, Between
  <2>5. QED
    BY <2>3, <2>4 DEF TypeInv
<1>6. QED
  BY <1>2, <1>3, <1>4, <1>5 DEF Cleanup

LEMMA RevertType ==
  ASSUME TypeInv, Revert
  PROVE  TypeInv'
<1> USE DEF Goto, logs, menuv, ctl
<1>1. CASE RevertMenus
  <2>1. Plan' = Plan /\ old' = old
    BY <1>1, Fixed DEF RevertMenus
  <2>2. TypeOK'
    BY <1>1, <2>1 DEF RevertMenus, TypeInv, TypeOK, Labels, Reverting, Ended
  <2>3. Control'
    BY <1>1 DEF RevertMenus, TypeInv, Control, Busy, Nested, Between
  <2>4. QED
    BY <2>2, <2>3 DEF TypeInv
<1>2. CASE RevertDownloads \/ RevertFiles \/ RevertScratch
  <2>1. Condemned \subseteq Path
    BY DEF Condemned, TypeInv, TypeOK
  <2>2. RevertDownloads => TypeInv'
    BY <2>1, SweepType DEF RevertDownloads, Labels, Busy, Reverting
  <2>3. RevertFiles => TypeInv'
    BY SweepType DEF RevertFiles, Labels, Busy, Reverting
  <2>4. RevertScratch => TypeInv'
    BY SweepType DEF RevertScratch, Labels, Busy, Ended
  <2>5. QED
    BY <1>2, <2>2, <2>3, <2>4
<1>3. CASE Rollback
  <2>1. Plan' = Plan /\ old' = old
    BY <1>3, Fixed DEF Rollback
  <2>2. CASE Len(rollbacks) = 0
    <3>1. TypeOK'
      BY <1>3, <2>1, <2>2, ScratchDirsInPath
      DEF Rollback, TypeInv, TypeOK, Labels, Reverting
    <3>2. Control'
      BY <1>3, <2>2 DEF Rollback, TypeInv, Control, Busy, Nested, Between
    <3>3. QED
      BY <3>1, <3>2 DEF TypeInv
  <2>3. CASE Len(rollbacks) # 0
    <3>1. /\ Len(rollbacks) \in DOMAIN rollbacks /\ Len(rollbacks) \in DOMAIN Slot
          /\ SubSeq(rollbacks, 1, Len(rollbacks) - 1) \in Seq(Path)
          /\ Len(SubSeq(rollbacks, 1, Len(rollbacks) - 1)) <= Len(Slot)
      BY <2>3, SequenceAssumption DEF TypeInv, TypeOK
    <3>2. rollbacks[Len(rollbacks)] \in Path /\ Slot[Len(rollbacks)] \in Path
      BY <3>1, SequenceAssumption DEF TypeInv, TypeOK
    <3>3. fs' \in [Path -> Node]
      BY <1>3, <2>3, <3>2, MovedType, MoveFailedType DEF Rollback, TypeInv, TypeOK
    <3>4. TypeOK'
      BY <1>3, <2>1, <2>3, <3>1, <3>3 DEF Rollback, TypeInv, TypeOK
    <3>5. Control'
      BY <1>3, <2>3 DEF Rollback, TypeInv, Control, Busy, Nested, Between
    <3>6. QED
      BY <3>4, <3>5 DEF TypeInv
  <2>4. QED
    BY <2>2, <2>3
<1>4. QED
  BY <1>1, <1>2, <1>3 DEF Revert

\* A move that is cut short changes one path, if any.
LEMMA CutShortType ==
  ASSUME fs \in [Path -> Node], NEW p \in Path, NEW q \in Path
  PROVE  CutShort(p, q) \subseteq [Path -> Node]
BY Nodes DEF CutShort

LEMMA InterruptedType ==
  ASSUME TypeInv, fs' \in Interrupted
  PROVE  fs' \in [Path -> Node]
<1> DEFINE id == Len(rollbacks)
<1>1. CASE pc = "move"
  <2>1. Top \in Path
    BY <1>1, StackType DEF TypeInv, TypeOK, Control, Nested
  <2>2. Slot[id] \in Path
    BY <1>1, SequenceAssumption DEF TypeInv, TypeOK, Control
  <2>3. QED
    BY <1>1, <2>1, <2>2, CutShortType DEF Interrupted, TypeInv, TypeOK
<1>2. CASE pc = "rollback" /\ id # 0
  <2>1. Slot[id] \in Path /\ rollbacks[id] \in Path
    BY <1>2, SequenceAssumption DEF TypeInv, TypeOK
  <2>2. QED
    BY <1>2, <2>1, CutShortType DEF Interrupted, TypeInv, TypeOK
<1>3. CASE ~(pc = "move" \/ (pc = "rollback" /\ id # 0))
  BY <1>3 DEF Interrupted, TypeInv, TypeOK
<1>4. QED
  BY <1>1, <1>2, <1>3

LEMMA StopType ==
  ASSUME TypeInv, Signal \/ Kill \/ UNCHANGED vars
  PROVE  TypeInv'
<1> USE DEF Goto, Fatal, logs, menuv, ctl
<1>1. Plan' = Plan /\ old' = old
  BY Fixed DEF Signal, Kill, vars
<1>2. CASE Signal \/ Kill
  <2>1. fs' \in [Path -> Node]
    BY <1>2, InterruptedType DEF Signal, Kill
  <2>2. torn' \subseteq Path
    <3>1. pc = "move" => Top \in Path
      BY StackType DEF TypeInv, TypeOK, Control, Nested
    <3>2. QED
      BY <1>2, <3>1 DEF Signal, Kill, TypeInv, TypeOK
  <2>3. TypeOK'
    BY <1>1, <1>2, <2>1, <2>2
    DEF Signal, Kill, TypeInv, TypeOK, Labels, Reverting, Ended
  <2>4. Control'
    BY <1>2 DEF Signal, Kill, TypeInv, Control, Busy, Nested, Between
  <2>5. QED
    BY <2>3, <2>4 DEF TypeInv
<1>3. CASE UNCHANGED vars
  BY <1>1, <1>3 DEF vars, TypeInv, TypeOK, Control, SlotsLeft
<1>4. QED
  BY <1>2, <1>3

LEMMA NextType == TypeInv /\ [Next]_vars => TypeInv'
BY InstallType, CleanupType, RevertType, StopType DEF Next, Run, Ending

\* Every variable always has its type; in particular the installer never
\* looks for a rollback file name, a task or a path that is not there.
THEOREM TypeCorrect == Spec => []TypeOK
<1>1. Init => TypeInv
  BY InitType
<1>2. TypeInv /\ [Next]_vars => TypeInv'
  BY NextType
<1>3. TypeInv => TypeOK
  BY DEF TypeInv
<1>4. QED
  BY <1>1, <1>2, <1>3, PTL DEF Spec

THEOREM TypeInvariant == Spec => []TypeInv
BY InitType, NextType, PTL DEF Spec

-----------------------------------------------------------------------------
(* No object of the user is lost.                                          *)
(*                                                                         *)
(* Safe strengthens NothingLost until it is inductive, as long as the      *)
(* rollbacks have not been dropped.  An object that counts (Needed) leaves *)
(* its place only for a rollback file that is empty, and the rollbacks are *)
(* undone from the last, so that the one that holds the original is undone *)
(* after those of what was installed over it.                              *)

\* The paths whose objects are never lost.
Owed == Protected \ (Taken \cup torn)

\* q holds such an object.
Needed(q) == fs[q].kind = "prior" /\ fs[q].of \in Owed

\* After "never", backup_file() only works on what gives way unasked.
Yields(p) == ({p} \cup Above[p]) \cap Ceded # {}
Yielding  == force = "never" => \A i \in DOMAIN stack : Yields(stack[i])

Cleaning == {"dropslots", "dropdownloads", "dropscratch", "dropdirs", "forget"}
Undoing  == {"rollback", "rmscratch"} \cup Ended

\* The user's objects are where they were, or in rollback files.
InPlace ==
  \A q \in Path : Needed(q) =>
    /\ before[fs[q].of] = fs[q]
    /\ fs[q].of = q \/ q \in Image(Slot)

\* A rollback file holds what was moved there; the next one is free.
SlotsHold ==
  /\ \A i \in DOMAIN rollbacks :
       Needed(Slot[i]) => fs[Slot[i]].of = rollbacks[i]
  /\ pc \notin Reverting \cup Ended =>
       \A i \in DOMAIN Slot :
         i > Len(rollbacks) \/ (pc = "move" /\ i = Len(rollbacks)) =>
           fs[Slot[i]] = Absent

\* A signal came when rollback i had been copied, and its original was there.
Whole(i) ==
  /\ pc \in Reverting \cup Ended
  /\ fs[Slot[i]] = fs[rollbacks[i]]
  /\ force = "never" => Yields(rollbacks[i])

\* An object still, or again, in its place has no rollback file, unless it is a
\* copy of it, and the one rollback of a path that holds the original is the
\* first that holds anything.
OldestFirst ==
  /\ \A i \in DOMAIN rollbacks :
       Needed(rollbacks[i]) => fs[Slot[i]] = Absent \/ Whole(i)
  /\ \A i, j \in DOMAIN rollbacks :
       i < j /\ rollbacks[i] = rollbacks[j] /\ Needed(Slot[j]) =>
         fs[Slot[i]] = Absent

Saved ==
  \A p \in Owed : IsObject(before[p]) =>
    \/ fs[p] = before[p]
    \/ \E i \in DOMAIN Slot : fs[Slot[i]] = before[p]

\* What a revert would delete is none of the user's.
Expendable ==
  /\ manifest \cap Image(Slot) = {}
  /\ downloads \subseteq OwnPaths \ Image(Slot)
  /\ pc \notin Undoing => \A p \in manifest : ~Needed(p)
  /\ pc = "rmdownloads" => rest \subseteq downloads
  /\ pc = "rmfiles" => rest \subseteq manifest
  /\ pc = "rmscratch" => rest \subseteq ScratchDirs
  /\ pc \notin Cleaning

\* backup_file() is at work on the path to be replaced, or on what is in it,
\* and never on the rollback files.
Backing ==
  /\ \A i \in DOMAIN rollbacks : rollbacks[i] \notin Hidden
  /\ \A i \in DOMAIN stack : stack[i] \notin Hidden
  /\ pc \in Nested \cup Between /\ stack # <<>> /\ cur.do # "obsolete" =>
       stack[1] = cur.path
  /\ pc = "move" => rollbacks[Len(rollbacks)] = Top

\* Nothing of the user's is at a path that is about to be written.
Ready ==
  /\ pc \in {"claim", "open", "write", "unclaim", "reclaim"} =>
       ~Needed(cur.path)
  /\ pc \in Between /\ stack = <<>> /\ cur.kind = "file" => ~Needed(cur.path)
  /\ pc = "record" => ~Needed(made) /\ made \notin Image(Slot)
  /\ pc = "fetched" => cur.do = "fetch"
  /\ pc = "declare" => cur.do = "declare"
  /\ pc = "permit" => cur.do = "install"
  /\ pc = "obsolete" => cur.do = "obsolete"
  /\ pc = "mkdir" => cur.kind = "dir"
  /\ pc = "link" => cur.kind = "symlink"

Safe == /\ InPlace /\ SlotsHold /\ OldestFirst /\ Saved
        /\ Expendable /\ Backing /\ Ready

\* What was cut short when the process ended is not moved any more.
SafeInv == fate = "open" => Saved /\ (pc \notin Ended => Safe)

\* A revert, once begun, goes on.
GoesOn ==
  pc \in Reverting \cup Ended => pc' \in Reverting \cup Ended /\ force' = force

LEMMA RevertGoesOn == [Next]_vars => GoesOn
BY DEF GoesOn, Next, Run, Install, Cleanup, Revert, StartTask, Gate,
   MenusInstalled, Declare, PermitWrite, PickObsolete, BackupDescend,
   BackupReady, LogRollback, MoveAway, MakeParent, ParentsDone, MakeEntryDir,
   MakeLink, Record, Claim, OpenFile, WriteFile, Unclaim, Reclaim, Fetched,
   RegisterMenu, FinishStages, DropSlots, DropDownloads, DropScratch,
   DropDirs, Forget, Show, RevertMenus, RevertDownloads, RevertFiles,
   Rollback, RevertScratch, Sweep, Signal, Kill, Ending, vars, Goto, Fatal,
   Reverting, Ended

\* What is kept becomes less at most.
LEMMA OwedFixed ==
  ASSUME UNCHANGED <<job, torn>>
  PROVE  Owed' = Owed
BY Fixed DEF Owed

LEMMA OwedShrinks == [Next]_vars => Owed' \subseteq Owed
<1> SUFFICES ASSUME [Next]_vars PROVE Owed' \subseteq Owed
  OBVIOUS
<1>1. QED
  BY JobFixed, Fixed DEF Owed

LEMMA OwedAreProtected == Owed \subseteq Protected
BY DEF Owed

\* A whole copy stays one as long as neither it nor its original is touched.
LEMMA WholeStays ==
  ASSUME job' = job, GoesOn, NEW i, Whole(i), rollbacks'[i] = rollbacks[i],
         fs'[Slot[i]] = fs[Slot[i]], fs'[rollbacks[i]] = fs[rollbacks[i]]
  PROVE  Whole(i)'
<1>1. Yields(rollbacks[i]) => Yields(rollbacks[i])'
  BY Fixed DEF Yields
<1>2. QED
  BY <1>1 DEF Whole, GoesOn

LEMMA Kinds ==
  /\ Absent.kind = "absent" /\ Dir.kind = "dir"
  /\ \A p : Prior(p).kind = "prior" /\ Prior(p).of = p
  /\ \A p : Partial(p).kind = "partial" /\ New(p).kind = "new"
BY DEF Absent, Dir, Prior, Partial, New

LEMMA MissingIsNone == \A p : ~Exists(p) => ~IsDirectory(p)
BY Kinds DEF Exists, IsDirectory

LEMMA LinksAreProtected ==
  ASSUME TypeInv
  PROVE  links \subseteq Protected
BY ScenarioAssumption DEF links, TypeInv, TypeOK

LEMMA Slots ==
  ASSUME TypeInv
  PROVE  /\ \A i \in DOMAIN Slot : Slot[i] \in Path /\ Slot[i] \in Image(Slot)
         /\ \A i \in DOMAIN rollbacks : i \in DOMAIN Slot /\ rollbacks[i] \in Path
         /\ Image(Slot) \subseteq Path
<1>1. \A i \in DOMAIN Slot : Slot[i] \in Path
  BY SequenceAssumption
<1>2. \A i \in DOMAIN rollbacks : i \in DOMAIN Slot /\ rollbacks[i] \in Path
  BY SequenceAssumption DEF TypeInv, TypeOK
<1>3. QED
  BY <1>1, <1>2 DEF Image

LEMMA Before ==
  ASSUME TypeInv
  PROVE  /\ before \in [Path -> Node]
         /\ \A p \in Path : before[p] \in {Absent, Dir, Prior(p)}
         /\ \A p \in Path : IsObject(before[p]) => before[p] = Prior(p)
         /\ \A p \in Image(Slot) : before[p] = Absent
         /\ \A p \in ScratchDirs : before[p] \in {Absent, Dir}
<1>1. /\ before \in [Path -> Node]
      /\ \A p \in Path : before[p] \in {Absent, Dir, Prior(p)}
      /\ \A p \in Image(Slot) : before[p] = Absent
      /\ \A p \in ScratchDirs : before[p] \in {Absent, Dir}
  BY ScenarioAssumption DEF before, TypeInv, TypeOK
<1>2. QED
  BY <1>1, Kinds DEF IsObject

\* What is in a directory that is not above a rollback file is not either.
LEMMA HiddenChild ==
  ASSUME NEW c \in Path, Parent[c] \notin Hidden, Parent[c] # Root
  PROVE  c \notin Hidden
<1>1. Parent[c] \in Above[c] /\ Parent[c] \in Path
  BY TreeAssumption
<1>2. c \notin Image(Slot)
  BY <1>1 DEF Hidden
<1>3. ASSUME NEW s \in Image(Slot), c \in Above[s]
      PROVE  FALSE
  <2>1. s \in Path
    BY SequenceAssumption DEF Image
  <2>2. Parent[c] \in Above[s]
    BY <1>1, <1>3, <2>1, TreeAssumption
  <2>3. QED
    BY <1>3, <2>2 DEF Hidden
<1>4. QED
  BY <1>2, <1>3 DEF Hidden

\* Writing a path that holds none of the user's objects and is no rollback
\* file is harmless, whether or not the last rollback is forgotten.
LEMMA Harmless ==
  ASSUME TypeInv, Safe, UNCHANGED <<job, torn>>, GoesOn,
         NEW a \in Path, a \notin Image(Slot),
         Needed(a) => \E i \in DOMAIN Slot : fs[Slot[i]] = fs[a],
         NEW n \in Node, n.kind # "prior", fs' = [fs EXCEPT ![a] = n],
         DOMAIN rollbacks' \subseteq DOMAIN rollbacks,
         \A i \in DOMAIN rollbacks' : rollbacks'[i] = rollbacks[i]
  PROVE  /\ InPlace' /\ OldestFirst' /\ Saved'
         /\ \A q \in Path : Needed(q)' => Needed(q)
         /\ \A i \in DOMAIN Slot : fs'[Slot[i]] = fs[Slot[i]]
         /\ \A i \in DOMAIN rollbacks' :
              Needed(Slot[i])' => fs'[Slot[i]].of = rollbacks'[i]
<1>1. before' = before /\ Owed' = Owed
  BY Fixed, OwedFixed
<1>2. fs \in [Path -> Node] /\ fs' \in [Path -> Node]
  BY DEF TypeInv, TypeOK
<1>3. \A q \in Path : q # a => fs'[q] = fs[q]
  BY <1>2
<1>4. fs'[a] = n
  BY <1>2
<1>5. \A q \in Path : Needed(q)' => Needed(q) /\ fs'[q] = fs[q]
  BY <1>1, <1>3, <1>4 DEF Needed
<1>6. \A i \in DOMAIN Slot : fs'[Slot[i]] = fs[Slot[i]]
  BY <1>3, Slots
<1>7. InPlace'
  BY <1>1, <1>5 DEF InPlace, Safe
<1>8. OldestFirst'
  <2>1. ASSUME NEW i \in DOMAIN rollbacks', Needed(rollbacks[i])'
        PROVE  fs'[Slot[i]] = Absent \/ Whole(i)'
    <3>1. i \in DOMAIN rollbacks /\ rollbacks'[i] = rollbacks[i]
      OBVIOUS
    <3>2. /\ fs'[rollbacks[i]] = fs[rollbacks[i]] /\ Needed(rollbacks[i])
          /\ fs'[Slot[i]] = fs[Slot[i]]
      BY <1>5, <1>6, <2>1, <3>1, Slots DEF Needed
    <3>3. QED
      BY <3>1, <3>2, WholeStays DEF OldestFirst, Safe
  <2>2. ASSUME NEW i \in DOMAIN rollbacks', NEW j \in DOMAIN rollbacks',
               i < j, rollbacks'[i] = rollbacks'[j], Needed(Slot[j])'
        PROVE  fs'[Slot[i]] = Absent
    BY <1>5, <1>6, <2>2, Slots DEF OldestFirst, Safe
  <2>3. QED
    BY <2>1, <2>2 DEF OldestFirst, Needed
<1>9. Saved'
  <2> SUFFICES ASSUME NEW p \in Owed, IsObject(before[p])
               PROVE  \/ fs'[p] = before[p]
                      \/ \E i \in DOMAIN Slot : fs'[Slot[i]] = before[p]
    BY <1>1 DEF Saved
  <2>1. p \in Path /\ before[p] = Prior(p)
    BY Before, OwedAreProtected DEF Protected
  <2>2. CASE fs[p] = before[p]
    <3>1. Needed(p)
      BY <2>1, <2>2, Kinds DEF Needed
    <3>2. CASE p = a
      BY <1>6, <2>2, <3>1, <3>2
    <3>3. CASE p # a
      BY <1>3, <2>1, <2>2, <3>3
    <3>4. QED
      BY <3>2, <3>3
  <2>3. CASE \E i \in DOMAIN Slot : fs[Slot[i]] = before[p]
    BY <2>3, <1>6
  <2>4. QED
    BY <2>2, <2>3 DEF Safe, Saved
<1>10. \A i \in DOMAIN rollbacks' :
         Needed(Slot[i])' => fs'[Slot[i]].of = rollbacks'[i]
  BY <1>5, <1>6, Slots DEF SlotsHold, Safe
<1>11. QED
  BY <1>5, <1>6, <1>7, <1>8, <1>9, <1>10

LEMMA SameDisk ==
  ASSUME Safe, UNCHANGED <<job, fs, rollbacks, torn>>, GoesOn
  PROVE  /\ InPlace' /\ OldestFirst' /\ Saved'
         /\ \A q \in Path : Needed(q)' = Needed(q)
         /\ \A i \in DOMAIN rollbacks' :
              Needed(Slot[i])' => fs'[Slot[i]].of = rollbacks'[i]
<1>1. before' = before /\ Owed' = Owed
  BY Fixed, OwedFixed
<1>2. \A q : Needed(q)' = Needed(q)
  BY <1>1 DEF Needed
<1>3. \A i \in DOMAIN rollbacks : Whole(i) => Whole(i)'
  BY WholeStays
<1>4. QED
  BY <1>1, <1>2, <1>3 DEF Safe, InPlace, OldestFirst, Saved, SlotsHold, Needed

\* A rename changes its two paths.
LEMMA MovedValue ==
  ASSUME fs \in [Path -> Node], NEW p \in Path, NEW q \in Path, p # q,
         fs' = Moved(p, q)
  PROVE  /\ fs'[p] = Absent /\ fs'[q] = fs[p]
         /\ \A r \in Path : r \notin {p, q} => fs'[r] = fs[r]
BY DEF Moved

LEMMA ProtectedIsNoSlot == \A p \in Protected : p \in Path /\ p \notin Image(Slot)
BY DEF Protected, OwnPaths

\* backup_file() moves an object into an empty rollback file: nothing is lost,
\* and the file is the first of that path to hold anything of the user's.
LEMMA BackedUp ==
  ASSUME TypeInv, Safe, pc = "move", UNCHANGED <<job, torn, rollbacks>>,
         fs' = Moved(Top, Slot[Len(rollbacks)])
  PROVE  /\ InPlace' /\ OldestFirst' /\ Saved'
         /\ Top \in Path /\ Top \notin Hidden
         /\ fs'[Top] = Absent
         /\ \A q \in Path : q \notin Image(Slot) /\ Needed(q)' => Needed(q)
         /\ \A i \in DOMAIN rollbacks' :
              Needed(Slot[i])' => fs'[Slot[i]].of = rollbacks'[i]
         /\ \A i \in DOMAIN Slot :
              i # Len(rollbacks) => fs'[Slot[i]] = fs[Slot[i]]
<1> DEFINE id == Len(rollbacks)
           here == Slot[id]
<1>1. before' = before /\ Owed' = Owed
  BY Fixed, OwedFixed
<1>2. id \in DOMAIN rollbacks /\ rollbacks[id] = Top
  BY DEF TypeInv, TypeOK, Control, Safe, Backing
<1>3. id \in DOMAIN Slot /\ here \in Path /\ here \in Image(Slot)
  BY <1>2, Slots
<1>4. Top \in Path /\ Top \notin Hidden /\ Top \notin Image(Slot)
  BY <1>2, Slots DEF Safe, Backing, Hidden
<1>5. fs[here] = Absent
  BY <1>3 DEF Safe, SlotsHold, Reverting, Ended
<1>6. /\ fs'[Top] = Absent /\ fs'[here] = fs[Top]
      /\ \A r \in Path : r \notin {Top, here} => fs'[r] = fs[r]
  BY <1>3, <1>4, MovedValue DEF TypeInv, TypeOK
<1>7. \A i \in DOMAIN Slot : i # id => fs'[Slot[i]] = fs[Slot[i]]
  BY <1>3, <1>4, <1>6, Slots, SequenceAssumption
<1>8. \A q \in Path : Needed(q)' =>
        \/ q = here /\ Needed(Top) /\ fs'[q] = fs[Top]
        \/ q # Top /\ q # here /\ Needed(q) /\ fs'[q] = fs[q]
  BY <1>1, <1>3, <1>4, <1>6, Kinds DEF Needed
<1>9. InPlace'
  BY <1>1, <1>3, <1>4, <1>8 DEF Safe, InPlace
<1>10. OldestFirst'
  <2>1. ASSUME NEW i \in DOMAIN rollbacks, Needed(rollbacks[i])'
        PROVE  fs'[Slot[i]] = Absent
    <3>1. rollbacks[i] \in Path /\ rollbacks[i] \notin Image(Slot)
      BY Slots DEF Safe, Backing, Hidden
    <3>2. rollbacks[i] # Top /\ Needed(rollbacks[i])
      BY <1>3, <1>8, <2>1, <3>1
    <3>3. i # id /\ fs[Slot[i]] = Absent
      BY <1>2, <3>2 DEF Safe, OldestFirst, Whole, Reverting, Ended
    <3>4. QED
      BY <1>7, <3>3, Slots
  <2>2. ASSUME NEW i \in DOMAIN rollbacks, NEW j \in DOMAIN rollbacks,
               i < j, rollbacks[i] = rollbacks[j], Needed(Slot[j])'
        PROVE  fs'[Slot[i]] = Absent
    <3>1. i # id /\ fs'[Slot[i]] = fs[Slot[i]]
      BY <1>7, <2>2, Slots DEF TypeInv, TypeOK
    <3>2. CASE j = id
      <4>1. Needed(rollbacks[i])
        BY <1>2, <1>4, <1>3, <1>8, <2>2, <3>2
      <4>2. QED
        BY <3>1, <4>1 DEF Safe, OldestFirst, Whole, Reverting, Ended
    <3>3. CASE j # id
      <4>1. fs'[Slot[j]] = fs[Slot[j]]
        BY <1>7, <3>3, Slots
      <4>2. Needed(Slot[j])
        BY <1>1, <2>2, <4>1 DEF Needed
      <4>3. QED
        BY <2>2, <3>1, <4>2 DEF Safe, OldestFirst
    <3>4. QED
      BY <3>2, <3>3
  <2>3. QED
    BY <2>1, <2>2 DEF OldestFirst
<1>11. Saved'
  <2> SUFFICES ASSUME NEW p \in Owed, IsObject(before[p])
               PROVE  \/ fs'[p] = before[p]
                      \/ \E i \in DOMAIN Slot : fs'[Slot[i]] = before[p]
    BY <1>1 DEF Saved
  <2>1. p \in Path /\ p \notin Image(Slot) /\ before[p] = Prior(p)
    BY Before, ProtectedIsNoSlot, OwedAreProtected
  <2>2. CASE fs[p] = before[p]
    BY <1>3, <1>6, <2>1, <2>2
  <2>3. CASE \E i \in DOMAIN Slot : fs[Slot[i]] = before[p]
    <3>1. PICK i \in DOMAIN Slot : fs[Slot[i]] = before[p]
      BY <2>3
    <3>2. i # id
      BY <1>5, <2>1, <3>1, Kinds
    <3>3. QED
      BY <1>7, <3>1, <3>2
  <2>4. QED
    BY <2>2, <2>3 DEF Safe, Saved
<1>12. \A i \in DOMAIN rollbacks' :
         Needed(Slot[i])' => fs'[Slot[i]].of = rollbacks'[i]
  <2> SUFFICES ASSUME NEW i \in DOMAIN rollbacks, Needed(Slot[i])'
               PROVE  fs'[Slot[i]].of = rollbacks[i]
    OBVIOUS
  <2>1. CASE i = id
    BY <1>2, <1>3, <1>4, <1>8, <2>1 DEF Safe, InPlace
  <2>2. CASE i # id
    <3>1. fs'[Slot[i]] = fs[Slot[i]]
      BY <1>7, <2>2, Slots
    <3>2. QED
      BY <1>1, <3>1 DEF Safe, SlotsHold, Needed
  <2>3. QED
    BY <2>1, <2>2
<1>13. QED
  BY <1>3, <1>4, <1>6, <1>7, <1>8, <1>9, <1>10, <1>11, <1>12

\* do_rollbacks() puts back what the last rollback file holds: it overwrites
\* nothing of the user's, and no earlier rollback will overwrite it.
LEMMA RolledBack ==
  ASSUME TypeInv, Safe, UNCHANGED <<job, torn>>, GoesOn, Len(rollbacks) # 0,
         Exists(Slot[Len(rollbacks)]),
         fs' = Moved(Slot[Len(rollbacks)], rollbacks[Len(rollbacks)]),
         rollbacks' = SubSeq(rollbacks, 1, Len(rollbacks) - 1)
  PROVE  /\ InPlace' /\ OldestFirst' /\ Saved'
         /\ \A i \in DOMAIN rollbacks' :
              Needed(Slot[i])' => fs'[Slot[i]].of = rollbacks'[i]
<1> DEFINE id == Len(rollbacks)
           here == Slot[id]
           p == rollbacks[id]
<1>1. before' = before /\ Owed' = Owed
  BY Fixed, OwedFixed
<1>2. id \in DOMAIN rollbacks /\ id \in Nat
  BY DEF TypeInv, TypeOK
<1>3. /\ DOMAIN rollbacks' = 1 .. (id - 1) /\ DOMAIN rollbacks = 1 .. id
      /\ \A i \in DOMAIN rollbacks' : /\ i \in DOMAIN rollbacks /\ i < id
                                      /\ rollbacks'[i] = rollbacks[i]
  BY <1>2 DEF TypeInv, TypeOK
<1>4. id \in DOMAIN Slot /\ here \in Path /\ here \in Image(Slot)
  BY <1>2, Slots
<1>5. /\ p \in Path /\ p \notin Image(Slot)
      /\ Needed(p) => fs[here] = fs[p]
  BY <1>2, Slots DEF Safe, Backing, Hidden, OldestFirst, Exists, Whole
<1>6. /\ fs'[here] = Absent /\ fs'[p] = fs[here]
      /\ \A r \in Path : r \notin {here, p} => fs'[r] = fs[r]
  BY <1>4, <1>5, MovedValue DEF TypeInv, TypeOK
<1>7. \A i \in DOMAIN Slot : i # id => fs'[Slot[i]] = fs[Slot[i]]
  BY <1>4, <1>5, <1>6, Slots, SequenceAssumption
<1>8. \A q \in Path : Needed(q)' =>
        \/ q = p /\ Needed(here) /\ fs'[q] = fs[here] /\ fs[here].of = p
        \/ q # p /\ q # here /\ Needed(q) /\ fs'[q] = fs[q]
  BY <1>1, <1>2, <1>4, <1>5, <1>6, Kinds DEF Needed, Safe, SlotsHold
<1>9. InPlace'
  BY <1>1, <1>4, <1>5, <1>8 DEF Safe, InPlace
<1>10. OldestFirst'
  <2>1. ASSUME NEW i \in DOMAIN rollbacks', Needed(rollbacks[i])'
        PROVE  fs'[Slot[i]] = Absent \/ Whole(i)'
    <3>1. /\ i \in DOMAIN rollbacks /\ i < id /\ i # id
          /\ fs'[Slot[i]] = fs[Slot[i]] /\ rollbacks'[i] = rollbacks[i]
      BY <1>2, <1>3, <1>7, Slots
    <3>2. CASE rollbacks[i] = p
      <4>1. Needed(here)
        BY <1>5, <1>8, <2>1, <3>2
      <4>2. QED
        BY <1>2, <3>1, <3>2, <4>1 DEF Safe, OldestFirst
    <3>3. CASE rollbacks[i] # p
      <4>1. Needed(rollbacks[i]) /\ fs'[rollbacks[i]] = fs[rollbacks[i]]
        BY <1>8, <2>1, <3>1, <3>3, Slots
      <4>2. QED
        BY <3>1, <4>1, WholeStays DEF Safe, OldestFirst
    <3>4. QED
      BY <3>2, <3>3
  <2>2. ASSUME NEW i \in DOMAIN rollbacks', NEW j \in DOMAIN rollbacks',
               i < j, rollbacks[i] = rollbacks[j], Needed(Slot[j])'
        PROVE  fs'[Slot[i]] = Absent
    <3>1. /\ i \in DOMAIN rollbacks /\ fs'[Slot[i]] = fs[Slot[i]]
          /\ j \in DOMAIN rollbacks /\ fs'[Slot[j]] = fs[Slot[j]]
      BY <1>2, <1>3, <1>7, Slots
    <3>2. Needed(Slot[j])
      BY <1>1, <2>2, <3>1 DEF Needed
    <3>3. QED
      BY <2>2, <3>1, <3>2 DEF Safe, OldestFirst
  <2>3. QED
    BY <1>3, <2>1, <2>2 DEF OldestFirst, Needed
<1>11. Saved'
  <2> SUFFICES ASSUME NEW r \in Owed, IsObject(before[r])
               PROVE  \/ fs'[r] = before[r]
                      \/ \E i \in DOMAIN Slot : fs'[Slot[i]] = before[r]
    BY <1>1 DEF Saved
  <2>1. r \in Path /\ r \notin Image(Slot) /\ before[r] = Prior(r)
    BY Before, ProtectedIsNoSlot, OwedAreProtected
  <2>2. CASE fs[r] = before[r]
    <3>1. Needed(r)
      BY <2>1, <2>2, Kinds DEF Needed
    <3>2. r # here /\ (r = p => fs[here] = fs[r])
      BY <1>4, <1>5, <2>1, <3>1
    <3>3. QED
      BY <1>6, <2>1, <2>2, <3>2
  <2>3. CASE \E i \in DOMAIN Slot : fs[Slot[i]] = before[r]
    <3>1. PICK i \in DOMAIN Slot : fs[Slot[i]] = before[r]
      BY <2>3
    <3>2. CASE i = id
      <4>1. Needed(here) /\ fs[here].of = r
        BY <2>1, <3>1, <3>2, Kinds DEF Needed
      <4>2. r = p
        BY <1>2, <4>1 DEF Safe, SlotsHold
      <4>3. QED
        BY <1>6, <3>1, <3>2, <4>2
    <3>3. CASE i # id
      BY <1>7, <3>1, <3>3
    <3>4. QED
      BY <3>2, <3>3
  <2>4. QED
    BY <2>2, <2>3 DEF Safe, Saved
<1>12. ASSUME NEW i \in DOMAIN rollbacks', Needed(Slot[i])'
       PROVE  fs'[Slot[i]].of = rollbacks'[i]
  <2>1. /\ i \in DOMAIN rollbacks /\ fs'[Slot[i]] = fs[Slot[i]]
        /\ rollbacks'[i] = rollbacks[i]
    BY <1>2, <1>3, <1>7, Slots
  <2>2. QED
    BY <1>1, <1>12, <2>1 DEF Safe, SlotsHold, Needed
<1>13. QED
  BY <1>9, <1>10, <1>11, <1>12

LEMMA OwnNotNeeded ==
  ASSUME Safe, NEW q \in OwnPaths \ Image(Slot), q \in Path
  PROVE  ~Needed(q)
BY DEF Safe, InPlace, Needed, Owed, Protected

LEMMA ScratchNotNeeded ==
  ASSUME TypeInv, Safe, NEW q \in ScratchDirs
  PROVE  q \in Path /\ q \notin Image(Slot) /\ ~Needed(q)
<1>1. q \in Path /\ q \notin Image(Slot)
  BY TreeAssumption, SlotAssumption
<1>2. before[q].kind # "prior"
  BY Before, Kinds
<1>3. QED
  BY <1>1, <1>2 DEF Safe, InPlace, Needed

\* The four parts of Safe about the disk, after a step that leaves the disk
\* and the rollbacks alone, and after one that writes one path.
OnDisk == InPlace /\ SlotsHold /\ OldestFirst /\ Saved

LEMMA QuietStep ==
  ASSUME TypeInv, Safe, UNCHANGED <<job, fs, rollbacks, torn>>, GoesOn,
         pc' = "move" => pc = "move"
  PROVE  OnDisk' /\ \A q \in Path : Needed(q)' => Needed(q)
<1>1. SlotsHold'
  BY SameDisk DEF Safe, SlotsHold, GoesOn
<1>2. QED
  BY <1>1, SameDisk DEF OnDisk

LEMMA WriteStep ==
  ASSUME TypeInv, Safe, UNCHANGED <<job, rollbacks, torn>>, GoesOn,
         NEW a \in Path, a \notin Image(Slot), ~Needed(a),
         NEW n \in Node, n.kind # "prior", fs' = [fs EXCEPT ![a] = n],
         pc' # "move"
  PROVE  /\ OnDisk' /\ \A q \in Path : Needed(q)' => Needed(q)
         /\ fs'[a] = n
<1>1. fs'[a] = n
  BY DEF TypeInv, TypeOK
<1>2. /\ InPlace' /\ OldestFirst' /\ Saved'
      /\ \A q \in Path : Needed(q)' => Needed(q)
      /\ \A i \in DOMAIN Slot : fs'[Slot[i]] = fs[Slot[i]]
      /\ \A i \in DOMAIN rollbacks' :
           Needed(Slot[i])' => fs'[Slot[i]].of = rollbacks'[i]
  BY Harmless
<1>3. SlotsHold'
  BY <1>2 DEF Safe, SlotsHold, GoesOn
<1>4. QED
  BY <1>1, <1>2, <1>3 DEF OnDisk

LEMMA MakeDirStep ==
  ASSUME TypeInv, Safe, UNCHANGED <<job, rollbacks, torn>>, GoesOn,
         pc \in {"parents", "mkdir"}, NEW a \in Path, a \notin Image(Slot),
         IsDirectory(a) => ~Needed(a), MakeDir(a)
  PROVE  /\ OnDisk' /\ \A q \in Path : Needed(q)' => Needed(q)
         /\ pc' \in {"record", "revert"}
         /\ pc' = "record" => made' = a /\ ~Needed(a)'
<1> USE DEF MakeDir, Goto, Fatal
<1>1. CASE fs' = fs
  <2>1. pc' \in {"record", "revert"}
    OBVIOUS
  <2>2. OnDisk' /\ \A q \in Path : Needed(q)' => Needed(q)
    BY <1>1, <2>1, QuietStep
  <2>3. QED
    BY <1>1, <2>1, <2>2, Kinds DEF Exists, Needed
<1>2. CASE fs' # fs
  <2>1. /\ ~Exists(a) /\ fs' = [fs EXCEPT ![a] = Dir]
        /\ made' = a /\ pc' = "record"
    BY <1>2
  <2>2. ~Needed(a) /\ Dir \in Node /\ Dir.kind # "prior"
    BY <2>1, Kinds, Nodes DEF Needed, Exists
  <2>3. QED
    BY <2>1, <2>2, WriteStep DEF Needed
<1>3. QED
  BY <1>1, <1>2

LEMMA CurrentTask ==
  ASSUME TypeInv
  PROVE  /\ Plan \in Seq(PlanTask)
         /\ pc \in Busy => cur \in PlanTask /\ cur \in Task /\ cur.path \in Path
<1>1. Plan \in Seq(PlanTask)
  BY PlanType DEF TypeInv, TypeOK
<1>2. pc \in Busy => cur \in PlanTask
  BY <1>1 DEF TypeInv, TypeOK, Control, cur
<1>3. QED
  BY <1>1, <1>2 DEF PlanTask, Task

LEMMA StartSafe ==
  ASSUME TypeInv, GoesOn, Safe, StartTask
  PROVE  Safe'
<1> USE DEF StartTask, Goto, logs
<1> DEFINE t == Plan[step + 1]
<1>1. Plan' = Plan /\ cur' = t /\ stack = <<>> /\ stack' = <<>>
  BY Fixed DEF cur, TypeInv, Control, Busy, Nested, Between
<1>2. t \in PlanTask /\ t \in Task /\ t.path \in Path
  BY CurrentTask DEF TypeInv, TypeOK, PlanTask, Task
<1>3. /\ pc' \in {"gate", "permit", "parents", "menusdone", "obsolete", "declare"}
      /\ pc' = "parents" => t.do \in {"put", "fetch", "menu", "manifest"}
      /\ pc' = "permit" => t.do = "install"
      /\ pc' = "obsolete" => t.do = "obsolete"
      /\ pc' = "declare" => t.do = "declare"
  BY <1>2 DEF FirstStep, Task
<1>4. OnDisk' /\ \A q \in Path : Needed(q)' => Needed(q)
  BY <1>3, QuietStep
<1>5. Expendable'
  BY <1>3, <1>4 DEF Safe, Expendable, Undoing, Ended, Cleaning, TypeInv, TypeOK
<1>6. Backing'
  BY <1>1, <1>3 DEF Safe, Backing
<1>7. pc' = "parents" /\ t.kind = "file" => ~Needed(t.path) /\ ~Needed(cur.path)'
  BY <1>1, <1>2, <1>3, OwnNotNeeded, OwedFixed DEF PlanTask, Needed
<1>8. Ready'
  BY <1>1, <1>3, <1>7 DEF Ready, Between
<1>9. QED
  BY <1>4, <1>5, <1>6, <1>8 DEF Safe, OnDisk

\* The steps of a task that leave the disk and the rollbacks alone.
LEMMA QuietSafe ==
  ASSUME TypeInv, GoesOn, Safe,
         \/ Gate \/ MenusInstalled \/ Declare \/ PermitWrite \/ PickObsolete
         \/ BackupDescend \/ BackupReady \/ ParentsDone \/ Record
         \/ Claim \/ Unclaim \/ Reclaim \/ Fetched \/ RegisterMenu
  PROVE  Safe'
<1> USE DEF Goto, Fatal, logs, menuv, ctl
<1>1. /\ UNCHANGED <<job, fs, rollbacks, step, torn>>
      /\ pc \in Busy
  BY DEF Gate, MenusInstalled, Declare, PermitWrite, PickObsolete,
     BackupDescend, BackupReady, ParentsDone, Record, Claim, Unclaim, Reclaim,
     Fetched, RegisterMenu, Busy
<1>2. pc' # "move"
  BY DEF Gate, MenusInstalled, Declare, PermitWrite, PickObsolete,
     BackupDescend, BackupReady, ParentsDone, Record, Claim, Unclaim, Reclaim,
     Fetched, RegisterMenu, Create
<1>3. OnDisk' /\ \A q \in Path : Needed(q)' => Needed(q)
  BY <1>1, <1>2, QuietStep
<1>4. cur' = cur
  BY <1>1, Fixed DEF cur
<1>5. /\ cur \in PlanTask /\ cur \in Task /\ cur.path \in Path
      /\ cur.path \notin Image(Slot)
  BY <1>1, CurrentTask DEF PlanTask
<1> USE DEF Safe, Busy, Nested, Between
<1>6. CASE Gate \/ MenusInstalled \/ RegisterMenu
  <2>1. pc \notin Undoing /\ pc' \in {"task", "revert"}
    BY <1>6 DEF Gate, MenusInstalled, RegisterMenu, Undoing, Ended
  <2>2. UNCHANGED <<manifest, downloads, stack>>
    BY <1>6 DEF Gate, MenusInstalled, RegisterMenu
  <2>3. Expendable' /\ Backing' /\ Ready'
    BY <1>1, <1>3, <2>1, <2>2
    DEF Expendable, Backing, Ready, Undoing, Ended, Cleaning, TypeInv, TypeOK
  <2>4. QED
    BY <1>3, <2>3 DEF OnDisk
<1>7. CASE Declare \/ Claim \/ Unclaim \/ Reclaim \/ Record
  <2> DEFINE it == IF pc = "record" THEN made ELSE cur.path
  <2>1. it \in Path /\ it \notin Image(Slot) /\ ~Needed(it)
    BY <1>5, <1>7, OwnNotNeeded
    DEF Declare, Claim, Unclaim, Reclaim, Record, Ready, PlanTask, TypeInv, TypeOK
  <2>2. manifest' \subseteq manifest \cup {it} /\ UNCHANGED <<downloads, stack>>
    BY <1>7 DEF Declare, Claim, Unclaim, Reclaim, Record, Enter
  <2>3. /\ pc \notin Undoing
        /\ pc' \in {"open", "task", "reclaim", "register", "parents"}
        /\ pc' = "parents" => pc = "record"
        /\ pc' = "reclaim" => pc = "unclaim"
        /\ pc' = "open" => pc = "claim"
    BY <1>7 DEF Declare, Claim, Unclaim, Reclaim, Record, Undoing, Ended
  <2>4. Expendable'
    BY <1>3, <2>1, <2>2, <2>3 DEF Expendable, Cleaning, TypeInv, TypeOK
  <2>5. Backing'
    BY <1>1, <1>4, <2>2, <2>3 DEF Backing
  <2>6. Ready'
    BY <1>1, <1>4, <2>2, <2>3, OwedFixed DEF Ready, Needed
  <2>7. QED
    BY <1>3, <2>4, <2>5, <2>6 DEF OnDisk
<1>8. CASE PermitWrite
  <2>1. /\ pc = "permit" /\ stack = <<>> /\ cur.do = "install"
        /\ UNCHANGED <<manifest, downloads>>
    BY <1>8 DEF PermitWrite, Ready, TypeInv, Control
  <2>2. \/ pc' = "task" /\ stack' = <<>>
        \/ /\ pc' = "parents" /\ stack' = <<>>
           /\ ~Exists(cur.path) \/ cur.kind = "dir"
        \/ pc' = "backup" /\ stack' = <<cur.path>> /\ cur.kind # "dir"
    BY <1>8, <2>1 DEF PermitWrite
  <2>3. Expendable'
    BY <1>3, <2>1, <2>2 DEF Expendable, Undoing, Ended, Cleaning, TypeInv, TypeOK
  <2>4. Backing'
    BY <1>1, <1>4, <1>5, <2>1, <2>2 DEF Backing, PlanTask, Entry
  <2>5. ~Exists(cur.path) => ~Needed(cur.path)
    BY Kinds DEF Exists, Needed
  <2>6. Ready'
    BY <1>1, <1>4, <2>2, <2>5, OwedFixed DEF Ready, Needed
  <2>7. QED
    BY <1>3, <2>3, <2>4, <2>6 DEF OnDisk
<1>9. CASE PickObsolete
  <2>1. /\ pc = "obsolete" /\ stack = <<>> /\ cur.do = "obsolete"
        /\ UNCHANGED <<manifest, downloads>>
    BY <1>9 DEF PickObsolete, Ready, TypeInv, Control
  <2>2. Obsolete \subseteq Path \ Hidden
    BY ScenarioAssumption DEF Obsolete, oldFiles, TypeInv, TypeOK
  <2>3. \/ pc' = "task" /\ stack' = <<>>
        \/ pc' = "backup" /\ \E p \in Path \ Hidden : stack' = <<p>>
    BY <1>9, <2>1, <2>2 DEF PickObsolete
  <2>4. Expendable'
    BY <1>3, <2>1, <2>3 DEF Expendable, Undoing, Ended, Cleaning, TypeInv, TypeOK
  <2>5. Backing'
    BY <1>1, <1>4, <2>1, <2>3 DEF Backing
  <2>6. Ready'
    BY <2>3 DEF Ready
  <2>7. QED
    BY <1>3, <2>4, <2>5, <2>6 DEF OnDisk
<1>10. CASE BackupDescend
  <2>1. /\ pc = "backup" /\ pc' = "backup" /\ stack # <<>>
        /\ UNCHANGED <<manifest, downloads>>
    BY <1>10 DEF BackupDescend, TypeInv, Control
  <2>2. PICK c \in Children(Top) : stack' = Append(stack, c)
    BY <1>10 DEF BackupDescend
  <2>3. Top \in Path /\ Top \notin Hidden
    BY <2>1, StackType DEF Top, Backing, TypeInv, TypeOK
  <2>4. c \in Path /\ c \notin Hidden
    BY <2>3, HiddenChild, TreeAssumption DEF Children
  <2>5. /\ stack' # <<>> /\ stack'[1] = stack[1]
        /\ \A i \in DOMAIN stack' : stack'[i] \notin Hidden
    BY <2>1, <2>2, <2>4 DEF Backing, TypeInv, TypeOK
  <2>6. Expendable'
    BY <1>3, <2>1 DEF Expendable, Undoing, Ended, Cleaning, TypeInv, TypeOK
  <2>7. Backing'
    BY <1>1, <1>4, <2>1, <2>5 DEF Backing
  <2>8. Ready'
    BY <2>1 DEF Ready
  <2>9. QED
    BY <1>3, <2>6, <2>7, <2>8 DEF OnDisk
<1>11. CASE BackupReady
  <2>1. /\ pc = "backup" /\ pc' = "parents" /\ stack # <<>>
        /\ UNCHANGED <<manifest, downloads, stack>>
    BY <1>11 DEF BackupReady, TypeInv, Control
  <2>2. Expendable'
    BY <1>3, <2>1 DEF Expendable, Undoing, Ended, Cleaning, TypeInv, TypeOK
  <2>3. Backing' /\ Ready'
    BY <1>1, <1>4, <2>1 DEF Backing, Ready
  <2>4. QED
    BY <1>3, <2>2, <2>3 DEF OnDisk
<1>12. CASE ParentsDone
  <2>1. /\ pc = "parents" /\ UNCHANGED <<manifest, downloads, stack>>
        /\ pc' = IF stack # <<>> THEN "log" ELSE Create
    BY <1>12 DEF ParentsDone
  <2>2. /\ Create \in {"mkdir", "link", "open", "claim"}
        /\ Create = "mkdir" => cur.kind = "dir"
        /\ Create = "link" => cur.kind = "symlink"
        /\ Create \in {"open", "claim"} => cur.kind = "file"
    BY <1>5 DEF Create, Task
  <2>3. Expendable'
    BY <1>3, <2>1, <2>2 DEF Expendable, Undoing, Ended, Cleaning, TypeInv, TypeOK
  <2>4. Backing'
    BY <1>1, <1>4, <2>1, <2>2 DEF Backing
  <2>5. Ready'
    BY <1>1, <1>4, <2>1, <2>2, OwedFixed DEF Ready, Needed
  <2>6. QED
    BY <1>3, <2>3, <2>4, <2>5 DEF OnDisk
<1>13. CASE Fetched
  <2>1. /\ pc = "fetched" /\ pc' = "task" /\ UNCHANGED <<manifest, stack>>
        /\ downloads' = downloads \cup {cur.path} /\ cur.do = "fetch"
    BY <1>13 DEF Fetched, Ready
  <2>2. Expendable'
    BY <1>3, <1>5, <2>1
    DEF Expendable, Undoing, Ended, Cleaning, PlanTask, TypeInv, TypeOK
  <2>3. Backing' /\ Ready'
    BY <1>1, <2>1 DEF Backing, Ready
  <2>4. QED
    BY <1>3, <2>2, <2>3 DEF OnDisk
<1>14. QED
  BY <1>6, <1>7, <1>8, <1>9, <1>10, <1>11, <1>12, <1>13

\* The steps of a task that create or write a path.
LEMMA WriteSafe ==
  ASSUME TypeInv, GoesOn, Safe,
         MakeParent \/ MakeEntryDir \/ MakeLink \/ OpenFile \/ WriteFile
  PROVE  Safe'
<1> USE DEF Goto, Fatal, logs, menuv, ctl, Safe, Busy, Nested, Between
<1>1. /\ UNCHANGED <<job, rollbacks, step, manifest, downloads, stack, torn>>
      /\ pc \in {"parents", "mkdir", "link", "open", "write"}
  BY DEF MakeParent, MakeEntryDir, MakeLink, OpenFile, WriteFile
<1>2. cur' = cur
  BY <1>1, Fixed DEF cur
<1>3. /\ cur \in PlanTask /\ cur \in Task /\ cur.path \in Path
      /\ cur.path \notin Image(Slot)
  BY <1>1, CurrentTask DEF PlanTask
<1>4. /\ OnDisk' /\ \A q \in Path : Needed(q)' => Needed(q)
      /\ pc' \in {"record", "revert", "write", "fetched", "task", "unclaim"}
      /\ pc' = "record" =>
           /\ pc \in {"parents", "mkdir", "link"}
           /\ made' \in Path /\ made' \notin Image(Slot)
           /\ ~Needed(made)'
      /\ pc' = "write" => pc = "open"
      /\ pc' = "unclaim" => pc = "write"
      /\ pc' = "fetched" => cur.do = "fetch"
  <2>1. CASE MakeParent
    <3>1. PICK a \in Missing : MakeDir(a)
      BY <2>1 DEF MakeParent
    <3>2. pc = "parents" /\ Target \in Path
      BY <1>3, <2>1, SequenceAssumption
      DEF MakeParent, Target, NextSlot, SlotsLeft, TypeInv, TypeOK, Control
    <3>3. a \in Path /\ a \notin Image(Slot)
      BY <3>1, <3>2, TreeAssumption, SlotAssumption DEF Missing
    <3>4. ~Needed(a)
      BY <3>1, Kinds DEF Missing, Exists, Needed
    <3>5. QED
      BY <1>1, <3>1, <3>2, <3>3, <3>4, MakeDirStep
  <2>2. CASE MakeEntryDir
    <3>1. pc = "mkdir" /\ MakeDir(cur.path)
      BY <2>2 DEF MakeEntryDir
    <3>2. ASSUME IsDirectory(cur.path), Needed(cur.path)
          PROVE  FALSE
      <4>1. PICK l \in links : fs[cur.path] = Prior(l)
        BY <3>2, Kinds DEF IsDirectory, Needed
      <4>2. cur.path = l /\ l \in Owed
        BY <1>3, <3>2, <4>1, Kinds DEF Needed, InPlace
      <4>3. step \in DOMAIN Plan /\ cur.kind = "dir"
        BY <3>1, CurrentTask DEF Ready, TypeInv, TypeOK, Control
      <4>4. QED
        BY <4>2, <4>3 DEF Taken, Owed, Image, cur
    <3>3. QED
      BY <1>1, <1>3, <3>1, <3>2, MakeDirStep
  <2>3. CASE MakeLink
    <3>1. CASE fs' = fs
      <4>1. pc = "link" /\ pc' \in {"record", "revert"}
            /\ (pc' = "record" => made' = cur.path /\ ~Exists(cur.path)
                                  /\ fs' = [fs EXCEPT ![cur.path] = New(cur.path)])
        BY <2>3, <3>1 DEF MakeLink
      <4>2. OnDisk' /\ \A q \in Path : Needed(q)' => Needed(q)
        BY <1>1, <3>1, <4>1, QuietStep
      <4>3. QED
        BY <1>3, <3>1, <4>1, <4>2, Kinds DEF TypeInv, TypeOK, Needed, Exists
    <3>2. CASE fs' # fs
      <4>1. /\ pc = "link" /\ pc' = "record" /\ made' = cur.path
            /\ ~Exists(cur.path) /\ fs' = [fs EXCEPT ![cur.path] = New(cur.path)]
        BY <2>3, <3>2 DEF MakeLink
      <4>2. ~Needed(cur.path)
        BY <4>1, Kinds DEF Exists, Needed
      <4>3. New(cur.path) \in Node /\ New(cur.path).kind # "prior"
        BY <1>3, Nodes, Kinds
      <4>4. QED
        BY <1>1, <1>3, <4>1, <4>2, <4>3, WriteStep DEF Needed
    <3>3. QED
      BY <3>1, <3>2
  <2>4. CASE OpenFile \/ WriteFile
    <3>1. /\ pc \in {"open", "write"} /\ ~Needed(cur.path)
          /\ pc' \in {"revert", "write", "fetched", "task", "unclaim"}
          /\ pc' = "write" => pc = "open"
          /\ pc' = "unclaim" => pc = "write"
          /\ pc' = "fetched" => cur.do = "fetch"
      BY <2>4 DEF OpenFile, WriteFile, Ready
    <3>2. CASE fs' = fs
      <4>1. OnDisk' /\ \A q \in Path : Needed(q)' => Needed(q)
        BY <1>1, <3>1, <3>2, QuietStep
      <4>2. QED
        BY <3>1, <4>1
    <3>3. CASE fs' # fs
      <4>1. PICK n \in {Absent, Partial(cur.path), New(cur.path)} :
              fs' = [fs EXCEPT ![cur.path] = n]
        BY <2>4, <3>3 DEF OpenFile, WriteFile
      <4>2. n \in Node /\ n.kind # "prior"
        BY <1>3, Nodes, Kinds
      <4>3. OnDisk' /\ \A q \in Path : Needed(q)' => Needed(q)
        BY <1>1, <1>3, <3>1, <4>1, <4>2, WriteStep
      <4>4. QED
        BY <3>1, <4>3
    <3>4. QED
      BY <3>2, <3>3
  <2>5. QED
    BY <2>1, <2>2, <2>3, <2>4
<1>5. Expendable'
  BY <1>1, <1>4 DEF Expendable, Undoing, Ended, Cleaning, TypeInv, TypeOK
<1>6. Backing'
  BY <1>1, <1>2, <1>4 DEF Backing, TypeInv, Control
<1>7. Ready'
  <2>1. ~Needed(cur.path) => ~Needed(cur.path)'
    BY <1>2, <1>3, <1>4 DEF Needed
  <2>2. pc' = "record" => ~Needed(made)'
    BY <1>4 DEF Needed
  <2>3. QED
    BY <1>1, <1>2, <1>4, <2>1, <2>2 DEF Ready
<1>8. QED
  BY <1>4, <1>5, <1>6, <1>7 DEF OnDisk

LEMMA LogSafe ==
  ASSUME TypeInv, GoesOn, Safe, LogRollback
  PROVE  Safe'
<1> USE DEF Goto, logs, menuv, ctl, Safe
<1> DEFINE id == Len(rollbacks) + 1
<1>1. /\ pc = "log" /\ pc' = "move" /\ id \in DOMAIN Slot /\ stack # <<>>
      /\ UNCHANGED <<job, fs, step, manifest, downloads, stack, torn>>
  BY SequenceAssumption DEF LogRollback, SlotsLeft, TypeInv, TypeOK, Control, Nested
<1>2. Top \in Path /\ Top \notin Hidden
  BY <1>1, StackType DEF Top, Backing, TypeInv, TypeOK
<1>3. /\ DOMAIN rollbacks = 1 .. (id - 1) /\ DOMAIN rollbacks' = 1 .. id
      /\ Len(rollbacks') = id /\ rollbacks'[id] = Top /\ id \in Nat
      /\ \A i \in DOMAIN rollbacks : rollbacks'[i] = rollbacks[i]
  BY <1>2 DEF LogRollback, TypeInv, TypeOK
<1>4. before' = before /\ cur' = cur /\ Owed' = Owed
  BY <1>1, Fixed, OwedFixed DEF cur
<1>5. \A i \in DOMAIN Slot : i >= id => fs[Slot[i]] = Absent
  BY <1>1, <1>3 DEF SlotsHold, Reverting, Ended, TypeInv, TypeOK
<1>6. ~Needed(Slot[id]) /\ fs[Slot[id]] = Absent
  BY <1>1, <1>3, <1>5, Kinds DEF Needed
<1>7. InPlace' /\ Saved'
  BY <1>1, <1>4 DEF InPlace, Saved, Needed
<1>8. SlotsHold'
  <2>1. ASSUME NEW i \in DOMAIN rollbacks', Needed(Slot[i])
        PROVE  fs[Slot[i]].of = rollbacks'[i]
    <3>1. i # id
      BY <1>6, <2>1
    <3>2. i \in DOMAIN rollbacks
      BY <1>3, <3>1
    <3>3. QED
      BY <1>3, <2>1, <3>2 DEF SlotsHold
  <2>2. ASSUME NEW i \in DOMAIN Slot, i > Len(rollbacks') \/ i = Len(rollbacks')
        PROVE  fs[Slot[i]] = Absent
    BY <1>3, <1>5, <2>2, SequenceAssumption
  <2>3. QED
    BY <1>1, <1>4, <2>1, <2>2 DEF SlotsHold, Needed
<1>9. OldestFirst'
  <2>1. ASSUME NEW i \in DOMAIN rollbacks', Needed(rollbacks'[i])
        PROVE  fs[Slot[i]] = Absent
    <3>1. CASE i = id
      BY <1>6, <3>1
    <3>2. CASE i # id
      <4>1. i \in DOMAIN rollbacks
        BY <1>3, <3>2
      <4>2. QED
        BY <1>1, <1>3, <2>1, <4>1 DEF OldestFirst, Whole, Reverting, Ended
    <3>3. QED
      BY <3>1, <3>2
  <2>2. ASSUME NEW i \in DOMAIN rollbacks', NEW j \in DOMAIN rollbacks',
               i < j, rollbacks'[i] = rollbacks'[j], Needed(Slot[j])
        PROVE  fs[Slot[i]] = Absent
    <3>1. j # id
      BY <1>6, <2>2
    <3>2. i \in DOMAIN rollbacks /\ j \in DOMAIN rollbacks
      BY <1>3, <2>2, <3>1
    <3>3. QED
      BY <1>3, <2>2, <3>2 DEF OldestFirst
  <2>3. QED
    BY <1>1, <1>4, <2>1, <2>2 DEF OldestFirst, Needed
<1>10. Expendable'
  BY <1>1, <1>4 DEF Expendable, Undoing, Ended, Cleaning, Needed
<1>11. Backing'
  <2>1. Top' = Top
    BY <1>1 DEF Top
  <2>2. \A i \in DOMAIN rollbacks' : rollbacks'[i] \notin Hidden
    BY <1>2, <1>3 DEF Backing
  <2>3. QED
    BY <1>1, <1>3, <1>4, <2>1, <2>2 DEF Backing, Nested, Between
<1>12. Ready'
  BY <1>1 DEF Ready, Between
<1>13. QED
  BY <1>7, <1>8, <1>9, <1>10, <1>11, <1>12

LEMMA LastOf ==
  ASSUME NEW s \in Seq(Path), s # <<>>
  PROVE  LET t == SubSeq(s, 1, Len(s) - 1) IN
         /\ DOMAIN t \subseteq DOMAIN s
         /\ \A i \in DOMAIN t : t[i] = s[i]
         /\ t # <<>> => 1 \in DOMAIN t
         /\ t = <<>> => s[Len(s)] = s[1]
<1> DEFINE t == SubSeq(s, 1, Len(s) - 1)
<1>1. Len(s) \in Nat /\ Len(s) >= 1
  OBVIOUS
<1>2. \A i \in 1 .. (Len(s) - 1) : s[i] \in Path
  BY <1>1
<1>3. /\ t \in Seq(Path) /\ Len(t) = Len(s) - 1
      /\ DOMAIN t = 1 .. (Len(s) - 1)
      /\ \A i \in 1 .. (Len(s) - 1) : t[i] = s[i]
  <2> DEFINE n == Len(s) - 1
  <2>1. n \in Int /\ n >= 0 /\ 1 \in Int
    BY <1>1
  <2>2. /\ SubSeq(s, 1, n) \in Seq(Path)
        /\ Len(SubSeq(s, 1, n)) = IF 1 <= n THEN n - 1 + 1 ELSE 0
        /\ \A i \in 1 .. n - 1 + 1 : SubSeq(s, 1, n)[i] = s[1 + i - 1]
    <3> HIDE DEF n
    <3>1. \A i \in 1 .. n : s[i] \in Path
      BY <1>2 DEF n
    <3>2. QED
      BY <2>1, <3>1, SubSeqProperties
  <2>3. \A i \in 1 .. n : SubSeq(s, 1, n)[i] = s[i]
    <3> HIDE DEF n
    <3>1. n - 1 + 1 = n /\ \A i \in 1 .. n : 1 + i - 1 = i
      BY <2>1
    <3>2. QED
      BY <2>2, <3>1
  <2>4. Len(SubSeq(s, 1, n)) = n
    <3> HIDE DEF n
    <3>1. QED
      BY <2>1, <2>2
  <2>5. \A u \in Seq(Path) : DOMAIN u = 1 .. Len(u)
    OBVIOUS
  <2>6. t \in Seq(Path) /\ Len(t) = n /\ \A i \in 1 .. n : t[i] = s[i]
    BY <2>2, <2>3, <2>4, Zenon
  <2>7. DOMAIN t = 1 .. n
    <3> HIDE DEF t, n
    <3>1. QED
      BY <2>5, <2>6
  <2>8. QED
    BY <2>6, <2>7, Zenon
<1> HIDE DEF t
<1>4. t = <<>> => Len(s) = 1
  BY <1>1, <1>3
<1>5. t # <<>> => Len(s) - 1 >= 1
  BY <1>1, <1>3
<1>6. QED
  BY <1>1, <1>3, <1>4, <1>5 DEF t

LEMMA MoveSafe ==
  ASSUME TypeInv, GoesOn, Safe, MoveAway
  PROVE  Safe'
<1> USE DEF Goto, Fatal, logs, menuv, ctl, Safe
<1> DEFINE id == Len(rollbacks)
<1>1. /\ pc = "move" /\ stack # <<>>
      /\ UNCHANGED <<job, rollbacks, step, manifest, downloads, torn>>
  BY DEF MoveAway, TypeInv, Control, Nested
<1>2. cur' = cur
  BY <1>1, Fixed DEF cur
<1>3. id \in DOMAIN Slot /\ fs[Slot[id]] = Absent
  BY <1>1, Slots DEF SlotsHold, Reverting, Ended, TypeInv, TypeOK, Control
<1>4. CASE fs' = Moved(Top, Slot[id]) /\ stack' = Pop
           /\ pc' = (IF Pop # <<>> THEN "backup"
                     ELSE IF cur.do = "obsolete" THEN "obsolete" ELSE "parents")
  <2>1. /\ InPlace' /\ OldestFirst' /\ Saved'
        /\ Top \in Path /\ Top \notin Hidden
        /\ fs'[Top] = Absent
        /\ \A q \in Path : q \notin Image(Slot) /\ Needed(q)' => Needed(q)
        /\ \A i \in DOMAIN rollbacks' :
             Needed(Slot[i])' => fs'[Slot[i]].of = rollbacks'[i]
        /\ \A i \in DOMAIN Slot :
             i # Len(rollbacks) => fs'[Slot[i]] = fs[Slot[i]]
    BY <1>1, <1>4, BackedUp
  <2>2. pc' \in {"backup", "obsolete", "parents"}
    BY <1>4
  <2>3. SlotsHold'
    <3>1. ASSUME NEW i \in DOMAIN Slot, i > id
          PROVE  fs'[Slot[i]] = Absent
      BY <1>1, <2>1, <3>1 DEF SlotsHold, Reverting, Ended, TypeInv, TypeOK
    <3>2. QED
      BY <1>1, <2>1, <2>2, <3>1 DEF SlotsHold
  <2>4. Expendable'
    BY <1>1, <2>1, <2>2 DEF Expendable, Undoing, Ended, Cleaning, TypeInv, TypeOK
  <2>5. /\ DOMAIN Pop \subseteq DOMAIN stack
        /\ \A i \in DOMAIN Pop : Pop[i] = stack[i]
        /\ Pop # <<>> => 1 \in DOMAIN Pop
        /\ Pop = <<>> => Top = stack[1]
    BY <1>1, LastOf DEF Pop, Top, TypeInv, TypeOK
  <2>6. Backing'
    BY <1>1, <1>2, <1>4, <2>2, <2>5 DEF Backing, Nested, Between
  <2>7. Ready'
    <3>1. pc' = "parents" => fs'[cur.path] = Absent
      BY <1>1, <1>4, <2>1, <2>5 DEF Backing, Nested
    <3>2. QED
      BY <1>2, <1>4, <2>2, <3>1, Kinds DEF Ready, Between, Needed
  <2>8. QED
    BY <2>1, <2>3, <2>4, <2>6, <2>7
<1>5. CASE MoveFailed(Top, Slot[id]) /\ pc' = "revert" /\ stack' = stack
  <2>1. ~Removable(Slot[id])
    BY <1>3, Kinds DEF Removable, IsObject
  <2>2. fs' = fs
    BY <1>5, <2>1 DEF MoveFailed
  <2>3. OnDisk' /\ \A q \in Path : Needed(q)' => Needed(q)
    BY <1>1, <1>5, <2>2, QuietStep
  <2>4. Expendable' /\ Backing' /\ Ready'
    BY <1>1, <1>5, <2>3 DEF Expendable, Backing, Ready, Undoing, Ended,
       Cleaning, Nested, Between, TypeInv, TypeOK
  <2>5. QED
    BY <2>3, <2>4 DEF OnDisk
<1>6. QED
  BY <1>4, <1>5 DEF MoveAway

\* A run that goes on after FinishStages without having dropped its rollbacks.
LEMMA CleanupSafe ==
  ASSUME TypeInv, GoesOn, Safe, fate = "open", Cleanup, fate' = "open"
  PROVE  Safe'
<1> USE DEF Goto, logs, menuv, ctl, Safe
<1>1. pc \notin Cleaning
  BY DEF Expendable
<1>2. FinishStages /\ SkipPrompt
  BY <1>1 DEF Cleanup, DropSlots, DropDownloads, DropScratch, Sweep, DropDirs,
     Forget, Show, FinishStages, Cleaning
<1>3. /\ UNCHANGED <<job, fs, rollbacks, manifest, downloads, stack, torn>>
      /\ pc = "task" /\ pc' = "show"
  BY <1>2 DEF FinishStages
<1>4. OnDisk' /\ \A q \in Path : Needed(q)' => Needed(q)
  BY <1>3, QuietStep
<1>5. Expendable' /\ Backing' /\ Ready'
  BY <1>3, <1>4 DEF Expendable, Backing, Ready, Undoing, Ended, Cleaning,
     Nested, Between, TypeInv, TypeOK
<1>6. QED
  BY <1>4, <1>5 DEF OnDisk

\* A deletion loop of the revert, when nothing in its list is the user's.
LEMMA SweepSafe ==
  ASSUME TypeInv, GoesOn, Safe, NEW here \in Reverting, NEW next \in Reverting \cup Ended,
         NEW queue, Sweep(here, next, queue),
         \A p \in rest : p \notin Image(Slot) /\ ~Needed(p)
  PROVE  /\ OnDisk' /\ Backing' /\ Ready'
         /\ \A q \in Path : Needed(q)' => Needed(q)
         /\ UNCHANGED <<manifest, downloads>>
         /\ pc = here
         /\ \/ pc' = here /\ rest' \subseteq rest
            \/ pc' = next /\ rest' = queue
<1> USE DEF Goto, logs, menuv
<1>1. /\ UNCHANGED <<job, rollbacks, manifest, downloads, stack, torn>>
      /\ pc = here /\ pc' \in {here, next}
      /\ \/ pc' = here /\ rest' \subseteq rest
         \/ pc' = next /\ rest' = queue
  BY DEF Sweep
<1>2. pc' \in Reverting \cup Ended /\ pc' # "move"
  BY <1>1 DEF Reverting, Ended
<1>3. OnDisk' /\ \A q \in Path : Needed(q)' => Needed(q)
  <2>1. CASE fs' = fs
    BY <1>1, <1>2, <2>1, QuietStep
  <2>2. CASE fs' # fs
    <3>1. PICK p \in rest : fs' = [fs EXCEPT ![p] = Absent]
      BY <2>2 DEF Sweep, TryDelete, Deleted
    <3>2. p \in Path /\ Absent \in Node /\ Absent.kind # "prior"
      BY Nodes, Kinds DEF TypeInv, TypeOK
    <3>3. QED
      BY <1>1, <1>2, <3>1, <3>2, WriteStep
  <2>3. QED
    BY <2>1, <2>2
<1>4. Backing' /\ Ready'
  BY <1>1, <1>2 DEF Safe, Backing, Ready, Nested, Between, Reverting, Ended
<1>5. QED
  BY <1>1, <1>3, <1>4

\* A restore that does not happen forgets the rollback and leaves the disk.
LEMMA Forgotten ==
  ASSUME TypeInv, Safe, UNCHANGED <<job, fs, torn>>, GoesOn,
         DOMAIN rollbacks' \subseteq DOMAIN rollbacks,
         \A i \in DOMAIN rollbacks' : rollbacks'[i] = rollbacks[i]
  PROVE  /\ InPlace' /\ OldestFirst' /\ Saved'
         /\ \A i \in DOMAIN rollbacks' :
              Needed(Slot[i])' => fs'[Slot[i]].of = rollbacks'[i]
<1>1. before' = before /\ Owed' = Owed
  BY Fixed, OwedFixed
<1>2. \A q : Needed(q)' = Needed(q)
  BY <1>1 DEF Needed
<1>3. InPlace' /\ Saved'
  BY <1>1, <1>2 DEF Safe, InPlace, Saved
<1>4. OldestFirst'
  <2>1. \A i \in DOMAIN rollbacks' : Whole(i) => Whole(i)'
    BY WholeStays
  <2>2. QED
    BY <1>1, <1>2, <2>1 DEF Safe, OldestFirst, Needed
<1>5. QED
  BY <1>2, <1>3, <1>4 DEF Safe, SlotsHold

LEMMA RollbackSafe ==
  ASSUME TypeInv, GoesOn, Safe, Rollback
  PROVE  Safe'
<1> USE DEF Goto, logs, menuv, Safe
<1> DEFINE id == Len(rollbacks)
           p == rollbacks[id]
<1>1. /\ UNCHANGED <<job, manifest, downloads, stack, torn>>
      /\ pc = "rollback" /\ pc' \in {"rollback", "rmscratch"}
      /\ pc' = "rmscratch" => rest' = ScratchDirs
  BY DEF Rollback
<1>2. CASE id = 0
  <2>1. UNCHANGED <<fs, rollbacks>>
    BY <1>2 DEF Rollback
  <2>2. OnDisk'
    BY <1>1, <2>1, QuietStep
  <2>3. Backing'
    BY <1>1, <2>1 DEF Backing, Nested, Between
  <2>4. QED
    BY <1>1, <2>2, <2>3 DEF OnDisk, Expendable, Ready, Undoing, Cleaning, Between
<1>3. CASE id # 0
  <2>1. id \in DOMAIN rollbacks /\ rollbacks \in Seq(Path)
    BY <1>3 DEF TypeInv, TypeOK
  <2>2. /\ rollbacks' = SubSeq(rollbacks, 1, Len(rollbacks) - 1)
        /\ \/ CanMove(Slot[id], p) /\ fs' = Moved(Slot[id], p)
           \/ MoveFailed(Slot[id], p)
    BY <1>3 DEF Rollback
  <2>3. /\ DOMAIN rollbacks' \subseteq DOMAIN rollbacks
        /\ \A i \in DOMAIN rollbacks' : rollbacks'[i] = rollbacks[i]
    BY <1>3, <2>1, <2>2, LastOf
  <2>4. /\ InPlace' /\ OldestFirst' /\ Saved'
        /\ \A i \in DOMAIN rollbacks' :
             Needed(Slot[i])' => fs'[Slot[i]].of = rollbacks'[i]
    <3>1. CASE CanMove(Slot[id], p) /\ fs' = Moved(Slot[id], p)
      <4>1. Exists(Slot[id])
        BY <3>1 DEF CanMove
      <4>2. QED
        BY <1>1, <1>3, <2>2, <3>1, <4>1, RolledBack
    <3>2. CASE fs' = fs
      BY <1>1, <2>3, <3>2, Forgotten
    <3>3. CASE Exists(Slot[id]) /\ fs' = [fs EXCEPT ![p] = Absent]
      <4>1. /\ p \in Path /\ p \notin Image(Slot)
            /\ Needed(p) => \E i \in DOMAIN Slot : fs[Slot[i]] = fs[p]
        BY <2>1, <3>3, Slots DEF Backing, Hidden, OldestFirst, Exists, Whole
      <4>2. Absent \in Node /\ Absent.kind # "prior"
        BY Nodes, Kinds
      <4>3. QED
        BY <1>1, <2>3, <3>3, <4>1, <4>2, Harmless
    <3>4. QED
      BY <2>2, <3>1, <3>2, <3>3 DEF MoveFailed
  <2>5. SlotsHold'
    BY <1>1, <2>4 DEF SlotsHold, Reverting
  <2>6. Backing'
    BY <1>1, <2>3 DEF Backing, Nested, Between
  <2>7. QED
    BY <1>1, <2>4, <2>5, <2>6 DEF Expendable, Ready, Undoing, Cleaning, Between
<1>4. QED
  BY <1>2, <1>3

LEMMA RevertSafe ==
  ASSUME TypeInv, GoesOn, Safe, Revert
  PROVE  Safe'
<1> USE DEF Safe
<1>1. CASE RevertMenus
  <2>1. /\ UNCHANGED <<job, fs, rollbacks, manifest, downloads, stack, torn>>
        /\ pc = "revert" /\ pc' \in {"revert", "exit22", "rmdownloads"}
        /\ pc' = "rmdownloads" => rest' = downloads
    BY <1>1 DEF RevertMenus, Goto, logs
  <2>2. OnDisk' /\ \A q \in Path : Needed(q)' => Needed(q)
    BY <2>1, QuietStep
  <2>3. Expendable'
    BY <2>1, <2>2 DEF Expendable, Undoing, Ended, Cleaning, TypeInv, TypeOK
  <2>4. Backing' /\ Ready'
    BY <2>1 DEF Backing, Ready, Nested, Between
  <2>5. QED
    BY <2>2, <2>3, <2>4 DEF OnDisk
<1>2. CASE RevertDownloads
  <2>1. Sweep("rmdownloads", "rmfiles", Condemned) /\ pc = "rmdownloads"
    BY <1>2 DEF RevertDownloads, Sweep
  <2>2. \A p \in rest : p \notin Image(Slot) /\ ~Needed(p)
    BY <2>1, OwnNotNeeded DEF Expendable, TypeInv, TypeOK
  <2>3. /\ OnDisk' /\ Backing' /\ Ready'
        /\ \A q \in Path : Needed(q)' => Needed(q)
        /\ UNCHANGED <<manifest, downloads>>
        /\ \/ pc' = "rmdownloads" /\ rest' \subseteq rest
           \/ pc' = "rmfiles" /\ rest' = Condemned
    BY <2>1, <2>2, SweepSafe DEF Reverting
  <2>4. Expendable'
    BY <2>1, <2>3 DEF Expendable, Condemned, Undoing, Ended, Cleaning, TypeInv, TypeOK
  <2>5. QED
    BY <2>3, <2>4 DEF OnDisk
<1>3. CASE RevertFiles
  <2>1. Sweep("rmfiles", "rollback", {}) /\ pc = "rmfiles"
    BY <1>3 DEF RevertFiles, Sweep
  <2>2. \A p \in rest : p \notin Image(Slot) /\ ~Needed(p)
    BY <2>1 DEF Expendable, Undoing, Ended
  <2>3. /\ OnDisk' /\ Backing' /\ Ready'
        /\ \A q \in Path : Needed(q)' => Needed(q)
        /\ UNCHANGED <<manifest, downloads>>
        /\ \/ pc' = "rmfiles" /\ rest' \subseteq rest
           \/ pc' = "rollback"
    BY <2>1, <2>2, SweepSafe DEF Reverting
  <2>4. Expendable'
    BY <2>1, <2>3 DEF Expendable, Undoing, Ended, Cleaning, TypeInv, TypeOK
  <2>5. QED
    BY <2>3, <2>4 DEF OnDisk
<1>4. CASE Rollback
  BY <1>4, RollbackSafe
<1>5. CASE RevertScratch
  <2>1. Sweep("rmscratch", "exit23", {}) /\ pc = "rmscratch"
    BY <1>5 DEF RevertScratch, Sweep
  <2>2. \A p \in rest : p \notin Image(Slot) /\ ~Needed(p)
    BY <2>1, ScratchNotNeeded DEF Expendable
  <2>3. /\ OnDisk' /\ Backing' /\ Ready'
        /\ UNCHANGED <<manifest, downloads>>
        /\ \/ pc' = "rmscratch" /\ rest' \subseteq rest
           \/ pc' = "exit23"
    BY <2>1, <2>2, SweepSafe DEF Reverting, Ended
  <2>4. Expendable'
    BY <2>1, <2>3 DEF Expendable, Undoing, Ended, Cleaning
  <2>5. QED
    BY <2>3, <2>4 DEF OnDisk
<1>6. QED
  BY <1>1, <1>2, <1>3, <1>4, <1>5 DEF Revert

\* What an interrupted move leaves: the disk as it was, or one path written.
LEMMA CutOff ==
  ASSUME TypeInv, fs' \in Interrupted, fs' # fs
  PROVE  LET id == Len(rollbacks) IN
         /\ id \in DOMAIN rollbacks /\ id \in DOMAIN Slot
         /\ \/ /\ pc = "move"
               /\ \E n \in {Absent, Partial(Slot[id]), fs[Top]} :
                    fs' = [fs EXCEPT ![Slot[id]] = n]
            \/ /\ pc = "rollback" /\ Exists(Slot[id])
               /\ \E n \in {Absent, Partial(rollbacks[id]), fs[Slot[id]]} :
                    fs' = [fs EXCEPT ![rollbacks[id]] = n]
<1> DEFINE id == Len(rollbacks)
<1>1. CASE pc = "move"
  <2>1. fs' \in CutShort(Top, Slot[id])
    BY <1>1 DEF Interrupted
  <2>2. id \in DOMAIN rollbacks
    BY <1>1 DEF TypeInv, TypeOK, Control
  <2>3. QED
    BY <1>1, <2>1, <2>2, Slots DEF CutShort
<1>2. CASE pc = "rollback" /\ id # 0
  <2>1. fs' \in CutShort(Slot[id], rollbacks[id])
    BY <1>2 DEF Interrupted
  <2>2. id \in DOMAIN rollbacks
    BY <1>2 DEF TypeInv, TypeOK
  <2>3. QED
    BY <1>2, <2>1, <2>2, Slots DEF CutShort
<1>3. CASE ~(pc = "move" \/ (pc = "rollback" /\ id # 0))
  BY <1>3 DEF Interrupted
<1>4. QED
  BY <1>1, <1>2, <1>3

\* Cut short or not, everything is at its place or whole in a rollback file.
LEMMA CutSaved ==
  ASSUME TypeInv, Safe, [Next]_vars, fs' \in Interrupted
  PROVE  Saved'
<1> DEFINE id == Len(rollbacks)
<1>1. before' = before /\ Owed' \subseteq Owed
  BY JobFixed, Fixed, OwedShrinks
<1> SUFFICES ASSUME NEW p \in Owed, IsObject(before[p])
             PROVE  \/ fs'[p] = before[p]
                    \/ \E i \in DOMAIN Slot : fs'[Slot[i]] = before[p]
  BY <1>1 DEF Saved
<1>2. p \in Path /\ p \notin Image(Slot) /\ before[p] = Prior(p)
  BY Before, ProtectedIsNoSlot, OwedAreProtected
<1>3. \/ fs[p] = before[p]
      \/ \E i \in DOMAIN Slot : fs[Slot[i]] = before[p]
  BY DEF Safe, Saved
<1>4. fs[p] = before[p] => Needed(p)
  BY <1>2, Kinds DEF Needed
<1>5. CASE fs' = fs
  BY <1>3, <1>5
<1>6. CASE fs' # fs /\ pc = "move"
  <2>1. id \in DOMAIN Slot /\ Slot[id] \in Image(Slot) /\ fs[Slot[id]] = Absent
    BY <1>6, CutOff, Slots DEF Safe, SlotsHold, Reverting, Ended
  <2>2. \A r \in Path : r # Slot[id] => fs'[r] = fs[r]
    BY <1>6, CutOff DEF TypeInv, TypeOK
  <2>3. \A i \in DOMAIN Slot : fs[Slot[i]] = before[p] => Slot[i] # Slot[id]
    BY <1>2, <2>1, Kinds
  <2>4. QED
    BY <1>2, <1>3, <2>1, <2>2, <2>3, Slots
<1>7. CASE fs' # fs /\ pc = "rollback"
  <2> DEFINE t == rollbacks[id]
  <2>1. /\ t \in Path /\ t \notin Image(Slot) /\ id \in DOMAIN Slot
        /\ Needed(t) => fs[Slot[id]] = fs[t]
    BY <1>7, CutOff, Slots DEF Safe, Backing, Hidden, OldestFirst, Exists, Whole
  <2>2. \A r \in Path : r # t => fs'[r] = fs[r]
    BY <1>7, CutOff DEF TypeInv, TypeOK
  <2>3. \A i \in DOMAIN Slot : fs'[Slot[i]] = fs[Slot[i]]
    BY <2>1, <2>2, Slots
  <2>4. QED
    BY <1>2, <1>3, <1>4, <2>1, <2>2, <2>3
<1>8. QED
  BY <1>5, <1>6, <1>7, CutOff

\* A signal in the middle of a backup leaves in the rollback file nothing, half
\* a copy of what is torn from now on, or a whole copy of what is still there.
LEMMA CutOnDisk ==
  ASSUME TypeInv, Safe, Yielding, Signal, pc = "move", fs' # fs
  PROVE  OnDisk' /\ \A q \in Path : q \notin Image(Slot) /\ Needed(q)' => Needed(q)
<1> DEFINE id == Len(rollbacks)
           here == Slot[id]
<1>1. /\ UNCHANGED <<job, rollbacks, stack, force>> /\ pc' = "revert"
      /\ before' = before /\ Owed' \subseteq Owed
  BY Fixed, OwedShrinks DEF Signal, Reverting, Goto, Fatal, logs, ctl, Next
<1>2. /\ id \in DOMAIN rollbacks /\ rollbacks[id] = Top
      /\ id \in DOMAIN Slot /\ here \in Path /\ here \in Image(Slot)
      /\ Top \in Path /\ Top \notin Image(Slot) /\ Top \notin Hidden
  BY Slots DEF TypeInv, TypeOK, Control, Safe, Backing, Hidden
<1>3. PICK n \in {Absent, Partial(here), fs[Top]} : fs' = [fs EXCEPT ![here] = n]
  BY CutOff DEF Signal
<1>4. /\ fs'[here] = n /\ fs[here] = Absent
      /\ \A r \in Path : r # here => fs'[r] = fs[r]
  BY <1>2, <1>3 DEF TypeInv, TypeOK, Safe, SlotsHold, Reverting, Ended
<1>5. \A i \in DOMAIN Slot : i # id => Slot[i] # here /\ fs'[Slot[i]] = fs[Slot[i]]
  BY <1>2, <1>4, Slots, SequenceAssumption
<1>6. \A q \in Path : Needed(q)' =>
        \/ q = here /\ Needed(Top) /\ fs'[q] = fs[Top]
        \/ q # here /\ Needed(q) /\ fs'[q] = fs[q]
  BY <1>1, <1>2, <1>3, <1>4, Kinds DEF Needed
<1>7. InPlace'
  BY <1>1, <1>2, <1>6 DEF Safe, InPlace
<1>8. SlotsHold'
  <2>1. ASSUME NEW i \in DOMAIN rollbacks, Needed(Slot[i])'
        PROVE  fs'[Slot[i]].of = rollbacks[i]
    <3>1. CASE i = id
      BY <1>2, <1>6, <2>1, <3>1 DEF Safe, InPlace
    <3>2. CASE i # id
      BY <1>5, <1>6, <2>1, <3>2, Slots DEF Safe, SlotsHold
    <3>3. QED
      BY <3>1, <3>2
  <2>2. QED
    BY <1>1, <2>1 DEF SlotsHold, Reverting
<1>9. OldestFirst'
  <2>1. ASSUME NEW i \in DOMAIN rollbacks, Needed(rollbacks[i])'
        PROVE  fs'[Slot[i]] = Absent \/ Whole(i)'
    <3>1. rollbacks[i] \in Path /\ rollbacks[i] \notin Image(Slot)
      BY Slots DEF Safe, Backing, Hidden
    <3>2. Needed(rollbacks[i]) /\ fs'[rollbacks[i]] = fs[rollbacks[i]]
      BY <1>1, <1>2, <1>6, <2>1, <3>1
    <3>3. CASE i # id
      BY <1>5, <3>2, <3>3, Slots DEF Safe, OldestFirst, Whole, Reverting, Ended
    <3>4. CASE i = id
      <4>1. CASE n = Partial(here)
        <5>1. Top \in torn'
          BY <1>4, <4>1 DEF Signal
        <5>2. fs[Top].of = Top
          BY <1>2, <3>2, <3>4 DEF Safe, InPlace
        <5>3. QED
          BY <1>1, <1>2, <2>1, <3>2, <3>4, <5>1, <5>2 DEF Needed, Owed
      <4>2. CASE n = fs[Top]
        <5>1. force = "never" => Yields(Top)
          <6>1. stack # <<>> /\ Len(stack) \in DOMAIN stack
            BY DEF TypeInv, TypeOK, Control, Nested
          <6>2. QED
            BY <6>1 DEF Yielding, Top
        <5>2. Yields(Top) => Yields(rollbacks[id])'
          BY <1>1, <1>2, Fixed DEF Yields
        <5>3. QED
          BY <1>1, <1>2, <1>4, <3>2, <3>4, <4>2, <5>1, <5>2 DEF Whole, Reverting
      <4>3. QED
        BY <1>4, <3>4, <4>1, <4>2
    <3>5. QED
      BY <3>3, <3>4
  <2>2. ASSUME NEW i \in DOMAIN rollbacks, NEW j \in DOMAIN rollbacks,
               i < j, rollbacks[i] = rollbacks[j], Needed(Slot[j])'
        PROVE  fs'[Slot[i]] = Absent
    <3>1. i # id /\ fs'[Slot[i]] = fs[Slot[i]]
      BY <1>5, <2>2, Slots DEF TypeInv, TypeOK
    <3>2. CASE j = id
      BY <1>2, <1>6, <2>2, <3>1, <3>2 DEF Safe, OldestFirst, Whole, Reverting, Ended
    <3>3. CASE j # id
      BY <1>5, <1>6, <2>2, <3>1, <3>3, Slots DEF Safe, OldestFirst
    <3>4. QED
      BY <3>2, <3>3
  <2>3. QED
    BY <1>1, <2>1, <2>2 DEF OldestFirst, Needed
<1>10. Saved'
  BY CutSaved DEF Signal, Next
<1>11. QED
  BY <1>2, <1>6, <1>7, <1>8, <1>9, <1>10 DEF OnDisk

\* What the process leaves that is stopped.
LEMMA StopSaved ==
  ASSUME TypeInv, Safe, [Next]_vars, Signal \/ Kill \/ UNCHANGED vars
  PROVE  Saved'
<1>1. fs' \in Interrupted
  BY DEF Signal, Kill, vars, Interrupted
<1>2. QED
  BY <1>1, CutSaved

LEMMA StopSafe ==
  ASSUME TypeInv, GoesOn, Safe, Yielding, Signal \/ Kill \/ UNCHANGED vars,
         pc' \notin Ended
  PROVE  Safe'
<1> USE DEF Goto, Fatal, logs, menuv, ctl, Safe
<1>1. /\ UNCHANGED <<job, rollbacks, manifest, downloads, step, stack,
                     made, rest>>
      /\ \/ Signal /\ pc' = "revert" /\ pc \notin Reverting \cup Ended
         \/ UNCHANGED vars
  BY DEF Signal, Kill, vars, Ended
<1>2. /\ OnDisk' /\ \A q \in Path : q \notin Image(Slot) /\ Needed(q)' => Needed(q)
      /\ fs' # fs => pc = "move"
  <2>1. ASSUME fs' # fs PROVE Signal /\ pc = "move"
    <3>1. Signal /\ fs' \in Interrupted /\ pc # "rollback"
      BY <1>1, <2>1 DEF Signal, vars, Reverting
    <3>2. QED
      BY <2>1, <3>1, CutOff
  <2>2. CASE fs' # fs
    BY <2>1, <2>2, CutOnDisk
  <2>3. CASE fs' = fs
    <3>1. torn' = torn
      <4>1. pc = "move" => fs[Slot[Len(rollbacks)]] = Absent
        BY Slots DEF SlotsHold, Reverting, Ended, TypeInv, TypeOK, Control
      <4>2. Absent # Partial(Slot[Len(rollbacks)])
        BY Kinds
      <4>3. QED
        BY <1>1, <2>3, <4>1, <4>2 DEF Signal, vars
    <3>2. QED
      BY <1>1, <2>3, <3>1, QuietStep DEF vars
  <2>4. QED
    BY <2>1, <2>2, <2>3
<1>3. cur' = cur
  BY <1>1, Fixed DEF cur
<1>4. Expendable'
  BY <1>1, <1>2
  DEF vars, Expendable, Reverting, Undoing, Ended, Cleaning, TypeInv, TypeOK
<1>5. Backing'
  BY <1>1, <1>3 DEF vars, Backing, Top, Nested, Between
<1>6. Ready'
  BY <1>1, <1>3, Fixed, OwedFixed DEF vars, Ready, Needed, Between
<1>7. QED
  BY <1>2, <1>4, <1>5, <1>6 DEF OnDisk

LEMMA InitSafe == Init => SafeInv
<1> SUFFICES ASSUME Init PROVE Safe
  BY DEF SafeInv, Safe
<1>1. TypeInv
  BY InitType
<1>2. /\ fs = before /\ DOMAIN rollbacks = {} /\ DOMAIN stack = {}
      /\ manifest = {} /\ downloads = {} /\ pc = "task"
  BY DEF Init
<1>3. InPlace
  BY <1>1, <1>2, Before, Kinds DEF InPlace, Needed
<1>4. SlotsHold
  BY <1>1, <1>2, Before, Slots DEF SlotsHold
<1>5. OldestFirst /\ Saved
  BY <1>2 DEF OldestFirst, Saved
<1>6. Expendable /\ Backing /\ Ready
  BY <1>2 DEF Expendable, Backing, Ready, Undoing, Ended, Cleaning, Nested, Between
<1>7. QED
  BY <1>3, <1>4, <1>5, <1>6 DEF Safe

\* The rollbacks, once dropped, stay dropped.
LEMMA FateStays == [Next]_vars /\ fate' = "open" => fate = "open"
BY JobFixed

\* After the end nothing happens any more.
LEMMA EndStays == [Next]_vars /\ pc \in Ended => UNCHANGED vars
BY DEF Ended, Next, Run, Install, Cleanup, Revert, StartTask, Gate,
   MenusInstalled, Declare, PermitWrite, PickObsolete, BackupDescend,
   BackupReady, LogRollback, MoveAway, MakeParent, ParentsDone, MakeEntryDir,
   MakeLink, Record, Claim, OpenFile, WriteFile, Unclaim, Reclaim, Fetched,
   RegisterMenu, FinishStages, DropSlots, DropDownloads, DropScratch,
   DropDirs, Forget, Show, RevertMenus, RevertDownloads, RevertFiles,
   Rollback, RevertScratch, Sweep, Signal, Kill, Ending

LEMMA NextSafe == TypeInv /\ SafeInv /\ Yielding /\ [Next]_vars => SafeInv'
<1> SUFFICES ASSUME TypeInv, SafeInv, Yielding, [Next]_vars, fate' = "open"
             PROVE  Saved' /\ (pc' \notin Ended => Safe')
  BY DEF SafeInv
<1>1. fate = "open" /\ Saved /\ (pc \notin Ended => Safe) /\ GoesOn
  BY FateStays, RevertGoesOn DEF SafeInv
<1>2. CASE pc \in Ended
  <2>1. UNCHANGED vars
    BY <1>2, EndStays
  <2>2. Saved' /\ pc' = pc
    BY <1>1, <2>1, Fixed, OwedFixed DEF vars, Saved
  <2>3. QED
    BY <1>2, <2>2 DEF Ended
<1>3. CASE pc \notin Ended
  <2>1. Safe
    BY <1>1, <1>3
  <2>2. CASE Install
    BY <1>1, <2>1, <2>2, StartSafe, QuietSafe, LogSafe, MoveSafe, WriteSafe
    DEF Install, Safe
  <2>3. CASE Cleanup
    BY <1>1, <2>1, <2>3, CleanupSafe DEF Safe
  <2>4. CASE Revert
    BY <1>1, <2>1, <2>4, RevertSafe DEF Safe
  <2>5. CASE Signal \/ Kill \/ UNCHANGED vars
    BY <1>1, <2>1, <2>5, StopSafe, StopSaved
  <2>6. QED
    BY <2>2, <2>3, <2>4, <2>5 DEF Next, Run, Ending
<1>4. QED
  BY <1>2, <1>3

-----------------------------------------------------------------------------
(* "Never" is obeyed.                                                      *)
(*                                                                         *)
(* A step changes the disk in one of four ways: something is put at one    *)
(* path (Puts), backup_file() moves something away (Stows), do_rollbacks() *)
(* tries to move it back (Restores), or either is cut short (Cuts); any    *)
(* other leaves it (Keeps, Logs).  What is said of the disk is proved for  *)
(* these.                                                                  *)

\* The loops of the deletions.
Sweeps == {"dropslots", "dropdownloads", "dropscratch", "dropdirs",
           "rmdownloads", "rmfiles", "rmscratch"}

\* Where something may be put that was not empty.
Hits(a) ==
  \/ ~Exists(a)
  \/ pc \in {"open", "write"} /\ a = cur.path
  \/ pc \in Sweeps /\ a \in rest
  \/ pc = "move" /\ a = Slot[Len(rollbacks)]

Keeps == fs' = fs /\ (rollbacks' = rollbacks \/ rollbacks' = <<>>)
Logs  == fs' = fs /\ pc = "log" /\ rollbacks' = Append(rollbacks, Top)
Puts  == /\ rollbacks' = rollbacks
         /\ \E a \in Path : \E n \in {Absent, Dir, Partial(a), New(a)} :
              Hits(a) /\ fs' = [fs EXCEPT ![a] = n]
Stows == /\ pc = "move" /\ rollbacks' = rollbacks
         /\ fs' = Moved(Top, Slot[Len(rollbacks)])
Restores ==
  /\ pc = "rollback" /\ Len(rollbacks) # 0
  /\ rollbacks' = SubSeq(rollbacks, 1, Len(rollbacks) - 1)
  /\ \/ fs' = fs
     \/ /\ Exists(Slot[Len(rollbacks)])
        /\ \/ fs' = Moved(Slot[Len(rollbacks)], rollbacks[Len(rollbacks)])
           \/ fs' = [fs EXCEPT ![rollbacks[Len(rollbacks)]] = Absent]

Cuts ==
  /\ rollbacks' = rollbacks /\ rollbacks # <<>>
  /\ LET id == Len(rollbacks) IN
     \/ /\ pc = "move"
        /\ \E n \in {Absent, Partial(Slot[id]), fs[Top]} :
             fs' = [fs EXCEPT ![Slot[id]] = n]
     \/ /\ pc = "rollback" /\ Exists(Slot[id])
        /\ \E n \in {Absent, Partial(rollbacks[id]), fs[Slot[id]]} :
             fs' = [fs EXCEPT ![rollbacks[id]] = n]

DiskStep == Keeps \/ Logs \/ Puts \/ Stows \/ Restores \/ Cuts

\* A round of a deletion loop clears one path of its list at most.
LEMMA SweepStep ==
  ASSUME TypeInv, NEW here \in Sweeps, NEW next, NEW queue, Sweep(here, next, queue)
  PROVE  DiskStep
<1>1. rollbacks' = rollbacks /\ pc = here
  BY DEF Sweep, logs
<1>2. CASE fs' = fs
  BY <1>1, <1>2 DEF DiskStep, Keeps
<1>3. CASE fs' # fs
  <2>1. PICK p \in rest : fs' = [fs EXCEPT ![p] = Absent]
    BY <1>3 DEF Sweep, TryDelete, Deleted
  <2>2. p \in Path /\ Hits(p)
    BY <1>1, <2>1 DEF TypeInv, TypeOK, Hits
  <2> QED
    BY <1>1, <2>1, <2>2 DEF DiskStep, Puts
<1> QED
  BY <1>2, <1>3

\* mkdir() puts a directory where nothing was.
LEMMA MakeDirPuts ==
  ASSUME NEW a \in Path, MakeDir(a), rollbacks' = rollbacks
  PROVE  DiskStep
BY DEF MakeDir, DiskStep, Keeps, Puts, Hits

\* Every step is one of them.
LEMMA EveryDiskStep == TypeInv /\ [Next]_vars => DiskStep
<1> SUFFICES ASSUME TypeInv, [Next]_vars PROVE DiskStep
  OBVIOUS
<1>1. pc \in Busy => cur.path \in Path
  BY CurrentTask
<1>2. ASSUME UNCHANGED <<fs, rollbacks>> PROVE DiskStep
  BY <1>2 DEF DiskStep, Keeps
<1>3. CASE \/ StartTask \/ Gate \/ MenusInstalled \/ Declare \/ PermitWrite
           \/ PickObsolete \/ BackupDescend \/ BackupReady \/ ParentsDone
           \/ Record \/ Claim \/ Unclaim \/ Reclaim \/ Fetched \/ RegisterMenu
  BY <1>2, <1>3 DEF StartTask, Gate, MenusInstalled, Declare, PermitWrite, PickObsolete,
      BackupDescend, BackupReady, ParentsDone, Record, Claim, Unclaim, Reclaim,
      Fetched, RegisterMenu, logs
<1>4. CASE LogRollback
  BY <1>4 DEF LogRollback, DiskStep, Logs
<1>5. CASE MoveAway
  <2>1. pc = "move" /\ rollbacks' = rollbacks /\ Slot[Len(rollbacks)] \in Path
    BY <1>5, SequenceAssumption DEF MoveAway, TypeInv, TypeOK, Control
  <2>2. CASE fs' = Moved(Top, Slot[Len(rollbacks)])
    BY <2>1, <2>2 DEF DiskStep, Stows
  <2>3. CASE fs' = fs
    BY <1>2, <2>1, <2>3
  <2>4. CASE fs' = [fs EXCEPT ![Slot[Len(rollbacks)]] = Absent]
    BY <2>1, <2>4 DEF DiskStep, Puts, Hits
  <2> QED
    BY <1>5, <2>2, <2>3, <2>4 DEF MoveAway, MoveFailed
<1>6. CASE MakeParent
  <2>1. pc = "parents" /\ rollbacks' = rollbacks
    BY <1>6 DEF MakeParent, logs
  <2>2. Target \in Path
    BY <1>1, <2>1, SequenceAssumption
    DEF Target, NextSlot, SlotsLeft, TypeInv, TypeOK, Control, Busy, Between
  <2>3. PICK a \in Missing : MakeDir(a)
    BY <1>6 DEF MakeParent
  <2>4. a \in Path
    BY <2>2, <2>3, TreeAssumption DEF Missing
  <2> QED
    BY <2>1, <2>3, <2>4, MakeDirPuts
<1>7. CASE MakeEntryDir
  BY <1>1, <1>7, MakeDirPuts DEF MakeEntryDir, logs, Busy
<1>8. CASE MakeLink
  <2>1. cur.path \in Path /\ rollbacks' = rollbacks
    BY <1>1, <1>8 DEF MakeLink, logs, Busy
  <2> QED
    BY <1>8, <2>1 DEF MakeLink, DiskStep, Keeps, Puts, Hits
<1>9. CASE OpenFile \/ WriteFile
  <2>1. cur.path \in Path /\ rollbacks' = rollbacks /\ pc \in {"open", "write"}
    BY <1>1, <1>9 DEF OpenFile, WriteFile, logs, Busy
  <2>2. \/ fs' = fs
        \/ \E n \in {Absent, Dir, Partial(cur.path), New(cur.path)} :
             fs' = [fs EXCEPT ![cur.path] = n]
    BY <1>9 DEF OpenFile, WriteFile
  <2> QED
    BY <2>1, <2>2 DEF DiskStep, Keeps, Puts, Hits
<1>10. CASE FinishStages \/ Forget \/ Show
  BY <1>10 DEF FinishStages, Forget, Show, DiskStep, Keeps
<1>11. CASE DropSlots \/ DropDownloads \/ DropScratch
  BY <1>11, SweepStep DEF DropSlots, DropDownloads, DropScratch, Sweeps
<1>12. CASE DropDirs
  <2>1. pc = "dropdirs" /\ rollbacks' = rollbacks
    BY <1>12 DEF DropDirs, logs
  <2>2. CASE fs' = fs
    BY <1>2, <2>1, <2>2
  <2>3. CASE fs' # fs
    <3>1. PICK p \in rest : fs' = [fs EXCEPT ![p] = Absent]
      BY <1>12, <2>3 DEF DropDirs, TryDelete, Deleted
    <3>2. p \in Path /\ Hits(p)
      BY <2>1, <3>1 DEF TypeInv, TypeOK, Hits, Sweeps
    <3> QED
      BY <2>1, <3>1, <3>2 DEF DiskStep, Puts
  <2> QED
    BY <2>2, <2>3
<1>13. CASE RevertMenus \/ Signal \/ Kill \/ UNCHANGED vars
  <2>1. rollbacks' = rollbacks
    BY <1>13 DEF RevertMenus, Signal, Kill, vars, logs
  <2>2. CASE fs' = fs
    BY <1>2, <2>1, <2>2
  <2>3. CASE fs' # fs
    <3>1. fs' \in Interrupted
      BY <1>13, <2>3 DEF RevertMenus, Signal, Kill, vars
    <3> QED
      BY <2>1, <2>3, <3>1, CutOff DEF Cuts, DiskStep
  <2> QED
    BY <2>2, <2>3
<1>14. CASE RevertDownloads \/ RevertFiles \/ RevertScratch
  BY <1>14, SweepStep DEF RevertDownloads, RevertFiles, RevertScratch, Sweeps
<1>15. CASE Rollback
  <2>1. CASE Len(rollbacks) = 0
    BY <1>2, <1>15, <2>1 DEF Rollback
  <2>2. CASE Len(rollbacks) # 0
    <3> DEFINE id == Len(rollbacks)
    <3>1. /\ pc = "rollback" /\ rollbacks' = SubSeq(rollbacks, 1, id - 1)
          /\ \/ CanMove(Slot[id], rollbacks[id]) /\ fs' = Moved(Slot[id], rollbacks[id])
             \/ MoveFailed(Slot[id], rollbacks[id])
      BY <1>15, <2>2 DEF Rollback
    <3> QED
      BY <2>2, <3>1 DEF CanMove, MoveFailed, DiskStep, Restores
  <2> QED
    BY <2>1, <2>2
<1> QED
  BY <1>3, <1>4, <1>5, <1>6, <1>7, <1>8, <1>9, <1>10, <1>11, <1>12, <1>13, <1>14,
     <1>15
  DEF Next, Run, Install, Cleanup, Revert, Ending

\* The entries of archives are the only tasks that are installed.
LEMMA WorkDelivers ==
  ASSUME NEW archive \in Seq(Entry), NEW control \in Seq(Entry)
  PROVE  Work(archive, control) \in
           Seq({t \in Task : t.do = "install" => t \in Image(archive) \cup Image(control)})
<1> DEFINE S == {t \in Task : t.do = "install" => t \in Image(archive) \cup Image(control)}
<1>1. Dest \in Path
  BY DestInPath
<1>2. \A d \in {"gate", "menusdone", "obsolete"} : Bare(d) \in S
  BY <1>1 DEF Bare, Task
<1>3. DestTask \in S
  BY <1>1 DEF DestTask, Task
<1>4. ASSUME NEW d \in {"put", "fetch", "menu", "manifest", "declare"}, NEW s \in Seq(Path)
      PROVE  Owns(d, s) \in Seq(S)
  <2>1. \A i \in DOMAIN s : Own(d, s[i]) \in S
    BY DEF Own, Task
  <2> HIDE DEF S
  <2> QED BY <2>1 DEF Owns
<1>5. archive \in Seq(S) /\ control \in Seq(S)
  <2>1. \A i \in DOMAIN archive : archive[i] \in S
    BY DEF Entry, Image
  <2>2. \A i \in DOMAIN control : control[i] \in S
    BY DEF Entry, Image
  <2> HIDE DEF S
  <2> QED BY <2>1, <2>2
<1> HIDE DEF S
<1>6. /\ <<DestTask, Bare("gate")>> \in Seq(S) /\ <<Bare("gate")>> \in Seq(S)
      /\ <<Bare("menusdone")>> \in Seq(S) /\ <<Bare("obsolete"), Bare("gate")>> \in Seq(S)
  BY <1>2, <1>3
<1>7. /\ Owns("fetch", Downloads) \in Seq(S) /\ Owns("menu", MenuFiles) \in Seq(S)
      /\ Owns("put", Scripts) \in Seq(S) /\ Owns("declare", Manifests) \in Seq(S)
      /\ Owns("manifest", Manifests) \in Seq(S)
  BY <1>4, SequenceAssumption
<1>8. \A s, t \in Seq(S) : s \o t \in Seq(S)
  OBVIOUS
<1>9. Work(archive, control) \in Seq(S)
  BY <1>5, <1>6, <1>7, <1>8 DEF Work
<1> QED
  BY <1>9 DEF S

\* What is installed is an entry of an archive of this run's package.
LEMMA Delivered ==
  ASSUME TypeInv, pc \in Busy, cur.do = "install"
  PROVE  cur \in Image(Scenarios[job].archive) \cup Image(Scenarios[job].control)
<1> DEFINE sc == Scenarios[job]
           S == {t \in Task : t.do = "install" => t \in Image(sc.archive) \cup Image(sc.control)}
<1>1. sc.archive \in Seq(Entry) /\ sc.control \in Seq(Entry)
      /\ sc.work = Work(sc.archive, sc.control)
  BY ScenarioAssumption DEF TypeInv, TypeOK
<1>2. Plan \in Seq(S)
  BY <1>1, WorkDelivers DEF Plan
<1>3. step \in 1 .. Len(Plan)
  BY <1>2 DEF TypeInv, TypeOK, Control
<1>4. cur \in S
  <2> HIDE DEF S
  <2> QED BY <1>2, <1>3 DEF cur
<1> QED
  BY <1>4

\* The lists the loops go through hold only what their names say.
Queues ==
  /\ pc = "dropslots" => rest \subseteq Image(Slot)
  /\ pc \in {"dropdownloads", "rmdownloads"} => rest \subseteq downloads
  /\ pc \in {"dropscratch", "rmscratch"} => rest \subseteq ScratchDirs
  /\ pc = "dropdirs" => rest \subseteq oldDirs
  /\ pc = "rmfiles" => rest \subseteq manifest

\* Once the rollbacks are given up, no task is done and nothing is restored.
Committed ==
  fate # "open" =>
    /\ pc \notin Busy \cup {"task"}
    /\ rollbacks = <<>> \/ pc \in Ended
    /\ downloads \subseteq OwnPaths
    /\ \A p \in manifest : ~Needed(p)

\* Whatever its path, an object that was there before the run is where it was,
\* or in a rollback file of that path.
Homes ==
  /\ \A q \in Path : fs[q].kind = "prior" =>
       /\ before[fs[q].of] = fs[q]
       /\ fs[q].of = q \/ q \in Image(Slot)
  /\ \A i \in DOMAIN rollbacks :
       fs[Slot[i]].kind = "prior" => fs[Slot[i]].of = rollbacks[i]

\* What a signal has torn is of the same kind, and came before the revert.
Halves ==
  /\ torn # {} => pc \in Reverting \cup Ended
  /\ force = "never" => \A p \in torn : Yields(p)

NeverInv == Queues /\ Committed /\ Homes /\ Yielding /\ Halves

\* A loop keeps to its list, and leaves for the next one.
LEMMA SweepQueues ==
  ASSUME NEW here, NEW next, NEW queue, here # next, Sweep(here, next, queue)
  PROVE  /\ pc = here /\ UNCHANGED <<job, manifest, downloads>>
         /\ \/ pc' = here /\ rest' \subseteq rest
            \/ pc' = next /\ rest' = queue
BY DEF Sweep, Goto, logs

\* Every loop is entered with its own list, and the logs do not change meanwhile.
LEMMA NextQueues ==
  ASSUME TypeInv, Queues, [Next]_vars
  PROVE  Queues'
<1> USE DEF Queues, Goto, Fatal
<1>1. oldDirs' = oldDirs
  BY JobFixed, Fixed
<1>2. CASE Install
  <2>1. pc' \notin Sweeps
    <3>1. CASE StartTask
      <4>1. Plan[step + 1] \in Task
        BY <3>1, CurrentTask DEF StartTask, TypeInv, TypeOK, PlanTask
      <4> QED
        BY <3>1, <4>1 DEF StartTask, FirstStep, Sweeps, Task
    <3> QED
      BY <1>2, <3>1
      DEF Install, Gate, MenusInstalled, Declare, PermitWrite, PickObsolete,
          BackupDescend, BackupReady, LogRollback, MoveAway, MakeParent, MakeDir,
          ParentsDone, Create, MakeEntryDir, MakeLink, Record, Claim, OpenFile,
          WriteFile, Unclaim, Reclaim, Fetched, RegisterMenu, Sweeps
  <2> QED
    BY <2>1 DEF Sweeps
<1>3. CASE FinishStages
  BY <1>3, SequenceAssumption DEF FinishStages, Image, TypeInv, TypeOK
<1>4. CASE DropSlots
  BY <1>4, SweepQueues DEF DropSlots
<1>5. CASE DropDownloads
  BY <1>5, SweepQueues DEF DropDownloads
<1>6. CASE DropScratch
  BY <1>1, <1>6, SweepQueues DEF DropScratch, ObsoleteDirs
<1>7. CASE DropDirs
  BY <1>1, <1>7 DEF DropDirs
<1>8. CASE Forget \/ Show
  BY <1>8 DEF Forget, Show
<1>9. CASE RevertMenus
  BY <1>9 DEF RevertMenus, logs
<1>10. CASE RevertDownloads
  BY <1>10, SweepQueues DEF RevertDownloads, Condemned
<1>11. CASE RevertFiles
  BY <1>11, SweepQueues DEF RevertFiles
<1>12. CASE Rollback
  BY <1>12 DEF Rollback
<1>13. CASE RevertScratch
  BY <1>13, SweepQueues DEF RevertScratch
<1>14. CASE Signal \/ Kill
  BY <1>14 DEF Signal, Kill
<1>15. CASE UNCHANGED vars
  BY <1>1, <1>15 DEF vars
<1> QED
  BY <1>2, <1>3, <1>4, <1>5, <1>6, <1>7, <1>8, <1>9, <1>10, <1>11, <1>12, <1>13,
     <1>14, <1>15
  DEF Next, Run, Cleanup, Revert, Ending

\* What gives the rollbacks up, and what happens after that.
LEMMA WhenGivenUp ==
  ASSUME SafeInv, Committed, [Next]_vars, fate' # "open"
  PROVE  /\ pc' \notin Busy \cup {"task"}
         /\ pc \notin Busy
         /\ fate = "open" => \/ pc = "task" /\ FinishStages /\ rollbacks' = <<>>
                             \/ pc = "show" /\ Show
         /\ manifest' \subseteq manifest /\ downloads' \subseteq downloads
<1> USE DEF Goto, Fatal, logs
<1>1. CASE fate # "open"
  <2>1. pc \notin Busy \cup {"task"}
    BY <1>1 DEF Committed
  <2>2. ~Install
    BY <2>1 DEF Busy, Install, StartTask, Gate, MenusInstalled, Declare, PermitWrite,
        PickObsolete, BackupDescend, BackupReady, LogRollback, MoveAway, MakeParent,
        ParentsDone, MakeEntryDir, MakeLink, Record, Claim, OpenFile, WriteFile,
        Unclaim, Reclaim, Fetched, RegisterMenu
  <2>3. CASE Cleanup
    BY <1>1, <2>1, <2>3
    DEF Busy, Cleanup, FinishStages, DropSlots, DropDownloads, DropScratch, DropDirs,
        Forget, Show, Sweep
  <2>4. CASE Revert
    BY <1>1, <2>1, <2>4
    DEF Busy, Revert, RevertMenus, RevertDownloads, RevertFiles, Rollback,
        RevertScratch, Sweep
  <2>5. CASE Signal \/ Kill \/ UNCHANGED vars
    BY <1>1, <2>1, <2>5 DEF Busy, Signal, Kill, vars
  <2> QED
    BY <2>2, <2>3, <2>4, <2>5 DEF Next, Run, Ending
<1>2. CASE fate = "open"
  <2>1. FinishStages \/ Forget \/ Show
    BY <1>2 DEF Next, Run, Install, Cleanup, Revert, StartTask, Gate, MenusInstalled,
        Declare, PermitWrite, PickObsolete, BackupDescend, BackupReady,
        LogRollback, MoveAway, MakeParent, ParentsDone, MakeEntryDir, MakeLink,
        Record, Claim, OpenFile, WriteFile, Unclaim, Reclaim, Fetched,
        RegisterMenu, DropSlots, DropDownloads, DropScratch,
        DropDirs, RevertMenus, RevertDownloads, RevertFiles,
        Rollback, RevertScratch, Sweep, Signal, Kill, Ending, vars
  <2>2. ~Forget
    BY <1>2 DEF Forget, SafeInv, Safe, Expendable, Cleaning, Ended
  <2>3. CASE FinishStages
    BY <1>2, <2>3 DEF FinishStages, Busy
  <2>4. CASE Show
    BY <1>2, <2>4 DEF Show, Busy
  <2> QED
    BY <2>1, <2>2, <2>3, <2>4
<1> QED
  BY <1>1, <1>2

\* What puts something on the disk, or nothing, puts there nothing of the user's.
LEMMA NewHome ==
  ASSUME TypeInv, Keeps \/ Logs \/ Puts, NEW q \in Path, fs'[q].kind = "prior"
  PROVE  fs[q].kind = "prior" /\ fs'[q] = fs[q]
<1>2. CASE fs' = fs
  BY <1>2
<1>3. CASE Puts
  <2>1. PICK a \in Path :
          \E n \in {Absent, Dir, Partial(a), New(a)} : fs' = [fs EXCEPT ![a] = n]
    BY <1>3 DEF Puts
  <2>2. PICK n : fs' = [fs EXCEPT ![a] = n] /\ n.kind # "prior"
    BY <2>1, Kinds
  <2> QED
    BY <2>2 DEF TypeInv, TypeOK
<1> QED
  BY <1>2, <1>3 DEF Keeps, Logs

\* A run that has given up its rollbacks only goes on to its end.
LEMMA NextCommitted ==
  ASSUME TypeInv, SafeInv, Committed, [Next]_vars
  PROVE  Committed'
<1> SUFFICES ASSUME fate' # "open"
             PROVE  /\ pc' \notin Busy \cup {"task"}
                    /\ rollbacks' = <<>> \/ pc' \in Ended
                    /\ downloads' \subseteq OwnPaths
                    /\ \A p \in manifest' : ~Needed(p)'
  BY DEF Committed
<1>1. /\ pc' \notin Busy \cup {"task"} /\ pc \notin Busy
      /\ fate = "open" => \/ pc = "task" /\ FinishStages /\ rollbacks' = <<>>
                          \/ pc = "show" /\ Show
      /\ manifest' \subseteq manifest /\ downloads' \subseteq downloads
  BY WhenGivenUp
<1>2. downloads \subseteq OwnPaths
  BY <1>1 DEF Committed, SafeInv, Safe, Expendable, Ended
<1>3. pc # "rollback" \/ rollbacks = <<>>
  BY <1>1 DEF Committed, Ended
<1>4. rollbacks' = <<>> \/ pc' \in Ended
  <2>1. CASE fate = "open"
    BY <1>1, <2>1 DEF Show, Goto, Ended
  <2>2. CASE fate # "open" /\ pc \in Ended
    BY <2>2, EndStays DEF vars
  <2>3. CASE fate # "open" /\ pc \notin Ended
    <3>1. rollbacks = <<>>
      BY <2>3 DEF Committed
    <3>2. DiskStep
      BY EveryDiskStep
    <3> QED
      BY <1>1, <3>1, <3>2 DEF DiskStep, Keeps, Logs, Puts, Stows, Restores, Cuts, Busy
  <2> QED
    BY <2>1, <2>2, <2>3
<1>5. \A p \in manifest : ~Needed(p)
  BY <1>1 DEF Committed, SafeInv, Safe, Expendable, Undoing, Ended
<1>6. ASSUME NEW p \in manifest', Needed(p)' PROVE FALSE
  <2>1. p \in Path /\ p \in manifest
    BY <1>1 DEF TypeInv, TypeOK
  <2>2. CASE pc = "rollback"
    <3>1. DiskStep /\ rollbacks = <<>>
      BY <1>3, <2>2, EveryDiskStep
    <3>2. Keeps \/ Puts
      BY <2>2, <3>1 DEF DiskStep, Logs, Stows, Restores, Cuts
    <3> QED
      BY <1>5, <1>6, <2>1, <3>2, NewHome, OwedShrinks DEF Needed
  <2>3. CASE pc # "rollback"
    <3>1. pc # "move"
      BY <1>1 DEF Busy
    <3>2. Keeps \/ Logs \/ Puts
      BY <2>3, <3>1, EveryDiskStep DEF DiskStep, Stows, Restores, Cuts
    <3>3. fs[p].kind = "prior" /\ fs'[p] = fs[p]
      BY <1>6, <2>1, <3>2, NewHome DEF Needed
    <3> QED
      BY <1>5, <1>6, <2>1, <3>3, OwedShrinks DEF Needed
  <2> QED
    BY <2>2, <2>3
<1> QED
  BY <1>1, <1>2, <1>4, <1>5, <1>6

\* While a task is done, or something is restored, the rollbacks count.
LEMMA StillOpen ==
  ASSUME SafeInv, Committed, pc \in Busy \/ (pc = "rollback" /\ rollbacks # <<>>)
  PROVE  Safe
BY DEF SafeInv, Committed, Ended, Busy

\* backup_file() takes an object from its path to that path's rollback file.
LEMMA StowsHome ==
  ASSUME TypeInv, Safe, Homes, job' = job, Stows
  PROVE  Homes'
<1> DEFINE id == Len(rollbacks)
<1>1. before' = before
  BY Fixed
<1>2. id \in DOMAIN rollbacks /\ rollbacks[id] = Top
  BY DEF Stows, TypeInv, TypeOK, Control, Safe, Backing
<1>3. PICK t \in Path : t = Top /\ t \notin Image(Slot)
  BY <1>2, Slots DEF Safe, Backing, Hidden
<1>4. PICK h \in Path : h = Slot[id] /\ h \in Image(Slot)
  BY <1>2, Slots
<1>5. /\ fs'[t] = Absent /\ fs'[h] = fs[t]
      /\ \A r \in Path : r \notin {t, h} => fs'[r] = fs[r]
  BY <1>3, <1>4, MovedValue DEF Stows, TypeInv, TypeOK
<1>6. ASSUME NEW q \in Path, fs'[q].kind = "prior"
      PROVE  /\ before[fs'[q].of] = fs'[q]
             /\ fs'[q].of = q \/ q \in Image(Slot)
  <2>1. q # t
    BY <1>5, <1>6, Kinds
  <2> QED
    BY <1>3, <1>4, <1>5, <1>6, <2>1 DEF Homes
<1>7. ASSUME NEW i \in DOMAIN rollbacks, fs'[Slot[i]].kind = "prior"
      PROVE  fs'[Slot[i]].of = rollbacks[i]
  <2>1. CASE i = id
    BY <1>2, <1>3, <1>4, <1>5, <1>7, <2>1 DEF Homes
  <2>2. CASE i # id
    <3>1. Slot[i] \in Path /\ Slot[i] \in Image(Slot) /\ Slot[i] # h
      BY <1>2, <1>4, <2>2, Slots, SequenceAssumption
    <3> QED
      BY <1>3, <1>5, <1>7, <3>1 DEF Homes
  <2> QED
    BY <2>1, <2>2
<1>8. rollbacks' = rollbacks
  BY DEF Stows
<1> QED
  BY <1>1, <1>6, <1>7, <1>8 DEF Homes

\* do_rollbacks() takes it back to the path that was logged.
LEMMA RestoresHome ==
  ASSUME TypeInv, Safe, Homes, job' = job, Restores
  PROVE  Homes'
<1> DEFINE id == Len(rollbacks)
<1>1. before' = before
  BY Fixed
<1>2. /\ id \in DOMAIN rollbacks
      /\ DOMAIN rollbacks' \subseteq DOMAIN rollbacks
      /\ \A i \in DOMAIN rollbacks' : rollbacks'[i] = rollbacks[i] /\ i # id
  <2>1. id \in Nat /\ id \in DOMAIN rollbacks /\ rollbacks \in Seq(Path)
    BY DEF Restores, TypeInv, TypeOK
  <2>2. rollbacks' = SubSeq(rollbacks, 1, id - 1)
    BY DEF Restores
  <2>3. DOMAIN rollbacks' = 1 .. (id - 1) /\ DOMAIN rollbacks = 1 .. id
    BY <2>1, <2>2
  <2> QED
    BY <2>1, <2>2, <2>3
<1>3. PICK t \in Path : t = rollbacks[id] /\ t \notin Image(Slot)
  BY <1>2, Slots DEF Safe, Backing, Hidden
<1>4. PICK h \in Path : h = Slot[id] /\ h \in Image(Slot)
  BY <1>2, Slots
<1>5. \/ fs' = fs
      \/ fs' = Moved(h, t)
      \/ fs' = [fs EXCEPT ![t] = Absent]
  BY <1>3, <1>4 DEF Restores
<1>6. /\ \A r \in Path : r \notin {t, h} => fs'[r] = fs[r]
      /\ fs'[h] = fs[h] \/ fs'[h] = Absent
      /\ fs'[t] = fs[t] \/ fs'[t] = Absent \/ fs'[t] = fs[h]
  <2>1. CASE fs' = fs
    BY <2>1
  <2>2. CASE fs' = Moved(h, t)
    BY <1>3, <1>4, <2>2, MovedValue DEF TypeInv, TypeOK
  <2>3. CASE fs' = [fs EXCEPT ![t] = Absent]
    BY <1>3, <1>4, <2>3 DEF TypeInv, TypeOK
  <2> QED
    BY <1>5, <2>1, <2>2, <2>3
<1>7. fs[h].kind = "prior" => fs[h].of = t
  BY <1>2, <1>3, <1>4 DEF Homes
<1>8. ASSUME NEW q \in Path, fs'[q].kind = "prior"
      PROVE  /\ before[fs'[q].of] = fs'[q]
             /\ fs'[q].of = q \/ q \in Image(Slot)
  <2>1. CASE fs'[q] = fs[q]
    BY <1>8, <2>1 DEF Homes
  <2>2. CASE fs'[q] # fs[q]
    <3>1. q = t /\ fs'[q] = fs[h]
      BY <1>6, <1>8, <2>2, Kinds
    <3> QED
      BY <1>4, <1>7, <1>8, <3>1 DEF Homes
  <2> QED
    BY <2>1, <2>2
<1>9. ASSUME NEW i \in DOMAIN rollbacks', fs'[Slot[i]].kind = "prior"
      PROVE  fs'[Slot[i]].of = rollbacks'[i]
  <2>1. /\ i \in DOMAIN rollbacks /\ rollbacks'[i] = rollbacks[i]
        /\ Slot[i] \in Path /\ Slot[i] # t /\ Slot[i] # h
    BY <1>2, <1>3, <1>4, Slots, SequenceAssumption
  <2>2. fs'[Slot[i]] = fs[Slot[i]]
    BY <1>6, <2>1
  <2> QED
    BY <1>9, <2>1, <2>2 DEF Homes
<1> QED
  BY <1>1, <1>8, <1>9 DEF Homes

\* A move that is cut short copies an object there, and leaves the original.
LEMMA CutsHome ==
  ASSUME TypeInv, Safe, Homes, job' = job, Cuts
  PROVE  Homes'
<1> DEFINE id == Len(rollbacks)
<1>1. before' = before /\ rollbacks' = rollbacks
  BY Fixed DEF Cuts
<1>2. id \in DOMAIN rollbacks
  BY DEF Cuts, TypeInv, TypeOK
<1>3. PICK t \in Path : t = rollbacks[id] /\ t \notin Image(Slot)
  BY <1>2, Slots DEF Safe, Backing, Hidden
<1>4. PICK h \in Path : h = Slot[id] /\ h \in Image(Slot)
  BY <1>2, Slots
<1>5. PICK q \in {t, h} : \E n \in {Absent, Partial(q), fs[t], fs[h]} :
        fs' = [fs EXCEPT ![q] = n]
  BY <1>3, <1>4 DEF Cuts, Safe, Backing
<1>6. PICK n \in {Absent, Partial(q), fs[t], fs[h]} : fs' = [fs EXCEPT ![q] = n]
  BY <1>5
<1>7. fs'[q] = n /\ \A r \in Path : r # q => fs'[r] = fs[r]
  BY <1>3, <1>4, <1>6 DEF TypeInv, TypeOK
<1>8. n.kind = "prior" => before[n.of] = n /\ n.of = t
  BY <1>2, <1>3, <1>4, <1>6, Kinds DEF Homes
<1>9. \A r \in Path : fs'[r].kind = "prior" =>
        before[fs'[r].of] = fs'[r] /\ (fs'[r].of = r \/ r \in Image(Slot))
  BY <1>3, <1>4, <1>6, <1>7, <1>8 DEF Homes
<1>10. ASSUME NEW i \in DOMAIN rollbacks, fs'[Slot[i]].kind = "prior"
       PROVE  fs'[Slot[i]].of = rollbacks[i]
  <2>1. CASE Slot[i] = q
    <3>1. i = id
      BY <1>2, <1>3, <1>4, <2>1, Slots, SequenceAssumption
    <3> QED
      BY <1>3, <1>7, <1>8, <1>10, <2>1, <3>1
  <2>2. CASE Slot[i] # q
    BY <1>7, <1>10, <2>2, Slots DEF Homes
  <2> QED
    BY <2>1, <2>2
<1> QED
  BY <1>1, <1>9, <1>10 DEF Homes

\* The steps that put something somewhere take nothing of the user's anywhere.
LEMMA OtherHome ==
  ASSUME TypeInv, SafeInv, Committed, Homes, job' = job, Keeps \/ Logs \/ Puts
  PROVE  Homes'
<1>1. before' = before
  BY Fixed
<1>2. \A q \in Path : fs'[q].kind = "prior" => fs[q].kind = "prior" /\ fs'[q] = fs[q]
  BY NewHome
<1>3. \A i \in DOMAIN rollbacks' :
        fs'[Slot[i]].kind = "prior" => fs'[Slot[i]].of = rollbacks'[i]
  <2>1. CASE Keeps \/ Puts
    <3>1. rollbacks' = rollbacks \/ rollbacks' = <<>>
      BY <2>1 DEF Keeps, Puts
    <3>2. \A i \in DOMAIN rollbacks : Slot[i] \in Path
      BY Slots
    <3> QED
      BY <1>2, <3>1, <3>2 DEF Homes
  <2>2. CASE Logs
    <3>1. Safe /\ pc = "log"
      BY <2>2, StillOpen DEF Logs, Busy
    <3>2. /\ DOMAIN rollbacks' = DOMAIN rollbacks \cup {Len(rollbacks) + 1}
          /\ \A i \in DOMAIN rollbacks : rollbacks'[i] = rollbacks[i]
      BY <2>2, AppendProperties DEF Logs, TypeInv, TypeOK
    <3>3. Len(rollbacks) + 1 \in DOMAIN Slot
      BY <3>1, SequenceAssumption DEF TypeInv, TypeOK, Control, SlotsLeft, Nested
    <3>4. fs[Slot[Len(rollbacks) + 1]] = Absent
      BY <3>1, <3>3 DEF Safe, SlotsHold, Reverting, Ended, TypeInv, TypeOK
    <3> QED
      BY <2>2, <3>2, <3>4, Kinds DEF Homes, Logs
  <2> QED
    BY <2>1, <2>2
<1> QED
  BY <1>1, <1>2, <1>3 DEF Homes

\* Whatever the step, the user's objects are home or in the rollback files.
LEMMA NextHomes ==
  ASSUME TypeInv, SafeInv, Committed, Homes, [Next]_vars
  PROVE  Homes'
<1>1. job' = job /\ DiskStep
  BY JobFixed, EveryDiskStep
<1>2. CASE Keeps \/ Logs \/ Puts
  BY <1>1, <1>2, OtherHome
<1>3. CASE Stows
  <2>1. Safe
    BY <1>3, StillOpen DEF Stows, Busy
  <2> QED
    BY <1>1, <1>3, <2>1, StowsHome
<1>4. CASE Restores
  <2>1. Safe
    BY <1>4, StillOpen DEF Restores, TypeInv, TypeOK
  <2> QED
    BY <1>1, <1>4, <2>1, RestoresHome
<1>5. CASE Cuts
  <2>1. Safe
    BY <1>5, StillOpen DEF Cuts, Busy
  <2> QED
    BY <1>1, <1>5, <2>1, CutsHome
<1> QED
  BY <1>1, <1>2, <1>3, <1>4, <1>5 DEF DiskStep

\* backup_file() is only called for what permit_write() lets go, or for an
\* obsolete file, and goes from there to what is below.
LEMMA NextYielding ==
  ASSUME TypeInv, SafeInv, Committed, Yielding, [Next]_vars
  PROVE  Yielding'
<1> USE DEF Goto, Fatal, logs, menuv, ctl
<1>1. Ceded' = Ceded /\ \A p : Yields(p)' = Yields(p)
  BY JobFixed, Fixed DEF Yields
<1>2. CASE PermitWrite
  <2>1. pc \in Busy /\ stack = <<>>
    BY <1>2 DEF PermitWrite, Busy, TypeInv, Control, Nested, Between
  <2>2. cur \in Task /\ cur.do = "install"
    BY <1>2, <2>1, StillOpen, CurrentTask DEF PermitWrite, Safe, Ready
  <2>3. CASE stack' = stack
    BY <2>1, <2>3 DEF Yielding
  <2>4. CASE stack' # stack /\ force' = "never"
    <3>1. cur.kind # "dir" /\ stack' = <<cur.path>>
      BY <1>2, <2>4 DEF PermitWrite
    <3>2. cur.name \in old
      BY <1>2, <2>4 DEF PermitWrite, Verdict, Asked
    <3>3. cur.path \in Ceded
      BY <2>1, <2>2, <3>1, <3>2, Delivered DEF Ceded
    <3>4. \A i \in DOMAIN stack' : stack'[i] = cur.path
      BY <3>1
    <3> QED
      BY <1>1, <3>3, <3>4 DEF Yielding, Yields
  <2> QED
    BY <2>3, <2>4 DEF Yielding
<1>3. CASE PickObsolete
  <2>1. CASE stack' = stack
    BY <1>1, <1>3, <2>1 DEF PickObsolete, Yielding
  <2>2. CASE \E p \in Obsolete : stack' = <<p>>
    <3>1. PICK p \in Obsolete : stack' = <<p>>
      BY <2>2
    <3>2. p \in Ceded
      BY DEF Obsolete, Ceded
    <3>3. \A i \in DOMAIN stack' : stack'[i] = p
      BY <3>1
    <3> QED
      BY <1>1, <3>2, <3>3 DEF Yielding, Yields
  <2> QED
    BY <1>3, <2>1, <2>2 DEF PickObsolete
<1>4. CASE BackupDescend
  <2>1. PICK t \in Path : t = Top /\ stack # <<>>
    BY <1>4, StackType DEF BackupDescend, TypeInv, TypeOK, Control, Nested
  <2>2. PICK c \in Path : Parent[c] = t /\ stack' = Append(stack, c)
    BY <1>4, <2>1 DEF BackupDescend, Children
  <2>3. /\ DOMAIN stack' = DOMAIN stack \cup {Len(stack) + 1}
        /\ \A i \in DOMAIN stack : stack'[i] = stack[i]
        /\ stack'[Len(stack) + 1] = c
    BY <2>2, AppendProperties DEF TypeInv, TypeOK
  <2>4. Above[c] = Above[t] \cup {t}
    BY <2>1, <2>2, TreeAssumption
  <2>5. Len(stack) \in DOMAIN stack /\ t = stack[Len(stack)]
    BY <2>1 DEF Top, TypeInv, TypeOK
  <2>6. Yields(t) => Yields(c)
    BY <2>4 DEF Yields
  <2>7. force' = force
    BY <1>4 DEF BackupDescend
  <2> QED
    BY <1>1, <2>3, <2>5, <2>6, <2>7 DEF Yielding
<1>5. CASE MoveAway
  <2>1. CASE stack' = Pop
    <3>1. stack \in Seq(Path) /\ stack # <<>>
      BY <1>5 DEF MoveAway, TypeInv, TypeOK, Control, Nested
    <3>2. DOMAIN stack' \subseteq DOMAIN stack /\ \A i \in DOMAIN stack' : stack'[i] = stack[i]
      BY <2>1, <3>1, LastOf DEF Pop
    <3>3. force' = force
      BY <1>5 DEF MoveAway
    <3> QED
      BY <1>1, <3>2, <3>3 DEF Yielding
  <2>2. CASE stack' = stack
    BY <1>1, <1>5, <2>2 DEF MoveAway, Yielding
  <2> QED
    BY <1>5, <2>1, <2>2 DEF MoveAway
<1>6. ASSUME UNCHANGED <<force, stack>> PROVE Yielding'
  BY <1>1, <1>6 DEF Yielding
<1>7. \/ PermitWrite \/ PickObsolete \/ BackupDescend \/ MoveAway
      \/ UNCHANGED <<force, stack>>
  BY DEF Next, Run, Install, Cleanup, Revert, StartTask, Gate, MenusInstalled,
     Declare, BackupReady, LogRollback, MakeParent, ParentsDone, MakeEntryDir,
     MakeLink, Record, Claim, OpenFile, WriteFile, Unclaim, Reclaim, Fetched,
     RegisterMenu, FinishStages, DropSlots, DropDownloads, DropScratch,
     DropDirs, Forget, Show, RevertMenus, RevertDownloads, RevertFiles,
     Rollback, RevertScratch, Sweep, Signal, Kill, Ending, vars
<1> QED
  BY <1>2, <1>3, <1>4, <1>5, <1>6, <1>7

\* Only a signal tears something, of what backup_file() is at work on.
LEMMA NextHalves ==
  ASSUME TypeInv, Yielding, Halves, [Next]_vars
  PROVE  Halves'
<1>1. \A p : Yields(p) => Yields(p)'
  BY JobFixed, Fixed DEF Yields
<1>2. GoesOn
  BY RevertGoesOn
<1>3. CASE Signal
  <2>1. pc \notin Ended /\ pc' \in Reverting \cup Ended /\ force' = force
    BY <1>3 DEF Signal, Goto, Fatal, Reverting, Ended
  <2>2. torn' = torn \/ (pc = "move" /\ torn' = torn \cup {Top})
    BY <1>3 DEF Signal
  <2>3. pc = "move" => stack # <<>> /\ Len(stack) \in DOMAIN stack
    BY DEF TypeInv, TypeOK, Control, Nested
  <2>4. pc = "move" /\ force = "never" => Yields(Top)
    BY <2>3 DEF Yielding, Top
  <2> QED
    BY <1>1, <2>1, <2>2, <2>4 DEF Halves
<1>4. CASE ~Signal
  <2>1. torn' = torn
    BY <1>4, JobFixed
  <2> QED
    BY <1>1, <1>2, <2>1 DEF Halves, GoesOn
<1> QED
  BY <1>3, <1>4

\* The five hold at the start, and every step keeps them.
LEMMA InitNever == Init => NeverInv
<1> SUFFICES ASSUME Init PROVE NeverInv
  OBVIOUS
<1>1. TypeInv
  BY InitType
<1>2. Homes
  <2>1. \A q \in Path : fs[q].kind = "prior" => fs[q] = Prior(q)
    BY <1>1, Before, Kinds DEF Init
  <2> QED
    BY <2>1, Kinds DEF Homes, Init
<1> QED
  BY <1>2 DEF Init, NeverInv, Queues, Committed, Yielding, Halves

LEMMA NextNever == TypeInv /\ SafeInv /\ NeverInv /\ [Next]_vars => NeverInv'
BY NextQueues, NextCommitted, NextHomes, NextYielding, NextHalves DEF NeverInv

\* Until the installation has succeeded, every object of the user's is at its
\* path or whole in a rollback file: whatever the archives hold, the user
\* answers, fails, or interrupts.  Two kinds are excepted, as in NothingLost: a
\* link to a directory where the package has one, and what a signal has torn
\* (permit_write, backup_file, do_rollbacks).
THEOREM NothingIsLost == Spec => []NothingLost
<1>1. Init => SafeInv /\ NeverInv
  BY InitSafe, InitNever
<1>2. TypeInv /\ SafeInv /\ NeverInv /\ [Next]_vars => SafeInv'
  BY NextSafe DEF NeverInv
<1>3. TypeInv /\ SafeInv /\ NeverInv /\ [Next]_vars => NeverInv'
  BY NextNever
<1>4. SafeInv => NothingLost
  BY DEF SafeInv, Saved, Owed, NothingLost
<1> QED
  BY <1>1, <1>2, <1>3, <1>4, TypeInvariant, PTL DEF Spec

\* An object of the user's that is to be spared is none of those that a step
\* may remove, replace or move.
LEMMA NeverStep ==
  ASSUME TypeInv, SafeInv, NeverInv, [Next]_vars, force = "never",
         pc \notin Ended, NEW p \in Spared, fs[p].kind = "prior"
  PROVE  fs'[p] = fs[p]
<1>1. /\ p \in Path /\ p \notin OwnPaths /\ p \notin Image(Slot)
      /\ p \notin old /\ p \notin Taken /\ ~Yields(p)
  BY DEF Spared, Protected, OwnPaths, Yields
<1>2. fs[p].of = p /\ before[p] = fs[p]
  BY <1>1 DEF NeverInv, Homes
<1>3. Needed(p)
  BY <1>1, <1>2 DEF Needed, Owed, Protected, NeverInv, Halves
<1>4. p \notin ScratchDirs
  BY <1>2, Before, Kinds
<1>5. p \notin downloads
  BY <1>1 DEF NeverInv, Committed, SafeInv, Safe, Expendable
<1>6. pc = "rmfiles" => p \notin rest
  BY <1>3 DEF NeverInv, Queues, Committed, SafeInv, Safe, Expendable, Undoing, Ended
<1>7. pc \in Sweeps => p \notin rest
  BY <1>1, <1>4, <1>5, <1>6 DEF NeverInv, Queues, Sweeps, old
<1>8. ~Hits(p)
  <2>1. Exists(p)
    BY Kinds DEF Exists
  <2>2. pc \in {"open", "write"} => p # cur.path
    BY <1>3, StillOpen DEF NeverInv, Busy, Safe, Ready
  <2>3. pc = "move" => p # Slot[Len(rollbacks)]
    BY <1>1, Slots DEF TypeInv, TypeOK, Control
  <2> QED
    BY <1>7, <2>1, <2>2, <2>3 DEF Hits
<1>9. DiskStep
  BY EveryDiskStep
<1>10. CASE Keeps \/ Logs
  BY <1>10 DEF Keeps, Logs
<1>11. CASE Puts
  <2>1. PICK a \in Path : Hits(a) /\ \E n : fs' = [fs EXCEPT ![a] = n]
    BY <1>11 DEF Puts
  <2>2. a # p
    BY <1>8, <2>1
  <2> QED
    BY <1>1, <2>1, <2>2 DEF TypeInv, TypeOK
<1>12. CASE Stows
  <2>1. Safe /\ pc = "move"
    BY <1>12, StillOpen DEF NeverInv, Stows, Busy
  <2>2. PICK t \in Path : t = Top /\ Yields(t) /\ t \notin Image(Slot)
    <3>1. stack # <<>> /\ Top \in Path
      BY <2>1, StackType DEF TypeInv, TypeOK, Control, Nested
    <3>2. Yields(Top)
      BY <3>1 DEF NeverInv, Yielding, Top, TypeInv, TypeOK
    <3>3. Top \notin Hidden
      BY <3>1, <2>1 DEF Safe, Backing, Top, TypeInv, TypeOK
    <3> QED
      BY <3>1, <3>2, <3>3 DEF Hidden
  <2>3. PICK h \in Path : h = Slot[Len(rollbacks)] /\ h \in Image(Slot)
    BY <2>1, Slots DEF TypeInv, TypeOK, Control
  <2>4. fs' = Moved(t, h)
    BY <1>12, <2>2, <2>3 DEF Stows
  <2> QED
    BY <1>1, <2>2, <2>3, <2>4, MovedValue DEF TypeInv, TypeOK
<1>13. CASE Restores
  <2>1. Safe /\ Len(rollbacks) \in DOMAIN rollbacks
    BY <1>13, StillOpen DEF NeverInv, Restores, TypeInv, TypeOK
  <2>2. PICK t \in Path : t = rollbacks[Len(rollbacks)] /\ t \notin Image(Slot)
    BY <2>1, Slots DEF Safe, Backing, Hidden
  <2>3. PICK h \in Path : h = Slot[Len(rollbacks)] /\ h \in Image(Slot)
    BY <2>1, Slots
  <2>4. \/ fs' = fs
        \/ Exists(h) /\ (fs' = Moved(h, t) \/ fs' = [fs EXCEPT ![t] = Absent])
    BY <1>13, <2>2, <2>3 DEF Restores
  <2>5. Exists(h) => t # p
    BY <1>1, <1>3, <2>1, <2>2, <2>3 DEF Safe, OldestFirst, Exists, Whole
  <2> QED
    BY <1>1, <2>2, <2>3, <2>4, <2>5, MovedValue DEF TypeInv, TypeOK
<1>14. CASE Cuts
  <2>1. Safe /\ Len(rollbacks) \in DOMAIN rollbacks
    BY <1>14, StillOpen DEF NeverInv, Cuts, Busy, TypeInv, TypeOK
  <2>2. PICK t \in Path : t = rollbacks[Len(rollbacks)]
    BY <2>1, Slots
  <2>3. PICK h \in Path : h = Slot[Len(rollbacks)] /\ h \in Image(Slot)
    BY <2>1, Slots
  <2>4. \E q : /\ q = h \/ (q = t /\ Exists(h))
              /\ \E n : fs' = [fs EXCEPT ![q] = n]
    BY <1>14, <2>2, <2>3 DEF Cuts
  <2>5. Exists(h) => t # p
    BY <1>1, <1>3, <2>1, <2>2, <2>3 DEF Safe, OldestFirst, Exists, Whole
  <2> QED
    BY <1>1, <2>3, <2>4, <2>5 DEF TypeInv, TypeOK
<1> QED
  BY <1>9, <1>10, <1>11, <1>12, <1>13, <1>14 DEF DiskStep

\* After "never", whatever the archives hold, whatever fails and whoever
\* interrupts, no step moves or replaces an object of the user's, those aside
\* that go with a directory of the previous version, and a link to a directory
\* where the package has one (permit_write, backup_file, delete_files,
\* do_rollbacks).
THEOREM NeverIsObeyed == Spec => NeverMeansNever
<1>1. Init => NeverInv
  BY InitNever
<1>2. Init => SafeInv
  BY InitSafe
<1>3. TypeInv /\ SafeInv /\ NeverInv /\ [Next]_vars => SafeInv'
  BY NextSafe DEF NeverInv
<1>4. TypeInv /\ SafeInv /\ NeverInv /\ [Next]_vars => NeverInv'
  BY NextNever
<1>5. TypeInv /\ SafeInv /\ NeverInv /\ [Next]_vars =>
        [force = "never" =>
           \A p \in Spared : fs[p].kind = "prior" => fs'[p] = fs[p]]_vars
  BY NeverStep, EndStays DEF vars
<1> QED
  BY <1>1, <1>2, <1>3, <1>4, <1>5, TypeInvariant, PTL DEF Spec, NeverMeansNever

-----------------------------------------------------------------------------
(* What a run leaves behind it, if its package is Sound. *)


\* The paths at which this run may make a directory.
Streets == Roads(Scenarios[job])

\* Where the program is before anything is reverted.
Working == Busy \cup {"task"}
Forward == Working \cup Cleaning \cup {"show"}

\* The tasks that are over.
Over(k) == k \in DOMAIN Plan /\ (k < step \/ (k = step /\ pc \notin Busy))

\* No package's entries collide, with each other or with a link to a directory.
Sounds == \A s \in DOMAIN Scenarios : Sound(Scenarios[s])

LEMMA NothingTaken == ASSUME Sounds, TypeInv PROVE Taken = {}
<1>1. Sound(Scenarios[job])
  BY DEF Sounds, TypeInv, TypeOK
<1> QED
  BY <1>1 DEF Sound, Taken, links, Plan

-----------------------------------------------------------------------------
(* What a plan holds. *)

\* Where the elements of two sequences are in their concatenation.
LEMMA Joined ==
  ASSUME NEW s \in Seq(Task), NEW t \in Seq(Task)
  PROVE  /\ s \o t \in Seq(Task) /\ Len(s \o t) = Len(s) + Len(t)
         /\ \A i \in 1 .. Len(s) : (s \o t)[i] = s[i]
         /\ \A i \in 1 .. Len(t) : (s \o t)[Len(s) + i] = t[i]
OBVIOUS

\* Where the elements of three sequences are in theirs.
LEMMA ThreeParts ==
  ASSUME NEW R \in Seq(Task), NEW D \in Seq(Task), NEW L \in Seq(Task)
         PROVE  \E w \in Seq(Task) :
           /\ w = (R \o D) \o L /\ Len(w) = Len(R) + Len(D) + Len(L)
           /\ \A i \in 1 .. Len(R) : w[i] = R[i]
           /\ \A i \in 1 .. Len(D) : w[Len(R) + i] = D[i]
           /\ \A i \in 1 .. Len(L) : w[Len(R) + Len(D) + i] = L[i]
<1>1. PICK e \in Seq(Task) :
           /\ e = R \o D /\ Len(e) = Len(R) + Len(D)
           /\ \A i \in 1 .. Len(R) : e[i] = R[i]
           /\ \A i \in 1 .. Len(D) : e[Len(R) + i] = D[i]
  BY Joined, Zenon
<1>2. PICK w \in Seq(Task) :
           /\ w = e \o L /\ Len(w) = Len(e) + Len(L)
           /\ \A i \in 1 .. Len(e) : w[i] = e[i]
           /\ \A i \in 1 .. Len(L) : w[Len(e) + i] = L[i]
  BY Joined, Zenon
<1>3. PICK r \in Nat, n \in Nat : r = Len(R) /\ n = Len(D)
  OBVIOUS
<1>4. \A i \in 1 .. r : w[i] = R[i]
  BY <1>1, <1>2, <1>3
<1>5. \A i \in 1 .. n : w[r + i] = D[i]
  BY <1>1, <1>2, <1>3
<1> QED
  <2>1. w = (R \o D) \o L
    BY <1>1, <1>2
  <2>2. Len(w) = Len(R) + Len(D) + Len(L)
    BY <1>1, <1>2
  <2>3. \A i \in 1 .. Len(L) : w[Len(R) + Len(D) + i] = L[i]
    BY <1>1, <1>2
  <2> QED
    BY <1>3, <1>4, <1>5, <2>1, <2>2, <2>3

\* The elements of two sequences are those of their concatenation.
LEMMA ImageConcat ==
  ASSUME NEW S, NEW s \in Seq(S), NEW t \in Seq(S)
  PROVE  s \o t \in Seq(S) /\ Image(s \o t) = Image(s) \cup Image(t)
<1>1. /\ s \o t \in Seq(S) /\ Len(s \o t) = Len(s) + Len(t)
      /\ \A i \in 1 .. Len(s) : (s \o t)[i] = s[i]
      /\ \A i \in 1 .. Len(t) : (s \o t)[Len(s) + i] = t[i]
  OBVIOUS
<1>2. /\ DOMAIN s = 1 .. Len(s) /\ DOMAIN t = 1 .. Len(t) /\ Len(s) \in Nat
      /\ Len(t) \in Nat /\ DOMAIN (s \o t) = 1 .. Len(s) + Len(t)
  BY <1>1
<1>3. \A i \in DOMAIN s : i \in DOMAIN (s \o t) /\ (s \o t)[i] = s[i]
  BY <1>1, <1>2
<1>4. \A i \in DOMAIN t : Len(s) + i \in DOMAIN (s \o t) /\ (s \o t)[Len(s) + i] = t[i]
  BY <1>1, <1>2
<1>5. ASSUME NEW i \in DOMAIN (s \o t)
      PROVE  (s \o t)[i] \in Image(s) \cup Image(t)
  <2>1. CASE i <= Len(s)
    BY <1>1, <1>2, <2>1 DEF Image
  <2>2. CASE i > Len(s)
    <3>1. i - Len(s) \in 1 .. Len(t) /\ i = Len(s) + (i - Len(s))
      BY <1>2, <2>2
    <3> QED
      BY <1>1, <1>2, <3>1 DEF Image
  <2> QED
    BY <1>2, <2>1, <2>2
<1>6. \A x \in Image(s) \cup Image(t) : x \in Image(s \o t)
  BY <1>3, <1>4 DEF Image
<1>7. \A x \in Image(s \o t) : x \in Image(s) \cup Image(t)
  BY <1>5 DEF Image
<1> QED
  BY <1>1, <1>6, <1>7

\* The tasks for the installer's own files are one for each.
LEMMA OwnsImage ==
  ASSUME NEW d, NEW s \in Seq(Path),
         d \in {"put", "fetch", "menu", "manifest", "declare"}
  PROVE  /\ Owns(d, s) \in Seq(Task)
         /\ Image(Owns(d, s)) = {Own(d, p) : p \in Image(s)}
<1>1. \A p \in Path : Own(d, p) \in Task
  BY DEF Own, Task
<1>2. DOMAIN Owns(d, s) = DOMAIN s /\ \A i \in DOMAIN s : Owns(d, s)[i] = Own(d, s[i])
  BY DEF Owns
<1>3. Owns(d, s) \in Seq(Task)
  BY <1>1 DEF Owns
<1> QED
  BY <1>2, <1>3 DEF Image

\* The plan is what it says it is.
LEMMA WorkImage ==
  ASSUME NEW archive \in Seq(Entry), NEW control \in Seq(Entry)
  PROVE  /\ Work(archive, control) \in Seq(Task)
         /\ Image(Work(archive, control)) =
              {DestTask, Bare("gate"), Bare("menusdone"), Bare("obsolete")}
                \cup {Own("fetch", p) : p \in Image(Downloads)}
                \cup {Own("menu", p) : p \in Image(MenuFiles)}
                \cup {Own("put", p) : p \in Image(Scripts)}
                \cup {Own("declare", p) : p \in Image(Manifests)}
                \cup {Own("manifest", p) : p \in Image(Manifests)}
                \cup Image(archive) \cup Image(control)
<1> DEFINE F == Owns("fetch", Downloads)
           M == Owns("menu", MenuFiles)
           P == Owns("put", Scripts)
           D == Owns("declare", Manifests)
           L == Owns("manifest", Manifests)
           s1 == <<DestTask, Bare("gate")>>
           s2 == s1 \o F
           s3 == s2 \o <<Bare("gate")>>
           s4 == s3 \o archive
           s5 == s4 \o M
           s6 == s5 \o <<Bare("menusdone")>>
           s7 == s6 \o P
           s8 == s7 \o <<Bare("obsolete"), Bare("gate")>>
           s9 == s8 \o control
           s10 == s9 \o D
           s11 == s10 \o L
<1>1. /\ DestTask \in Task /\ Bare("gate") \in Task /\ Bare("menusdone") \in Task
      /\ Bare("obsolete") \in Task
  BY DestInPath DEF DestTask, Bare, Task
<1>2. /\ F \in Seq(Task) /\ M \in Seq(Task) /\ P \in Seq(Task) /\ D \in Seq(Task)
      /\ L \in Seq(Task)
      /\ Image(F) = {Own("fetch", p) : p \in Image(Downloads)}
      /\ Image(M) = {Own("menu", p) : p \in Image(MenuFiles)}
      /\ Image(P) = {Own("put", p) : p \in Image(Scripts)}
      /\ Image(D) = {Own("declare", p) : p \in Image(Manifests)}
      /\ Image(L) = {Own("manifest", p) : p \in Image(Manifests)}
  BY OwnsImage, SequenceAssumption
<1>3. archive \in Seq(Task) /\ control \in Seq(Task)
  BY DEF Entry
<1>4. /\ s1 \in Seq(Task) /\ Image(s1) = {DestTask, Bare("gate")}
      /\ <<Bare("gate")>> \in Seq(Task) /\ Image(<<Bare("gate")>>) = {Bare("gate")}
      /\ <<Bare("menusdone")>> \in Seq(Task)
      /\ Image(<<Bare("menusdone")>>) = {Bare("menusdone")}
      /\ <<Bare("obsolete"), Bare("gate")>> \in Seq(Task)
      /\ Image(<<Bare("obsolete"), Bare("gate")>>) = {Bare("obsolete"), Bare("gate")}
  <2>1. \A x \in Task : <<x>> \in Seq(Task) /\ Image(<<x>>) = {x}
    BY DEF Image
  <2>2. \A x, y \in Task : <<x, y>> \in Seq(Task) /\ Image(<<x, y>>) = {x, y}
    <3> TAKE x \in Task, y \in Task
    <3>1. DOMAIN <<x, y>> = {1, 2} /\ <<x, y>>[1] = x /\ <<x, y>>[2] = y
      OBVIOUS
    <3> QED
      BY <3>1 DEF Image
  <2> QED
    BY <1>1, <2>1, <2>2
<1>15. Work(archive, control) = s11
  BY DEF Work
<1>16. /\ s2 = s1 \o F /\ s3 = s2 \o <<Bare("gate")>> /\ s4 = s3 \o archive
       /\ s5 = s4 \o M /\ s6 = s5 \o <<Bare("menusdone")>> /\ s7 = s6 \o P
       /\ s8 = s7 \o <<Bare("obsolete"), Bare("gate")>> /\ s9 = s8 \o control
       /\ s10 = s9 \o D /\ s11 = s10 \o L
  OBVIOUS
<1>18. PICK ga \in Seq(Task), gb \in Seq(Task) :
         /\ ga = <<Bare("menusdone")>> /\ Image(ga) = {Bare("menusdone")}
         /\ gb = <<Bare("obsolete"), Bare("gate")>>
         /\ Image(gb) = {Bare("obsolete"), Bare("gate")}
  BY <1>4
<1>17. \A s, t \in Seq(Task) :
         s \o t \in Seq(Task) /\ Image(s \o t) = Image(s) \cup Image(t)
  BY ImageConcat
<1> HIDE DEF F, M, P, D, L, s1, s2, s3, s4, s5, s6, s7, s8, s9, s10, s11
<1>5. s2 \in Seq(Task) /\ Image(s2) = Image(s1) \cup Image(F)
  BY <1>16, <1>17, <1>2, <1>4
<1>6. s3 \in Seq(Task) /\ Image(s3) = Image(s2) \cup {Bare("gate")}
  BY <1>16, <1>17, <1>4, <1>5
<1>7. s4 \in Seq(Task) /\ Image(s4) = Image(s3) \cup Image(archive)
  BY <1>16, <1>17, <1>3, <1>6
<1>8. s5 \in Seq(Task) /\ Image(s5) = Image(s4) \cup Image(M)
  BY <1>16, <1>17, <1>2, <1>7
<1>9. s6 \in Seq(Task) /\ Image(s6) = Image(s5) \cup {Bare("menusdone")}
  <2>1. s6 = s5 \o ga
    BY <1>16, <1>18
  <2> QED
    BY <1>17, <1>18, <1>8, <2>1
<1>10. s7 \in Seq(Task) /\ Image(s7) = Image(s6) \cup Image(P)
  BY <1>16, <1>17, <1>2, <1>9
<1>11. s8 \in Seq(Task) /\ Image(s8) = Image(s7) \cup {Bare("obsolete"), Bare("gate")}
  <2>1. s8 = s7 \o gb
    BY <1>16, <1>18
  <2> QED
    BY <1>17, <1>18, <1>10, <2>1
<1>12. s9 \in Seq(Task) /\ Image(s9) = Image(s8) \cup Image(control)
  BY <1>16, <1>17, <1>3, <1>11
<1>13. s10 \in Seq(Task) /\ Image(s10) = Image(s9) \cup Image(D)
  BY <1>16, <1>17, <1>2, <1>12
<1>14. s11 \in Seq(Task) /\ Image(s11) = Image(s10) \cup Image(L)
  <2>1. s11 = s10 \o L
    BY <1>16
  <2> QED
    BY <1>17, <1>2, <1>13, <2>1
<1> QED
  BY <1>2, <1>4, <1>5, <1>6, <1>7, <1>8, <1>9, <1>10, <1>11, <1>12, <1>13, <1>14, <1>15

\* The manifests are declared, each before it is written, and nothing else is.
LEMMA WorkManifests ==
  ASSUME NEW archive \in Seq(Entry), NEW control \in Seq(Entry)
  PROVE  LET w == Work(archive, control) IN
         /\ \A k \in DOMAIN w : w[k].do = "declare" =>
              \E m \in DOMAIN w : k < m /\ w[m].do = "manifest" /\ w[m].path = w[k].path
         /\ \A m \in DOMAIN w : w[m].do = "manifest" =>
              \E k \in DOMAIN w : k < m /\ w[k].do = "declare" /\ w[k].path = w[m].path
<1> DEFINE D == Owns("declare", Manifests)
           L == Owns("manifest", Manifests)
           R == <<DestTask, Bare("gate")>> \o Owns("fetch", Downloads)
                  \o <<Bare("gate")>> \o archive
                  \o Owns("menu", MenuFiles) \o <<Bare("menusdone")>>
                  \o Owns("put", Scripts) \o <<Bare("obsolete"), Bare("gate")>>
                  \o control
           S == {t \in Task : t.do \notin {"declare", "manifest"}}
           w == Work(archive, control)
<1>1. R \in Seq(S)
  <2>1. /\ DestTask \in S /\ Bare("gate") \in S /\ Bare("menusdone") \in S
        /\ Bare("obsolete") \in S
    BY DestInPath DEF DestTask, Bare, Task
  <2>2. ASSUME NEW d \in {"fetch", "menu", "put"}, NEW s \in Seq(Path)
        PROVE  Owns(d, s) \in Seq(S)
    <3>1. \A p \in Path : Own(d, p) \in S
      BY DEF Own, Task
    <3>2. \A i \in DOMAIN s : Own(d, s[i]) \in S
      BY <3>1
    <3> HIDE DEF S
    <3>3. \E n \in Nat : DOMAIN s = 1 .. n
      OBVIOUS
    <3> QED
      BY <3>2, <3>3 DEF Owns
  <2>3. /\ Owns("fetch", Downloads) \in Seq(S) /\ Owns("menu", MenuFiles) \in Seq(S)
        /\ Owns("put", Scripts) \in Seq(S)
    BY <2>2, SequenceAssumption
  <2>4. archive \in Seq(S) /\ control \in Seq(S)
    BY DEF Entry
  <2>5. /\ <<DestTask, Bare("gate")>> \in Seq(S) /\ <<Bare("gate")>> \in Seq(S)
        /\ <<Bare("menusdone")>> \in Seq(S)
        /\ <<Bare("obsolete"), Bare("gate")>> \in Seq(S)
    BY <2>1
  <2> HIDE DEF S
  <2> QED
    BY <2>3, <2>4, <2>5
<1>2. w = (R \o D) \o L
  BY DEF Work
<1>3. PICK n \in Nat : Len(Manifests) = n
  BY SequenceAssumption
<1>4. /\ D \in Seq(Task) /\ L \in Seq(Task) /\ Len(D) = n /\ Len(L) = n
      /\ DOMAIN D = 1 .. n /\ DOMAIN L = 1 .. n
      /\ \A i \in 1 .. n : D[i] = Own("declare", Manifests[i]) /\ L[i] = Own("manifest", Manifests[i])
  <2>1. DOMAIN Manifests = 1 .. n
    BY <1>3, SequenceAssumption
  <2>2. D \in Seq(Task) /\ L \in Seq(Task)
    BY OwnsImage, SequenceAssumption
  <2> QED
    BY <2>1, <2>2 DEF Owns
<1> HIDE DEF D, L, R, w
<1>5. PICK r \in Nat : Len(R) = r /\ DOMAIN R = 1 .. r /\ R \in Seq(Task)
  BY <1>1
<1>6. /\ DOMAIN w = 1 .. r + n + n
      /\ \A i \in 1 .. r : w[i] = R[i]
      /\ \A i \in 1 .. n : w[r + i] = D[i]
      /\ \A i \in 1 .. n : w[r + n + i] = L[i]
  <2>1. PICK v \in Seq(Task) :
           /\ v = (R \o D) \o L /\ Len(v) = Len(R) + Len(D) + Len(L)
           /\ \A i \in 1 .. Len(R) : v[i] = R[i]
           /\ \A i \in 1 .. Len(D) : v[Len(R) + i] = D[i]
           /\ \A i \in 1 .. Len(L) : v[Len(R) + Len(D) + i] = L[i]
    BY <1>4, <1>5, ThreeParts, Zenon
  <2>2. v = w
    BY <1>2, <2>1
  <2>3. DOMAIN v = 1 .. r + n + n
    BY <1>4, <1>5, <2>1
  <2>4. /\ \A i \in 1 .. r : v[i] = R[i]
        /\ \A i \in 1 .. n : v[r + i] = D[i]
        /\ \A i \in 1 .. n : v[r + n + i] = L[i]
    BY <1>4, <1>5, <2>1
  <2> QED
    BY <2>2, <2>3, <2>4
<1>7. /\ \A i \in 1 .. n : w[r + i].do = "declare" /\ w[r + i].path = Manifests[i]
      /\ \A i \in 1 .. n : w[r + n + i].do = "manifest" /\ w[r + n + i].path = Manifests[i]
      /\ \A i \in 1 .. r : w[i].do \notin {"declare", "manifest"}
  <2>1. \A i \in 1 .. r : R[i] \in S
    BY <1>1, <1>5
  <2>2. ASSUME NEW i \in 1 .. n
        PROVE  w[r + i].do = "declare" /\ w[r + i].path = Manifests[i]
    <3>1. w[r + i] = Own("declare", Manifests[i])
      BY <1>4, <1>6
    <3> QED
      BY <3>1 DEF Own
  <2>3. ASSUME NEW i \in 1 .. n
        PROVE  w[r + n + i].do = "manifest" /\ w[r + n + i].path = Manifests[i]
    <3>1. w[r + n + i] = Own("manifest", Manifests[i])
      BY <1>4, <1>6
    <3> QED
      BY <3>1 DEF Own
  <2>4. \A i \in 1 .. r : w[i].do \notin {"declare", "manifest"}
    BY <1>6, <2>1
  <2> QED
    BY <2>2, <2>3, <2>4
<1>8. ASSUME NEW k \in DOMAIN w, w[k].do = "declare"
      PROVE  \E m \in DOMAIN w : k < m /\ w[m].do = "manifest" /\ w[m].path = w[k].path
  <2>1. k \notin 1 .. r
    BY <1>7, <1>8
  <2>2. ~ \E i \in 1 .. n : k = r + n + i
    BY <1>7, <1>8
  <2>3. k - r \in 1 .. n /\ k = r + (k - r)
    <3>1. k \in 1 .. r + n + n
      BY <1>6, <1>8
    <3>2. k > r
      BY <2>1, <3>1
    <3>3. CASE k > r + n
      <4>1. k - r - n \in 1 .. n /\ k = r + n + (k - r - n)
        BY <3>1, <3>3
      <4> QED
        BY <2>2, <4>1
    <3> QED
      BY <3>1, <3>2, <3>3
  <2>4. PICK i \in 1 .. n : k = r + i
    BY <2>3
  <2>5. r + n + i \in DOMAIN w /\ k < r + n + i
    BY <1>6, <2>4
  <2> QED
    BY <1>7, <2>4, <2>5
<1>9. ASSUME NEW m \in DOMAIN w, w[m].do = "manifest"
      PROVE  \E k \in DOMAIN w : k < m /\ w[k].do = "declare" /\ w[k].path = w[m].path
  <2>1. m \notin 1 .. r
    BY <1>7, <1>9
  <2>2. ~ \E i \in 1 .. n : m = r + i
    BY <1>7, <1>9
  <2>3. m - r - n \in 1 .. n /\ m = r + n + (m - r - n)
    <3>1. m \in 1 .. r + n + n
      BY <1>6, <1>9
    <3>2. m > r
      BY <2>1, <3>1
    <3>3. CASE m <= r + n
      <4>1. m - r \in 1 .. n /\ m = r + (m - r)
        BY <3>1, <3>2, <3>3
      <4> QED
        BY <2>2, <4>1
    <3> QED
      BY <3>1, <3>2, <3>3
  <2>4. PICK i \in 1 .. n : m = r + n + i
    BY <2>3
  <2>5. r + i \in DOMAIN w /\ r + i < m
    BY <1>6, <2>4
  <2> QED
    BY <1>7, <2>4, <2>5
<1> QED
  BY <1>8, <1>9 DEF w

\* What a task of the plan can be.
Shaped ==
  {t \in Task :
     /\ t.do = "install" =>
          t \in Image(Scenarios[job].archive) \cup Image(Scenarios[job].control)
     /\ t.do = "fetch" => t.kind = "file" /\ t.path \in Image(Downloads)
     /\ t.do = "menu" => t.kind = "file" /\ t.path \in Image(MenuFiles)
     /\ t.do \in {"declare", "manifest"} =>
          t.kind = "file" /\ t.path \in Image(Manifests)
     /\ t.do = "put" => \/ t.kind = "file" /\ t.path \in Image(Scripts)
                        \/ t.kind = "dir" /\ t.path = Dest}

\* Every task of the plan is one of these, and those that are needed are there.
LEMMA PlanShape ==
  ASSUME TypeInv
  PROVE  /\ Plan \in Seq(Task) /\ Image(Plan) \subseteq Shaped
         /\ Image(Scenarios[job].archive) \cup Image(Scenarios[job].control)
              \subseteq Image(Plan) \cap Entry
         /\ \A p \in Image(Downloads) : Own("fetch", p) \in Image(Plan)
         /\ \A p \in Image(MenuFiles) : Own("menu", p) \in Image(Plan)
         /\ \A p \in Image(Scripts) : Own("put", p) \in Image(Plan)
         /\ \A p \in Image(Manifests) : Own("manifest", p) \in Image(Plan)
         /\ Bare("obsolete") \in Image(Plan) /\ DestTask \in Image(Plan)
<1> DEFINE sc == Scenarios[job]
<1>1. /\ sc.archive \in Seq(Entry) /\ sc.control \in Seq(Entry)
      /\ sc.work = Work(sc.archive, sc.control)
  BY ScenarioAssumption DEF TypeInv, TypeOK
<1>2. Plan = Work(sc.archive, sc.control)
  BY <1>1 DEF Plan
<1>3. /\ Plan \in Seq(Task)
      /\ Image(Plan) =
              {DestTask, Bare("gate"), Bare("menusdone"), Bare("obsolete")}
                \cup {Own("fetch", p) : p \in Image(Downloads)}
                \cup {Own("menu", p) : p \in Image(MenuFiles)}
                \cup {Own("put", p) : p \in Image(Scripts)}
                \cup {Own("declare", p) : p \in Image(Manifests)}
                \cup {Own("manifest", p) : p \in Image(Manifests)}
                \cup Image(sc.archive) \cup Image(sc.control)
  BY <1>1, <1>2, WorkImage
<1>4. Image(sc.archive) \cup Image(sc.control) \subseteq Entry
  BY <1>1 DEF Image
<1>5. \A t \in Entry : t \in Task /\ t.do = "install"
  BY DEF Entry
<1>6. {DestTask, Bare("gate"), Bare("menusdone"), Bare("obsolete")} \subseteq Shaped
  BY DestInPath DEF Shaped, DestTask, Bare, Task
<1>7. /\ Image(Downloads) \subseteq Path /\ Image(MenuFiles) \subseteq Path
      /\ Image(Scripts) \subseteq Path /\ Image(Manifests) \subseteq Path
  BY SequenceAssumption DEF Image
<1>8. /\ {Own("fetch", p) : p \in Image(Downloads)} \subseteq Shaped
      /\ {Own("menu", p) : p \in Image(MenuFiles)} \subseteq Shaped
      /\ {Own("put", p) : p \in Image(Scripts)} \subseteq Shaped
      /\ {Own("declare", p) : p \in Image(Manifests)} \subseteq Shaped
      /\ {Own("manifest", p) : p \in Image(Manifests)} \subseteq Shaped
  <2>1. \A p \in Image(Downloads) : Own("fetch", p) \in Shaped
    BY <1>7 DEF Shaped, Own, Task
  <2>2. \A p \in Image(MenuFiles) : Own("menu", p) \in Shaped
    BY <1>7 DEF Shaped, Own, Task
  <2>3. \A p \in Image(Scripts) : Own("put", p) \in Shaped
    BY <1>7 DEF Shaped, Own, Task
  <2>4. \A p \in Image(Manifests) : \A d \in {"declare", "manifest"} : Own(d, p) \in Shaped
    BY <1>7 DEF Shaped, Own, Task
  <2> QED
    BY <2>1, <2>2, <2>3, <2>4
<1>9. Image(sc.archive) \cup Image(sc.control) \subseteq Shaped
  BY <1>4, <1>5 DEF Shaped
<1> QED
  BY <1>3, <1>4, <1>6, <1>8, <1>9

\* The same for the task at each place, with the place of the manifests.
LEMMA PlanPlaces ==
  ASSUME TypeInv
  PROVE  /\ DOMAIN Plan = 1 .. Len(Plan) /\ Len(Plan) \in Nat
         /\ \A k \in DOMAIN Plan : Plan[k] \in Shaped /\ Plan[k] \in Image(Plan)
         /\ \A t \in Image(Plan) : \E k \in DOMAIN Plan : Plan[k] = t
         /\ \A k \in DOMAIN Plan : Plan[k].do = "declare" =>
              \E m \in DOMAIN Plan :
                k < m /\ Plan[m].do = "manifest" /\ Plan[m].path = Plan[k].path
         /\ \A m \in DOMAIN Plan : Plan[m].do = "manifest" =>
              \E k \in DOMAIN Plan :
                k < m /\ Plan[k].do = "declare" /\ Plan[k].path = Plan[m].path
<1> DEFINE sc == Scenarios[job]
<1>1. /\ sc.archive \in Seq(Entry) /\ sc.control \in Seq(Entry)
      /\ sc.work = Work(sc.archive, sc.control)
  BY ScenarioAssumption DEF TypeInv, TypeOK
<1>2. Plan = Work(sc.archive, sc.control)
  BY <1>1 DEF Plan
<1>3. Plan \in Seq(Task) /\ Image(Plan) \subseteq Shaped
  BY PlanShape
<1>4. /\ \A k \in DOMAIN Plan : Plan[k].do = "declare" =>
           \E m \in DOMAIN Plan :
             k < m /\ Plan[m].do = "manifest" /\ Plan[m].path = Plan[k].path
      /\ \A m \in DOMAIN Plan : Plan[m].do = "manifest" =>
           \E k \in DOMAIN Plan :
             k < m /\ Plan[k].do = "declare" /\ Plan[k].path = Plan[m].path
  BY <1>1, <1>2, WorkManifests
<1>5. DOMAIN Plan = 1 .. Len(Plan) /\ Len(Plan) \in Nat
  BY <1>3
<1>6. \A k \in DOMAIN Plan : Plan[k] \in Shaped /\ Plan[k] \in Image(Plan)
  BY <1>3 DEF Image
<1>7. \A t \in Image(Plan) : \E k \in DOMAIN Plan : Plan[k] = t
  BY DEF Image
<1> QED
  BY <1>4, <1>5, <1>6, <1>7

\* Where things are put.
Laid == Written \cup OwnPaths \cup Streets

\* Of a sound package: the streets lead to everything, and nothing is built on
\* them.
LEMMA Town ==
  ASSUME TypeInv, Sounds
  PROVE  /\ Laid \subseteq Path
         /\ \A x \in Laid : Above[x] \subseteq Streets
         /\ (Written \cup OwnPaths) \cap (Streets \cup ScratchDirs) = {}
         /\ Written \cap OwnPaths = {}
         /\ Hidden \subseteq Streets \cup Image(Slot)
         /\ \A t \in Image(Plan) :
              /\ t.path \in Path /\ Above[t.path] \subseteq Streets
              /\ t.kind = "dir" => t.path \in Streets
              /\ t.do = "install" /\ t.kind # "dir" => t.path \in Written
<1> DEFINE sc == Scenarios[job]
<1>1. Sound(sc) /\ sc.work = Plan /\ Written = Package(sc) /\ Streets = Roads(sc)
  BY DEF Sounds, TypeInv, TypeOK, Plan, Written, Streets
<1>2. /\ Image(Plan) \subseteq Task
      /\ Image(sc.archive) \cup Image(sc.control) \subseteq Image(Plan)
      /\ \A p \in OwnPaths \ Image(Slot) : \E t \in Image(Plan) : t.path = p
  <2>1. /\ Image(Plan) \subseteq Task
        /\ Image(sc.archive) \cup Image(sc.control) \subseteq Image(Plan)
    BY PlanShape DEF Shaped
  <2>2. \A p, d : Own(d, p).path = p
    BY DEF Own
  <2>3. \A p \in OwnPaths \ Image(Slot) : \E t \in Image(Plan) : t.path = p
    BY <2>2, PlanShape DEF OwnPaths
  <2> QED
    BY <2>1, <2>3
<1>3. \A t \in Image(Plan) : t.path \in Path /\ Above[t.path] \subseteq Streets
  BY <1>1, <1>2 DEF Roads, Task
<1>4. \A p \in Image(Slot) : p \in Path /\ Above[p] \subseteq Streets
  <2>1. Image(Slot) \subseteq Path
    BY SequenceAssumption DEF Image
  <2> QED
    BY <1>1, <2>1 DEF Roads
<1>5. \A x \in Written : x \in Path /\ Above[x] \subseteq Streets
  <2>1. \A x \in Written : \E t \in Image(Plan) : t.path = x
    BY <1>1, <1>2 DEF Package
  <2> QED
    BY <1>3, <2>1
<1>6. \A x \in OwnPaths : x \in Path /\ Above[x] \subseteq Streets
  BY <1>2, <1>3, <1>4
<1>7. \A x \in Streets : x \in Path /\ Above[x] \subseteq Streets
  <2> TAKE x \in Streets
  <2>1. CASE \E t \in Image(Plan) : x \in Above[t.path]
    <3>1. PICK t \in Image(Plan) : x \in Above[t.path]
      BY <2>1
    <3>2. x \in Path /\ Above[x] \subseteq Above[t.path]
      BY <1>3, <3>1, TreeAssumption
    <3> QED
      BY <1>3, <3>1, <3>2
  <2>2. CASE \E p \in Image(Slot) : x \in Above[p]
    <3>1. PICK p \in Image(Slot) : x \in Above[p]
      BY <2>2
    <3>2. x \in Path /\ Above[x] \subseteq Above[p]
      BY <1>4, <3>1, TreeAssumption
    <3> QED
      BY <1>4, <3>1, <3>2
  <2>3. CASE \E t \in Image(Plan) : x = t.path
    BY <1>3, <2>3
  <2> QED
    <3>1. \/ \E a \in {t.path : t \in Image(Plan)} \cup Image(Slot) : x \in Above[a]
          \/ x \in {t.path : t \in {u \in Image(Plan) : u.kind = "dir"}}
      <4>1. Streets = (UNION {Above[a] : a \in {t.path : t \in Image(Plan)} \cup Image(Slot)})
                        \cup {t.path : t \in {u \in Image(Plan) : u.kind = "dir"}}
        BY <1>1 DEF Roads
      <4>2. \/ x \in UNION {Above[a] : a \in {t.path : t \in Image(Plan)} \cup Image(Slot)}
            \/ x \in {t.path : t \in {u \in Image(Plan) : u.kind = "dir"}}
        BY <4>1, Zenon
      <4>3. x \in UNION {Above[a] : a \in {t.path : t \in Image(Plan)} \cup Image(Slot)}
              => \E a \in {t.path : t \in Image(Plan)} \cup Image(Slot) : x \in Above[a]
        OBVIOUS
      <4> QED
        BY <4>2, <4>3, Zenon
    <3>2. (\E a \in {t.path : t \in Image(Plan)} \cup Image(Slot) : x \in Above[a])
            => \/ \E t \in Image(Plan) : x \in Above[t.path]
               \/ \E p \in Image(Slot) : x \in Above[p]
      OBVIOUS
    <3>3. x \in {t.path : t \in {u \in Image(Plan) : u.kind = "dir"}}
            => \E t \in Image(Plan) : x = t.path
      OBVIOUS
    <3> QED
      BY <2>1, <2>2, <2>3, <3>1, <3>2, <3>3
<1>8. Hidden \subseteq Streets \cup Image(Slot)
  BY <1>1 DEF Hidden, Roads
<1>9. /\ (Written \cup OwnPaths) \cap (Streets \cup ScratchDirs) = {}
      /\ Written \cap OwnPaths = {}
  BY <1>1 DEF Sound
<1>10. \A t \in Image(Plan) : t.kind = "dir" => t.path \in Streets
  <2>1. Streets = (UNION {Above[a] : a \in {t.path : t \in Image(Plan)} \cup Image(Slot)})
                    \cup {t.path : t \in {u \in Image(Plan) : u.kind = "dir"}}
    BY <1>1 DEF Roads
  <2>2. \A t \in Image(Plan) : t.kind = "dir" =>
          t.path \in {u.path : u \in {u \in Image(Plan) : u.kind = "dir"}}
    OBVIOUS
  <2> QED
    BY <2>1, <2>2, Zenon
<1>11. \A t \in Image(Plan) : t.do = "install" /\ t.kind # "dir" => t.path \in Written
  BY <1>1, PlanShape DEF Shaped, Package
<1> QED
  BY <1>3, <1>5, <1>6, <1>7, <1>8, <1>9, <1>10, <1>11 DEF Laid

-----------------------------------------------------------------------------
(* The way of a task through the code. *)

\* Where a file is being written; the labels a task of each kind goes through.
Writing == {"claim", "open", "write", "unclaim", "reclaim"}

Route(d) == CASE d \in {"gate", "menusdone", "declare"} -> {d}
              [] d = "obsolete" -> {"obsolete"} \cup Nested \cup Between
              [] d = "fetch"    -> Between \cup {"open", "write", "fetched"}
              [] d = "manifest" -> Between \cup {"open", "write"}
              [] d = "menu"     -> Between \cup Writing \cup {"register"}
              [] d = "put"      -> Between \cup Writing \cup {"mkdir"}
              [] d = "install"  -> {"permit", "mkdir", "link"} \cup Nested \cup Between
                                     \cup Writing

\* The task is where its kind can be, with what its kind can have in hand.  No link
\* is in the way of a directory, and nothing is torn.
Course ==
  /\ Taken = {} /\ torn = {}
  /\ pc \in Busy =>
    /\ pc \in Route(cur.do)
    /\ stack # <<>> => cur.do \in {"install", "obsolete"}
    /\ stack # <<>> /\ cur.do = "install" => cur.kind # "dir"
    /\ pc \in Between /\ stack = <<>> => cur.do # "obsolete"
    /\ pc \in Writing \cup {"fetched"} => cur.kind = "file"
    /\ pc = "mkdir" => cur.kind = "dir"
    /\ pc = "link" => cur.kind = "symlink"
    /\ pc = "record" =>
         IF stack # <<>> THEN made \in Hidden
         ELSE \/ made \in Above[cur.path]
              \/ made = cur.path /\ cur.kind \in {"dir", "symlink"}

\* What the first part has shown.
Base == TypeInv /\ SafeInv /\ NeverInv

\* The steps after which nothing has been reverted yet.
Quiets == \/ StartTask \/ Gate \/ MenusInstalled \/ PermitWrite \/ PickObsolete
          \/ BackupDescend \/ BackupReady \/ LogRollback \/ ParentsDone
          \/ RegisterMenu
Notes  == Declare \/ Record \/ Claim \/ Unclaim \/ Reclaim \/ Fetched
Makes  == MakeParent \/ MakeEntryDir \/ MakeLink \/ OpenFile \/ WriteFile \/ MoveAway
Cleans == \/ FinishStages \/ DropSlots \/ DropDownloads \/ DropScratch \/ DropDirs
          \/ Forget

\* Before anything is reverted every step is one of these.
LEMMA ForwardSteps ==
  ASSUME [Next]_vars, pc' \in Forward
  PROVE  pc \in Forward /\ (UNCHANGED vars \/ Quiets \/ Notes \/ Makes \/ Cleans)
<1> USE DEF Forward, Working, Busy, Cleaning
<1>1. ASSUME Show \/ Revert \/ Signal \/ Kill
      PROVE  FALSE
  BY <1>1 DEF Show, Revert, RevertMenus, RevertDownloads, RevertFiles, Rollback,
              RevertScratch, Sweep, Signal, Kill, Goto, Fatal, Reverting
<1>2. CASE Ending \/ UNCHANGED vars
  BY <1>2 DEF Ending, vars
<1>3. CASE Quiets
  BY <1>3 DEF Quiets, StartTask, Gate, MenusInstalled, PermitWrite, PickObsolete,
       BackupDescend, BackupReady, LogRollback, ParentsDone, RegisterMenu
<1>4. CASE Notes \/ Makes
  BY <1>4 DEF Notes, Makes, Declare, Record, Claim, Unclaim, Reclaim, Fetched,
       MakeParent, MakeEntryDir, MakeLink, OpenFile, WriteFile, MoveAway
<1>5. CASE Cleans
  BY <1>5 DEF Cleans, FinishStages, DropSlots, DropDownloads, DropScratch,
       DropDirs, Forget, Sweep
<1> QED
  BY <1>1, <1>2, <1>3, <1>4, <1>5
  DEF Next, Run, Install, Cleanup, Quiets, Notes, Makes, Cleans

\* No task is done while the run cleans up.
LEMMA CleanSteps ==
  ASSUME Cleans
  PROVE  /\ pc \notin Busy /\ pc' \notin Busy /\ pc' # "task"
         /\ UNCHANGED <<job, manifest, seen, stack, made, step>>
         /\ pc = "task" => FinishStages
         /\ ~FinishStages => pc \in Cleaning
<1> USE DEF Goto, logs, menuv, ctl, Busy, Cleaning
<1>1. CASE FinishStages \/ DropDirs \/ Forget
  BY <1>1 DEF FinishStages, DropDirs, Forget
<1>2. CASE DropSlots \/ DropDownloads \/ DropScratch
  BY <1>2 DEF DropSlots, DropDownloads, DropScratch, FinishStages, Sweep
<1> QED
  BY <1>1, <1>2 DEF Cleans

\* The task being done.
LEMMA Doing ==
  ASSUME TypeInv, pc \in Busy
  PROVE  /\ step \in 1 .. Len(Plan) /\ step \in DOMAIN Plan /\ cur = Plan[step]
         /\ cur \in Shaped /\ cur \in Task /\ cur.path \in Path
         /\ cur.path \notin Image(Slot)
         /\ cur \in Image(Plan)
<1>1. step \in 1 .. Len(Plan) /\ step \in DOMAIN Plan
  BY PlanPlaces DEF TypeInv, TypeOK, Control
<1>2. cur \in Shaped /\ cur \in Image(Plan)
  BY <1>1, PlanPlaces DEF cur
<1>3. cur \in PlanTask /\ cur \in Task /\ cur.path \in Path
  BY CurrentTask
<1> QED
  BY <1>1, <1>2, <1>3 DEF cur, PlanTask

\* A parent that is missing is one of the path that is wanted.
LEMMA MissingIs ==
  ASSUME TypeInv, pc = "parents", NEW a \in Missing
  PROVE  /\ a \in Path /\ ~Exists(a)
         /\ stack = <<>> => a \in Above[cur.path]
         /\ stack # <<>> => a \in Hidden
<1>1. CASE stack = <<>>
  <2>1. cur.path \in Path
    BY Doing DEF Busy
  <2> QED
    BY <1>1, <2>1, TreeAssumption DEF Missing, Target
<1>2. CASE stack # <<>>
  <2>1. NextSlot \in Path /\ NextSlot \in Image(Slot)
    BY <1>2, Slots DEF TypeInv, TypeOK, Control, Between, SlotsLeft, NextSlot
  <2> QED
    BY <1>2, <2>1, TreeAssumption DEF Missing, Target, Hidden
<1> QED
  BY <1>1, <1>2

\* Each task goes its way.
LEMMA NextCourse ==
  ASSUME TypeInv, Course, [Next]_vars, pc' \in Forward
  PROVE  Course'
<1> USE DEF Goto, Fatal, logs, menuv, ctl
<1>0. Taken' = {} /\ torn' = {}
  <2>1. torn' = torn
    BY JobFixed DEF Signal, Goto, Fatal, Forward, Working, Busy, Cleaning
  <2> QED
    BY <2>1, JobFixed, Fixed DEF Course
<1>1. SUFFICES ASSUME pc' \in Busy
               PROVE  Course'
  BY <1>0 DEF Course
<1>2. UNCHANGED vars \/ Quiets \/ Notes \/ Makes
  BY <1>1, ForwardSteps, CleanSteps
<1>3. Plan' = Plan /\ job' = job
  BY JobFixed, Fixed
<1>4. CASE UNCHANGED vars
  BY <1>0, <1>3, <1>4 DEF Course, vars, cur
<1>5. CASE StartTask
  <2>1. stack = <<>> /\ stack' = <<>>
    BY <1>5 DEF StartTask, TypeInv, Control, Busy, Nested, Between
  <2>2. step + 1 \in DOMAIN Plan /\ cur' = Plan[step + 1] /\ Plan[step + 1] \in Shaped
    BY <1>3, <1>5, PlanPlaces DEF StartTask, TypeInv, TypeOK, cur
  <2>3. pc' = FirstStep[Plan[step + 1].do] /\ Plan[step + 1].do \in DOMAIN FirstStep
    BY <1>5, <2>2 DEF StartTask, Shaped, Task, FirstStep
  <2> QED
    BY <1>0, <2>1, <2>2, <2>3 DEF Course, FirstStep, Route, Between, Nested, Writing
<1>6. CASE ~StartTask /\ ~UNCHANGED vars
  <2>1. pc \in Busy /\ step' = step /\ cur' = cur
    BY <1>2, <1>3, <1>6 DEF Quiets, Notes, Makes, Gate, MenusInstalled, PermitWrite,
         PickObsolete, BackupDescend, BackupReady, LogRollback, ParentsDone,
         RegisterMenu, Declare, Record, Claim, Unclaim, Reclaim, Fetched, MakeParent,
         MakeEntryDir, MakeLink, OpenFile, WriteFile, MoveAway, Busy, cur
  <2>2. cur \in Shaped /\ cur.kind \in {"file", "dir", "symlink"}
    BY <2>1, Doing DEF Task
  <2>3. /\ pc \in Route(cur.do)
        /\ stack # <<>> => cur.do \in {"install", "obsolete"}
        /\ stack # <<>> /\ cur.do = "install" => cur.kind # "dir"
        /\ pc \in Between /\ stack = <<>> => cur.do # "obsolete"
        /\ pc \in Writing \cup {"fetched"} => cur.kind = "file"
        /\ pc = "mkdir" => cur.kind = "dir"
        /\ pc = "link" => cur.kind = "symlink"
        /\ pc = "record" =>
             IF stack # <<>> THEN made \in Hidden
             ELSE \/ made \in Above[cur.path]
                  \/ made = cur.path /\ cur.kind \in {"dir", "symlink"}
    BY <2>1 DEF Course
  <2>4. cur.do \in {"gate", "install", "put", "fetch", "menu", "menusdone",
               "obsolete", "declare", "manifest"}
    BY <2>2 DEF Shaped, Task
  <2>5. SUFFICES /\ pc' \in Route(cur.do)
                 /\ stack' # <<>> => cur.do \in {"install", "obsolete"}
                 /\ stack' # <<>> /\ cur.do = "install" => cur.kind # "dir"
                 /\ pc' \in Between /\ stack' = <<>> => cur.do # "obsolete"
                 /\ pc' \in Writing \cup {"fetched"} => cur.kind = "file"
                 /\ pc' = "mkdir" => cur.kind = "dir"
                 /\ pc' = "link" => cur.kind = "symlink"
                 /\ pc' = "record" =>
                      IF stack' # <<>> THEN made' \in Hidden
                      ELSE \/ made' \in Above[cur.path]
                           \/ made' = cur.path /\ cur.kind \in {"dir", "symlink"}
    BY <1>0, <2>1 DEF Course
  <2> USE DEF Route, Between, Nested, Writing
  <2>6. CASE Gate \/ MenusInstalled \/ RegisterMenu
    BY <1>1, <2>6 DEF Gate, MenusInstalled, RegisterMenu, Busy
  <2>7. CASE Declare \/ Claim \/ Unclaim \/ Reclaim \/ Fetched
    BY <1>1, <2>3, <2>4, <2>7 DEF Declare, Claim, Unclaim, Reclaim, Fetched, Busy
  <2>8. CASE Record
    BY <1>1, <2>3, <2>4, <2>8 DEF Record, Busy
  <2>9. CASE PermitWrite
    <3>1. stack = <<>> /\ pc = "permit" /\ pc' \in {"parents", "backup"}
          /\ (stack' = <<>> \/ cur.kind # "dir")
      BY <1>1, <2>9 DEF PermitWrite, TypeInv, Control, Busy
    <3> QED
      BY <2>3, <2>4, <3>1
  <2>10. CASE PickObsolete
    BY <1>1, <2>3, <2>4, <2>10 DEF PickObsolete, Busy
  <2>11. CASE BackupDescend \/ BackupReady \/ LogRollback
    <3>1. stack # <<>> /\ pc \in Nested /\ pc' \in {"backup", "parents", "move"}
          /\ stack' # <<>>
      BY <2>11 DEF BackupDescend, BackupReady, LogRollback, TypeInv, TypeOK, Control
    <3> QED
      BY <2>3, <2>4, <3>1
  <2>12. CASE ParentsDone
    <3>1. pc = "parents" /\ stack' = stack
          /\ pc' = IF stack # <<>> THEN "log" ELSE Create
      BY <2>12 DEF ParentsDone
    <3>2. cur.kind = "dir" => cur.do \in {"put", "install"} \/ cur.do \notin
                 {"fetch", "menu", "declare", "manifest"}
      BY <2>2 DEF Shaped
    <3>3. cur.kind = "symlink" => cur.do \notin
                 {"fetch", "menu", "declare", "manifest", "put"}
      BY <2>2 DEF Shaped
    <3> QED
      BY <2>2, <2>3, <2>4, <3>1, <3>2, <3>3 DEF Create
  <2>13. CASE MakeParent
    <3>1. PICK a \in Missing : MakeDir(a)
      BY <2>13 DEF MakeParent
    <3>2. pc = "parents" /\ pc' = "record" /\ made' = a /\ stack' = stack
      BY <1>1, <2>13, <3>1 DEF MakeParent, MakeDir, Busy
    <3>3. IF stack # <<>> THEN a \in Hidden ELSE a \in Above[cur.path]
      BY <3>2, MissingIs
    <3> QED
      BY <2>3, <2>4, <3>2, <3>3
  <2>14. CASE MakeEntryDir \/ MakeLink
    <3>1. /\ pc \in {"mkdir", "link"} /\ pc' = "record" /\ made' = cur.path
          /\ stack' = stack /\ stack = <<>>
      BY <1>1, <2>14 DEF MakeEntryDir, MakeLink, MakeDir, TypeInv, Control, Busy
    <3>2. cur.do # "obsolete" /\ cur.do \in {"put", "install"}
      BY <2>3, <2>4, <3>1
    <3>3. cur.kind \in {"dir", "symlink"}
      BY <2>3, <2>14 DEF MakeEntryDir, MakeLink
    <3> QED
      BY <2>3, <2>4, <3>1, <3>2, <3>3
  <2>15. CASE OpenFile \/ WriteFile
    BY <1>1, <2>3, <2>4, <2>15 DEF OpenFile, WriteFile, Busy
  <2>16. CASE MoveAway
    <3>1. /\ pc = "move" /\ stack # <<>>
          /\ \/ stack' # <<>> /\ pc' = "backup"
             \/ stack' = <<>> /\ cur.do = "obsolete" /\ pc' = "obsolete"
             \/ stack' = <<>> /\ cur.do # "obsolete" /\ pc' = "parents"
      BY <1>1, <2>16 DEF MoveAway, TypeInv, Control, Busy
    <3> QED
      BY <2>3, <2>4, <3>1
  <2> QED
    BY <1>2, <1>6, <2>6, <2>7, <2>8, <2>9, <2>10, <2>11, <2>12, <2>13, <2>14, <2>15, <2>16
    DEF Quiets, Notes, Makes
<1> QED
  BY <1>4, <1>5, <1>6

-----------------------------------------------------------------------------
(* The logs. *)

\* Installed so far.
Put == {Plan[k].path : k \in {k \in 1 .. step :
          /\ Plan[k].do = "install"
          /\ k < step \/ pc \notin Busy \/ pc \in {"open", "write", "unclaim", "reclaim"}}}

\* The logs list streets, what has been put, and the installer's own.
Manifested ==
  /\ manifest \subseteq Streets \cup Put \cup (OwnPaths \ (Image(Downloads) \cup Image(Slot)))
  /\ downloads \subseteq Image(Downloads)
\* What is entered and was in the previous version has been seen.
Noted == manifest \cap old \subseteq seen

\* A fetch that is over is among the downloads.
FetchesDone ==
  pc \in Working \cup {"dropslots", "dropdownloads"} =>
    \A k \in 1 .. step : Over(k) /\ Plan[k].do = "fetch" => Plan[k].path \in downloads

\* A manifest that has been declared is in the manifest, unless that is just
\* being rewritten.
Declared ==
  pc \in Working =>
    \A k \in 1 .. step : Over(k) /\ Plan[k].do = "declare" =>
      Plan[k].path \in manifest \/ (pc = "reclaim" /\ Plan[k].path = cur.path)

\* A file that is being written is in the manifest, a download aside.
Claimed == pc \in {"open", "write"} /\ cur.do # "fetch" => cur.path \in manifest

\* What holds of the plan and the logs.
LogsInv == Course /\ Manifested /\ Noted /\ FetchesDone /\ Declared /\ Claimed

\* What has been installed stays so.
LEMMA PutGrows ==
  ASSUME TypeInv, Course, [Next]_vars, pc' \in Forward
  PROVE  Put \subseteq Put'
<1> USE DEF Goto, Fatal, logs, menuv, ctl, Busy
<1>1. Plan' = Plan
  BY JobFixed, Fixed
<1>2. /\ step' \in {step, step + 1} /\ step \in Nat
      /\ step' = step + 1 => pc = "task"
  <2>1. step \in Nat
    BY PlanPlaces DEF TypeInv, TypeOK
  <2>2. step' = step \/ (pc = "task" /\ step' = step + 1)
    BY ForwardSteps, CleanSteps
    DEF Quiets, Notes, Makes, StartTask, Gate, MenusInstalled, PermitWrite,
         PickObsolete, BackupDescend, BackupReady, LogRollback, ParentsDone,
         RegisterMenu, Declare, Record, Claim, Unclaim, Reclaim, Fetched, MakeParent,
         MakeEntryDir, MakeLink, OpenFile, WriteFile, MoveAway, vars
  <2> QED
    BY <2>1, <2>2
<1> DEFINE Late(c) == c \notin Busy \/ c \in {"open", "write", "unclaim", "reclaim"}
<1>3. step' = step /\ Late(pc) => Late(pc') \/ cur.do # "install"
  <2>1. CASE UNCHANGED vars \/ Cleans
    BY <2>1, CleanSteps DEF vars
  <2>2. CASE Quiets \/ Notes \/ Makes
    <3>1. step' = step /\ Late(pc) => pc \in {"open", "write", "unclaim", "reclaim"}
      BY <2>2, <1>2 DEF Quiets, Notes, Makes, StartTask, Gate, MenusInstalled, PermitWrite,
         PickObsolete, BackupDescend, BackupReady, LogRollback, ParentsDone,
         RegisterMenu, Declare, Record, Claim, Unclaim, Reclaim, Fetched, MakeParent,
         MakeEntryDir, MakeLink, OpenFile, WriteFile, MoveAway
    <3>2. pc \in {"open", "write", "unclaim", "reclaim"} =>
            Late(pc') \/ cur.do \in {"menu", "fetch"}
      BY <2>2 DEF Quiets, Notes, Makes, StartTask, Gate, MenusInstalled, PermitWrite,
         PickObsolete, BackupDescend, BackupReady, LogRollback, ParentsDone,
         RegisterMenu, Declare, Record, Claim, Unclaim, Reclaim, Fetched, MakeParent,
         MakeEntryDir, MakeLink, OpenFile, WriteFile, MoveAway
    <3> QED
      BY <3>1, <3>2
  <2> QED
    BY <2>1, <2>2, ForwardSteps
<1>4. ASSUME NEW k \in 1 .. step, Plan[k].do = "install", k < step \/ Late(pc)
      PROVE  k \in 1 .. step' /\ (k < step' \/ Late(pc'))
  <2>1. CASE k < step
    BY <1>2, <2>1
  <2>2. CASE k = step /\ Late(pc)
    <3>1. cur.do = "install"
      BY <1>4, <2>2 DEF cur
    <3> QED
      BY <1>2, <1>3, <2>2, <3>1
  <2> QED
    BY <1>2, <1>4, <2>1, <2>2
<1>5. ASSUME NEW p \in Put
      PROVE  p \in Put'
  <2>1. PICK k \in 1 .. step : Plan[k].path = p /\ Plan[k].do = "install" /\ (k < step \/ Late(pc))
    BY <1>5 DEF Put
  <2>2. k \in 1 .. step' /\ (k < step' \/ Late(pc'))
    BY <1>4, <2>1
  <2> QED
    BY <1>1, <2>1, <2>2 DEF Put
<1> QED
  BY <1>5

\* The places of the installer's own files are apart from those of the downloads
\* and the rollback files.
LEMMA OwnPlaces ==
  ASSUME TypeInv, Sounds
  PROVE  /\ \A p \in Image(MenuFiles) \cup Image(Scripts) \cup Image(Manifests) :
              p \in OwnPaths \ (Image(Downloads) \cup Image(Slot))
         /\ Image(Downloads) \cap Image(Slot) = {}
         /\ Image(Downloads) \subseteq OwnPaths /\ Image(Slot) \subseteq OwnPaths
         /\ Image(Downloads) \cap oldFiles = {} /\ Image(Slot) \cap oldFiles = {}
         /\ \A p \in oldFiles : p \in Path /\ before[p] # Dir
         /\ \A p \in Path : ScratchDir \in Above[p] =>
              before[p] = Absent \/ p \in ScratchDirs \cup Image(Downloads)
         /\ \A t \in Image(Plan) : ScratchDir \in Above[t.path] => t.do = "fetch"
         /\ \A i, j \in DOMAIN Plan :
              /\ Plan[i].do = "install" /\ Plan[i].kind # "dir"
              /\ Plan[j].do = "install" /\ Plan[i].path = Plan[j].path
              => i = j
<1> DEFINE sc == Scenarios[job]
<1>1. /\ Sound(sc) /\ sc.work = Plan /\ sc.oldFiles = oldFiles /\ sc.tree = before
      /\ sc.oldFiles \subseteq Path \ Hidden
  BY ScenarioAssumption DEF Sounds, TypeInv, TypeOK, Plan, oldFiles, before
<1>2. Image(Slot) \subseteq Hidden
  BY DEF Hidden
<1>3. /\ Image(Downloads) \cap (Image(MenuFiles) \cup Image(Scripts)
                                  \cup Image(Manifests) \cup oldFiles) = {}
      /\ \A p \in oldFiles : before[p] # Dir
      /\ \A p \in Path : ScratchDir \in Above[p] =>
           before[p] = Absent \/ p \in ScratchDirs \cup Image(Downloads)
      /\ \A t \in Image(Plan) : ScratchDir \in Above[t.path] => t.do = "fetch"
      /\ \A i, j \in DOMAIN Plan :
           /\ Plan[i].do = "install" /\ Plan[i].kind # "dir"
           /\ Plan[j].do = "install" /\ Plan[i].path = Plan[j].path
           => i = j
  BY <1>1 DEF Sound
<1>4. Image(Slot) \cap (Image(Downloads) \cup Image(MenuFiles) \cup Image(Scripts)
                        \cup Image(Manifests)) = {}
  BY SlotAssumption
<1> QED
  BY <1>1, <1>2, <1>3, <1>4 DEF OwnPaths

\* What is entered is a street, the installer's own or just installed.
LEMMA Entered ==
  ASSUME TypeInv, Sounds, Safe, Course, [Next]_vars, pc' \in Forward,
         NEW p, \/ p = made /\ Record
                \/ p = cur.path /\ (Declare \/ Claim \/ Reclaim)
  PROVE  p \in Streets \cup Put' \cup (OwnPaths \ (Image(Downloads) \cup Image(Slot)))
<1> USE DEF Goto
<1>1. pc \in Busy /\ Plan' = Plan /\ step' = step
  BY JobFixed, Fixed DEF Record, Declare, Claim, Reclaim, ctl, Busy
<1>2. cur \in Shaped /\ cur \in Image(Plan) /\ cur \in Task /\ step \in 1 .. Len(Plan)
      /\ cur = Plan[step] /\ step \in 1 .. step
  BY <1>1, Doing
<1>3. ASSUME cur.do = "install",
             pc' \notin Busy \/ pc' \in {"open", "write", "unclaim", "reclaim"}
      PROVE  cur.path \in Put'
  BY <1>1, <1>2, <1>3 DEF Put
<1>4. cur.do \in {"menu", "put", "install", "declare"} /\ cur.kind = "file" =>
        cur.do = "install" \/ cur.path \in OwnPaths \ (Image(Downloads) \cup Image(Slot))
  BY <1>2, OwnPlaces DEF Shaped
<1>5. cur.do = "declare" => cur.kind = "file"
  BY <1>2 DEF Shaped
<1>6. CASE p = cur.path /\ Declare
  BY <1>1, <1>4, <1>5, <1>6 DEF Declare, Safe, Ready
<1>7. CASE p = cur.path /\ (Claim \/ Reclaim)
  <2>1. cur.kind = "file" /\ cur.do \in {"menu", "put", "install"}
    <3>1. pc \in {"claim", "reclaim"} /\ pc \in Route(cur.do) /\ cur.kind = "file"
      BY <1>1, <1>7 DEF Claim, Reclaim, Course, Writing
    <3> QED
      BY <1>2, <3>1 DEF Route, Between, Nested, Writing, Shaped, Task
  <2>2. cur.do = "install" => pc' \in {"open", "task"}
    BY <1>7 DEF Claim, Reclaim
  <2> QED
    BY <1>3, <1>4, <1>7, <2>1, <2>2 DEF Busy
<1>8. CASE p = made /\ Record
  <2>1. pc = "record" /\ made \notin Image(Slot)
    BY <1>8 DEF Record, Safe, Ready
  <2>2. CASE stack # <<>>
    <3>1. made \in Hidden
      BY <1>1, <2>1, <2>2 DEF Course
    <3> QED
      BY <1>8, <2>1, <3>1, Town
  <2>3. CASE stack = <<>> /\ made \in Above[cur.path]
    BY <1>2, <1>8, <2>3, Town
  <2>4. CASE stack = <<>> /\ made = cur.path /\ cur.kind \in {"dir", "symlink"}
    <3>1. CASE cur.kind = "dir"
      BY <1>2, <1>8, <2>4, <3>1, Town
    <3>2. CASE cur.kind = "symlink"
      <4>1. pc' = "task"
        BY <1>8, <2>4 DEF Record
      <4>2. pc \in Route(cur.do)
        BY <1>1 DEF Course
      <4>3. cur.do = "install"
        BY <1>2, <2>1, <2>4, <3>2, <4>2, <1>1
        DEF Route, Shaped, Task, Course, Between, Nested, Writing
      <4> QED
        BY <1>3, <1>8, <2>4, <4>1, <4>3 DEF Busy
    <3> QED
      BY <2>4, <3>1, <3>2
  <2> QED
    BY <1>1, <2>1, <2>2, <2>3, <2>4 DEF Course
<1> QED
  BY <1>6, <1>7, <1>8

\* What is entered is what the package and the installer put there.
LEMMA NextManifested ==
  ASSUME TypeInv, Sounds, pc \in Working => Safe, Course, Manifested, [Next]_vars,
         pc' \in Forward
  PROVE  Manifested'
<1> USE DEF Goto, Fatal, logs, menuv, ctl
<1>1. Streets' = Streets
  BY JobFixed DEF Streets
<1>2. Put \subseteq Put'
  BY PutGrows
<1>3. ASSUME manifest' \subseteq manifest, downloads' \subseteq downloads
      PROVE  Manifested'
  BY <1>1, <1>2, <1>3 DEF Manifested
<1>4. CASE UNCHANGED vars \/ Quiets \/ Makes \/ Cleans \/ Unclaim
  <2>1. manifest' \subseteq manifest
    BY <1>4, CleanSteps DEF vars, Quiets, Makes, StartTask, Gate, MenusInstalled,
         PermitWrite, PickObsolete, BackupDescend, BackupReady, LogRollback,
         ParentsDone, RegisterMenu, MakeParent, MakeEntryDir, MakeLink, OpenFile,
         WriteFile, MoveAway, Unclaim
  <2>2. downloads' \subseteq downloads
    <3>1. CASE UNCHANGED vars \/ Quiets \/ Makes \/ Unclaim
      BY <3>1 DEF vars, Quiets, Makes, StartTask, Gate, MenusInstalled,
         PermitWrite, PickObsolete, BackupDescend, BackupReady, LogRollback,
         ParentsDone, RegisterMenu, MakeParent, MakeEntryDir, MakeLink, OpenFile,
         WriteFile, MoveAway, Unclaim
    <3>2. CASE Cleans
      BY <3>2 DEF Cleans, FinishStages, DropSlots, DropDownloads, DropScratch,
           DropDirs, Forget, Sweep
    <3> QED
      BY <1>4, <3>1, <3>2
  <2> QED
    BY <1>3, <2>1, <2>2
<1>5. CASE Fetched
  <2>1. cur.do = "fetch" /\ pc \in Busy /\ cur \in Shaped
    BY <1>5, Doing DEF Fetched, Safe, Ready, Busy, Working
  <2>2. cur.path \in Image(Downloads)
    BY <2>1 DEF Shaped
  <2> QED
    BY <1>1, <1>2, <1>5, <2>2 DEF Fetched, Manifested
<1>6. CASE Declare \/ Claim \/ Reclaim \/ Record
  <2>1. PICK p : /\ \/ p = made /\ Record
                    \/ p = cur.path /\ (Declare \/ Claim \/ Reclaim)
                 /\ manifest' = manifest \cup {p} /\ downloads' = downloads
    BY <1>6 DEF Declare, Claim, Reclaim, Record, Enter
  <2>2. Safe
    BY <2>1 DEF Declare, Claim, Reclaim, Record, Working, Busy
  <2>3. p \in Streets \cup Put' \cup (OwnPaths \ (Image(Downloads) \cup Image(Slot)))
    BY <2>1, <2>2, Entered
  <2> QED
    BY <1>1, <1>2, <2>1, <2>3 DEF Manifested
<1> QED
  BY <1>4, <1>5, <1>6, ForwardSteps DEF Notes

\* Whatever is entered is marked as seen at once.
LEMMA NextNoted ==
  ASSUME Noted, [Next]_vars, pc' \in Forward
  PROVE  Noted'
<1> USE DEF Goto, Fatal, logs, menuv, ctl
<1>1. old' = old
  BY JobFixed, Fixed
<1>2. CASE UNCHANGED vars \/ Quiets \/ Cleans
  BY <1>1, <1>2, CleanSteps DEF Noted, vars, Quiets, StartTask, Gate, MenusInstalled,
      PermitWrite, PickObsolete, BackupDescend, BackupReady, LogRollback,
      ParentsDone, RegisterMenu
<1>3. CASE Makes
  BY <1>1, <1>3 DEF Noted, Makes, MakeParent, MakeEntryDir, MakeLink, OpenFile,
         WriteFile, MoveAway
<1>4. CASE Notes
  BY <1>1, <1>4 DEF Noted, Notes, Declare, Record, Claim, Unclaim, Reclaim, Fetched, Enter
<1> QED
  BY <1>2, <1>3, <1>4, ForwardSteps


\* How far the plan has got after a step.
LEMMA OverGrows ==
  ASSUME TypeInv, Course, [Next]_vars, pc' \in Forward, NEW k, Over(k)'
  PROVE  /\ k \in DOMAIN Plan /\ k \in 1 .. Len(Plan) /\ Plan' = Plan
         /\ Over(k) \/ (k = step /\ step' = step /\ pc \in Busy /\ pc' = "task"
                          /\ cur = Plan[k])
<1> USE DEF Goto, Fatal, logs, menuv, ctl, Busy
<1>1. Plan' = Plan
  BY JobFixed, Fixed
<1>2. DOMAIN Plan = 1 .. Len(Plan) /\ Len(Plan) \in Nat /\ step \in Nat
  BY PlanPlaces DEF TypeInv, TypeOK
<1>3. k \in DOMAIN Plan /\ k \in Nat
  BY <1>1, <1>2 DEF Over
<1>4. CASE UNCHANGED vars \/ Cleans
  BY <1>1, <1>4, CleanSteps DEF Over, vars
<1>5. CASE StartTask
  <2>1. pc = "task" /\ step' = step + 1
    BY <1>5 DEF StartTask
  <2>2. step + 1 \in DOMAIN Plan /\ cur' = Plan[step + 1] /\ Plan[step + 1] \in Shaped
    BY <1>1, <1>5, PlanPlaces DEF StartTask, TypeInv, TypeOK, cur
  <2>3. pc' \in Busy
    BY <1>5, <2>2 DEF StartTask, Shaped, Task, FirstStep
  <2> QED
    BY <1>1, <1>2, <1>3, <2>1, <2>3 DEF Over
<1>6. CASE (Quiets /\ ~StartTask) \/ Notes \/ Makes
  <2>1. step' = step /\ pc \in Busy
    BY <1>6 DEF Quiets, Notes, Makes, Gate, MenusInstalled, PermitWrite,
         PickObsolete, BackupDescend, BackupReady, LogRollback, ParentsDone,
         RegisterMenu, Declare, Record, Claim, Unclaim, Reclaim, Fetched, MakeParent,
         MakeEntryDir, MakeLink, OpenFile, WriteFile, MoveAway
  <2>2. pc' \in Working
    <3>1. ~Cleans
      BY <2>1, CleanSteps
    <3> QED
      BY <1>6 DEF Forward, Working, Cleaning, Quiets, Notes, Makes, Gate, MenusInstalled, PermitWrite,
         PickObsolete, BackupDescend, BackupReady, LogRollback, ParentsDone, Create,
         RegisterMenu, Declare, Record, Claim, Unclaim, Reclaim, Fetched, MakeParent, MakeDir,
         MakeEntryDir, MakeLink, OpenFile, WriteFile, MoveAway
  <2>3. k < step \/ (k = step /\ pc' = "task")
    BY <2>1, <2>2, <1>6 DEF Over, Working
  <2> QED
    BY <1>1, <1>2, <1>3, <2>1, <2>3 DEF Over, cur
<1> QED
  BY <1>1, <1>2, <1>3, <1>4, <1>5, <1>6, ForwardSteps

\* How a task ends.
LEMMA TaskEnds ==
  ASSUME TypeInv, Course, [Next]_vars, pc \in Busy, pc' = "task"
  PROVE  /\ cur.do = "fetch" => Fetched
         /\ cur.do = "declare" => Declare
         /\ cur.do = "obsolete" => PickObsolete /\ Obsolete = {}
         /\ cur.do = "manifest" => WriteFile
<1> USE DEF Goto, Fatal, Busy
<1>1. pc' \in Forward /\ cur \in Shaped /\ cur.path \in Path
  BY Doing DEF Forward, Working
<1>2. Quiets \/ Notes \/ Makes
  <2>1. ~UNCHANGED vars
    BY DEF vars
  <2> QED
    BY <1>1, <2>1, ForwardSteps, CleanSteps
<1>3. \/ Gate \/ MenusInstalled \/ Declare \/ PermitWrite \/ PickObsolete \/ Record
      \/ Reclaim \/ Fetched \/ RegisterMenu \/ WriteFile
  BY <1>2 DEF Quiets, Notes, Makes, StartTask, BackupDescend, BackupReady, LogRollback,
       ParentsDone, Create, Claim, Unclaim, MakeParent, MakeDir, MakeEntryDir, MakeLink,
       OpenFile, MoveAway
<1>4. pc \in Route(cur.do)
  BY DEF Course
<1>5. ASSUME Record, cur.do \in {"fetch", "declare", "manifest", "obsolete"} PROVE FALSE
  <2>1. pc = "record" /\ stack = <<>> /\ made = cur.path
    BY <1>5 DEF Record
  <2>2. made \notin Above[cur.path]
    BY <1>1, <2>1, TreeAssumption
  <2>3. cur.kind \in {"dir", "symlink"} /\ cur.do # "obsolete"
    BY <2>1, <2>2 DEF Course, Between
  <2> QED
    BY <1>1, <1>5, <2>3 DEF Shaped
<1>6. cur.do = "fetch" => Fetched
  BY <1>3, <1>4, <1>5
  DEF Route, Between, Gate, MenusInstalled, Declare, PermitWrite, PickObsolete, Reclaim,
      RegisterMenu, WriteFile
<1>7. cur.do = "declare" => Declare
  BY <1>3, <1>4, <1>5
  DEF Route, Between, Gate, MenusInstalled, Fetched, PermitWrite, PickObsolete, Reclaim,
      RegisterMenu, WriteFile
<1>8. cur.do = "obsolete" => PickObsolete /\ Obsolete = {}
  <2>1. cur.do = "obsolete" => PickObsolete
    BY <1>3, <1>4, <1>5
    DEF Route, Between, Nested, Gate, MenusInstalled, Fetched, PermitWrite, Declare, Reclaim,
        RegisterMenu, WriteFile
  <2>2. PickObsolete => Obsolete = {}
    BY DEF PickObsolete
  <2> QED
    BY <2>1, <2>2
<1>9. cur.do = "manifest" => WriteFile
  BY <1>3, <1>4, <1>5
  DEF Route, Between, Gate, MenusInstalled, Fetched, PermitWrite, Declare, PickObsolete,
      Reclaim, RegisterMenu
<1> QED
  BY <1>6, <1>7, <1>8, <1>9

\* What the steps of the five classes do to the logs.
LEMMA LogSteps ==
  ASSUME [Next]_vars, pc' \in Forward
  PROVE  /\ manifest \subseteq manifest' \/ Unclaim
         /\ downloads \subseteq downloads' \/ Forget
         /\ seen \subseteq seen'
<1> USE DEF Goto, Fatal, logs, menuv, ctl
<1>1. CASE UNCHANGED vars \/ Quiets
  BY <1>1 DEF vars, Quiets, StartTask, Gate, MenusInstalled, PermitWrite, PickObsolete,
      BackupDescend, BackupReady, LogRollback, ParentsDone, RegisterMenu
<1>2. CASE Notes
  BY <1>2 DEF Notes, Declare, Record, Claim, Unclaim, Reclaim, Fetched, Enter
<1>3. CASE Makes
  BY <1>3 DEF Makes, MakeParent, MakeEntryDir, MakeLink, OpenFile, WriteFile, MoveAway
<1>4. CASE Cleans
  BY <1>4 DEF Cleans, FinishStages, DropSlots, DropDownloads, DropScratch, DropDirs,
         Forget, Sweep
<1> QED
  BY <1>1, <1>2, <1>3, <1>4, ForwardSteps

\* A fetch is over once its file is among the downloads.
LEMMA NextFetchesDone ==
  ASSUME TypeInv, Course, FetchesDone, [Next]_vars, pc' \in Forward
  PROVE  FetchesDone'
<1>1. SUFFICES ASSUME pc' \in Working \cup {"dropslots", "dropdownloads"},
                      NEW k \in 1 .. step', Over(k)', Plan'[k].do = "fetch"
               PROVE  Plan'[k].path \in downloads'
  BY DEF FetchesDone
<1>2. /\ k \in DOMAIN Plan /\ k \in 1 .. Len(Plan) /\ Plan' = Plan
      /\ Over(k) \/ (k = step /\ step' = step /\ pc \in Busy /\ pc' = "task"
                          /\ cur = Plan[k])
  BY <1>1, OverGrows
<1>3. ~Forget
  BY <1>1 DEF Forget, Goto, Working, Busy
<1>4. CASE Over(k)
  <2>1. pc \in Working \cup {"dropslots", "dropdownloads"}
    <3>1. CASE Cleans
      BY <1>1, <1>3, <3>1, CleanSteps
      DEF Cleans, FinishStages, DropSlots, DropDownloads, DropScratch, DropDirs, Sweep,
          Goto, Working, Busy
    <3>2. CASE UNCHANGED vars
      BY <1>1, <3>2 DEF vars
    <3>3. CASE Quiets \/ Notes \/ Makes
      BY <3>3 DEF Quiets, Notes, Makes, StartTask, Gate, MenusInstalled, PermitWrite,
         PickObsolete, BackupDescend, BackupReady, LogRollback, ParentsDone,
         RegisterMenu, Declare, Record, Claim, Unclaim, Reclaim, Fetched, MakeParent,
         MakeEntryDir, MakeLink, OpenFile, WriteFile, MoveAway, Working, Busy
    <3> QED
      BY <3>1, <3>2, <3>3, ForwardSteps
  <2>2. k \in 1 .. step
    BY <1>2, <1>4, PlanPlaces DEF Over, TypeInv, TypeOK
  <2>3. Plan[k].path \in downloads
    BY <1>1, <1>2, <1>4, <2>1, <2>2 DEF FetchesDone
  <2> QED
    BY <1>2, <1>3, <2>3, LogSteps
<1>5. CASE k = step /\ pc \in Busy /\ pc' = "task" /\ cur = Plan[k]
  <2>1. Fetched
    BY <1>1, <1>2, <1>5, TaskEnds
  <2> QED
    BY <1>2, <1>5, <2>1 DEF Fetched
<1> QED
  BY <1>2, <1>4, <1>5

\* Nothing gets back to the tasks from the cleaning.
LEMMA StillWorking ==
  ASSUME [Next]_vars, pc' \in Working
  PROVE  pc \in Working /\ ~Cleans /\ (UNCHANGED vars \/ Quiets \/ Notes \/ Makes)
<1>1. ~Cleans
  BY CleanSteps DEF Working, Busy
<1>2. UNCHANGED vars \/ Quiets \/ Notes \/ Makes
  BY <1>1, ForwardSteps DEF Forward
<1>3. CASE UNCHANGED vars
  BY <1>1, <1>3 DEF vars
<1>4. CASE Quiets \/ Notes \/ Makes
  BY <1>1, <1>4 DEF Quiets, Notes, Makes, StartTask, Gate, MenusInstalled, PermitWrite,
         PickObsolete, BackupDescend, BackupReady, LogRollback, ParentsDone,
         RegisterMenu, Declare, Record, Claim, Unclaim, Reclaim, Fetched, MakeParent,
         MakeEntryDir, MakeLink, OpenFile, WriteFile, MoveAway, Working, Busy
<1> QED
  BY <1>1, <1>2, <1>3, <1>4

\* A manifest that is declared stays in the manifest.
LEMMA NextDeclared ==
  ASSUME TypeInv, Course, Declared, [Next]_vars, pc' \in Forward
  PROVE  Declared'
<1>1. SUFFICES ASSUME pc' \in Working,
                      NEW k \in 1 .. step', Over(k)', Plan'[k].do = "declare"
               PROVE  Plan'[k].path \in manifest' \/ (pc' = "reclaim" /\ Plan'[k].path = cur'.path)
  BY DEF Declared
<1>2. /\ k \in DOMAIN Plan /\ k \in 1 .. Len(Plan) /\ Plan' = Plan
      /\ Over(k) \/ (k = step /\ step' = step /\ pc \in Busy /\ pc' = "task"
                          /\ cur = Plan[k])
  BY <1>1, OverGrows
<1>3. pc \in Working /\ (UNCHANGED vars \/ Quiets \/ Notes \/ Makes)
  BY <1>1, StillWorking
<1>4. CASE Over(k)
  <2>1. k \in 1 .. step
    BY <1>2, <1>4, PlanPlaces DEF Over, TypeInv, TypeOK
  <2>2. Plan[k].path \in manifest \/ (pc = "reclaim" /\ Plan[k].path = cur.path)
    BY <1>1, <1>2, <1>3, <1>4, <2>1 DEF Declared
  <2>3. CASE Unclaim
    <3>1. pc = "unclaim" /\ pc' = "reclaim" /\ manifest' = manifest \ {cur.path} /\ step' = step
      BY <2>3 DEF Unclaim, Goto, ctl
    <3>2. cur' = cur
      BY <1>2, <3>1 DEF cur
    <3> QED
      BY <1>2, <2>2, <3>1, <3>2
  <2>4. CASE pc = "reclaim"
    <3>1. Reclaim \/ UNCHANGED vars
      BY <1>3, <2>4
      DEF Quiets, Notes, Makes, StartTask, Gate, MenusInstalled, PermitWrite,
         PickObsolete, BackupDescend, BackupReady, LogRollback, ParentsDone,
         RegisterMenu, Declare, Record, Claim, Unclaim, Reclaim, Fetched, MakeParent,
         MakeEntryDir, MakeLink, OpenFile, WriteFile, MoveAway
    <3>2. CASE Reclaim
      BY <1>2, <2>2, <2>4, <3>2 DEF Reclaim, Enter
    <3>3. CASE UNCHANGED vars
      BY <1>2, <2>2, <3>3 DEF vars, cur
    <3> QED
      BY <3>1, <3>2, <3>3
  <2>5. CASE ~Unclaim /\ pc # "reclaim"
    BY <1>2, <2>2, <2>5, LogSteps
  <2> QED
    BY <2>3, <2>4, <2>5
<1>5. CASE k = step /\ pc \in Busy /\ pc' = "task" /\ cur = Plan[k]
  <2>1. Declare
    BY <1>1, <1>2, <1>5, TaskEnds
  <2> QED
    BY <1>2, <1>5, <2>1 DEF Declare, Enter
<1> QED
  BY <1>2, <1>4, <1>5

\* A file is opened once it is in the manifest, a download aside.
LEMMA NextClaimed ==
  ASSUME TypeInv, Course, Declared, Claimed, [Next]_vars, pc' \in Forward
  PROVE  Claimed'
<1> USE DEF Goto, Fatal, logs, menuv, ctl
<1>1. SUFFICES ASSUME pc' \in {"open", "write"}, cur'.do # "fetch"
               PROVE  cur'.path \in manifest'
  BY DEF Claimed
<1>2. UNCHANGED vars \/ Quiets \/ Notes \/ Makes
  BY <1>1, StillWorking DEF Working, Busy
<1>3. Plan' = Plan
  BY JobFixed, Fixed
<1>4. CASE UNCHANGED vars
  BY <1>1, <1>3, <1>4 DEF Claimed, vars, cur
<1>5. CASE Claim
  <2>1. cur' = cur
    BY <1>3, <1>5 DEF Claim, cur
  <2> QED
    BY <1>5, <2>1 DEF Claim, Enter
<1>6. CASE OpenFile
  <2>1. cur' = cur /\ pc = "open" /\ manifest' = manifest
    BY <1>3, <1>6 DEF OpenFile, cur
  <2> QED
    BY <1>1, <2>1 DEF Claimed
<1>7. CASE ParentsDone
  <2>1. cur' = cur /\ pc = "parents" /\ manifest' = manifest /\ stack = <<>>
        /\ Create = "open"
    BY <1>1, <1>3, <1>7 DEF ParentsDone, Create, cur
  <2>2. cur.do = "manifest"
    BY <1>1, <2>1 DEF Create
  <2>3. step \in DOMAIN Plan /\ cur = Plan[step] /\ step \in Nat
    BY <2>1, Doing DEF Busy
  <2>4. PICK k \in DOMAIN Plan :
          k < step /\ Plan[k].do = "declare" /\ Plan[k].path = cur.path
    BY <2>2, <2>3, PlanPlaces
  <2>5. Over(k) /\ k \in 1 .. step
    BY <2>3, <2>4, PlanPlaces DEF Over
  <2> QED
    BY <2>1, <2>4, <2>5 DEF Declared, Working, Busy
<1>8. CASE StartTask
  <2>1. step + 1 \in DOMAIN Plan /\ Plan[step + 1] \in Shaped
    BY <1>3, <1>8, PlanPlaces DEF StartTask, TypeInv, TypeOK
  <2> QED
    BY <1>1, <1>8, <2>1 DEF StartTask, Shaped, Task, FirstStep
<1> QED
  BY <1>1, <1>2, <1>4, <1>5, <1>6, <1>7, <1>8
  DEF Quiets, Notes, Makes, Gate, MenusInstalled, PermitWrite,
      PickObsolete, BackupDescend, BackupReady, LogRollback,
      RegisterMenu, Declare, Record, Unclaim, Reclaim, Fetched, MakeParent, MakeDir,
      MakeEntryDir, MakeLink, WriteFile, MoveAway

\* The logs agree with the plan after each step.
LEMMA NextLogs ==
  ASSUME TypeInv, Sounds, pc \in Working => Safe, LogsInv, [Next]_vars,
         pc' \in Forward
  PROVE  LogsInv'
BY NextCourse, NextManifested, NextNoted, NextFetchesDone, NextDeclared, NextClaimed
DEF LogsInv

-----------------------------------------------------------------------------
(* The disk. *)

\* What the step before has written is there.
Filled ==
  /\ pc \in {"unclaim", "reclaim", "fetched"} => fs[cur.path].kind = "new"
  /\ pc = "write" => fs[cur.path].kind = "partial"
  /\ pc = "record" => Exists(made)

\* p has been made and not yet been entered.
InHand(p) == \/ p = made /\ pc = "record"
             \/ p = cur.path /\ (pc \in {"reclaim", "fetched"} \/ (pc = "write" /\ cur.do = "fetch"))

\* Whatever this run has written is in a log or about to be.
Logging == \A p \in Path : fs[p].kind \in {"new", "partial"} =>
             p \in manifest \cup downloads \/ InHand(p)

\* p is in the manifest before it is made.
Pending(p) ==
  /\ pc \in Working
  /\ \/ pc = "open" /\ p = cur.path
     \/ \E k \in DOMAIN Plan :
          /\ Plan[k].do = "manifest" /\ Plan[k].path = p
          /\ k > step \/ (k = step /\ pc \in Between)

\* Whatever the manifest lists exists or is about to.
Listed == \A p \in manifest \ ScratchDirs : Exists(p) \/ Pending(p)

\* What backup_file() is moving away is none of the new version's.
Leaving ==
  pc \in Busy => \A i \in DOMAIN stack :
    /\ stack[i] \notin manifest \cup downloads
    /\ cur.do = "obsolete" => fs[stack[i]] # Dir
    /\ cur.do = "install" => stack[i] \notin Streets

\* A directory that was not there is in the manifest.
DirsLogged ==
  pc \in Working => \A p \in Path \ Image(Slot) : fs[p] = Dir /\ before[p] # Dir =>
    p \in manifest \/ (pc = "record" /\ p = made)

\* Past the obsolete files, what is left of the old version has been seen ...
Passed ==
  \A k \in 1 .. step : Over(k) /\ Plan[k].do = "obsolete" =>
    \A p \in oldFiles : IsObject(fs[p]) => p \in seen \/ InHand(p)

\* ... and what has been seen and is there is in the manifest.
Kept == \A p \in seen \cap oldFiles : IsObject(fs[p]) => p \in manifest \/ InHand(p)

\* What there is in the scratch directory.
Tidy == \A p \in Path : Exists(p) /\ ScratchDir \in Above[p] =>
          p \in Image(Slot) \cup Image(Downloads) \cup {DownloadDir, RollbackDir}

\* There is one way of being nothing, and one of being a directory.
Proper ==
  /\ \A p \in Path : fs[p].kind = "absent" => fs[p] = Absent
  /\ \A p \in Path : fs[p].kind = "dir" => fs[p] = Dir
  /\ \A p \in Image(Downloads) : fs[p] # Dir

\* What holds of the disk.
DiskInv == /\ Proper /\ Filled /\ Logging /\ Listed /\ Leaving /\ DirsLogged
           /\ Passed /\ Kept /\ Tidy

\* The scratch directory and its directories.
Inner == {DownloadDir, RollbackDir, ScratchDir}

\* What each loop of the cleaning has still to delete, and has deleted.
Swept ==
  /\ SkipPrompt => pc \notin Cleaning
  /\ pc \in Cleaning \cup {"show"} => step = Len(Plan)
  /\ pc = "dropslots" => \A p \in Image(Slot) : Exists(p) => p \in rest
  /\ pc = "dropdownloads" => \A p \in Image(Downloads) : Exists(p) => p \in rest
  /\ pc = "dropscratch" => \A p \in Inner : Exists(p) => p \in rest
  /\ pc = "dropdirs" => rest \cap manifest = {}
  /\ pc \in (Cleaning \ {"dropslots"}) \cup {"show"} /\ ~SkipPrompt =>
       \A p \in Image(Slot) : ~Exists(p)
  /\ pc \in {"dropscratch", "dropdirs", "forget", "show"} /\ ~SkipPrompt =>
       \A p \in Image(Downloads) : ~Exists(p)
  /\ pc \in {"dropdirs", "forget", "show"} /\ ~SkipPrompt => ~Exists(ScratchDir)


\* What is at other paths stays as it is.
Elsewhere(p) == \A q \in Path : q # p => fs'[q] = fs[q]

\* A directory is made, or is there: a parent, or the entry itself.
Lays ==
  /\ pc \in {"parents", "mkdir"} /\ pc' = "record" /\ UNCHANGED <<stack, seen>>
  /\ made' \in Path /\ fs'[made'] = Dir /\ Elsewhere(made')
  /\ IF stack # <<>> THEN made' \in Hidden /\ made' \notin Image(Slot)
     ELSE made' \in Above[cur.path] \/ (made' = cur.path /\ cur.kind = "dir")

\* A symbolic link is made.
Links ==
  /\ pc = "link" /\ pc' = "record" /\ UNCHANGED <<stack, seen>> /\ stack = <<>>
  /\ made' = cur.path /\ fs'[cur.path] = New(cur.path) /\ Elsewhere(cur.path)
  /\ cur.kind = "symlink"

\* A file is created.
Opens ==
  /\ pc = "open" /\ pc' = "write" /\ UNCHANGED <<stack, seen, made>> /\ stack = <<>>
  /\ fs'[cur.path] = Partial(cur.path) /\ Elsewhere(cur.path) /\ cur.kind = "file"

\* A file gets its contents.
Fills ==
  /\ pc = "write" /\ UNCHANGED <<stack, seen, made>> /\ stack = <<>>
  /\ pc' = CASE cur.do = "fetch"    -> "fetched"
             [] cur.do = "manifest" -> "task"
             [] OTHER               -> "unclaim"
  /\ fs'[cur.path] = New(cur.path) /\ Elsewhere(cur.path) /\ cur.kind = "file"

\* An object, or an empty directory, goes to a rollback file.
Stores ==
  /\ pc = "move" /\ pc' \in {"backup", "obsolete", "parents"} /\ stack # <<>>
  /\ Top \in Path /\ Top = stack[Len(stack)] /\ stack' = Pop /\ made' = made
  /\ seen' = seen \cup ({Top} \cap old)
  /\ \E s \in Image(Slot) :
       /\ s \in Path /\ Top # s /\ fs'[s] = fs[Top] /\ fs'[Top] = Absent
       /\ \A q \in Path : q # Top /\ q # s => fs'[q] = fs[q]

\* Where a package has a directory there is no link to one.
LEMMA NoLinkThere ==
  ASSUME TypeInv, Taken = {}, torn = {}, Safe, NEW t \in Image(Plan), t.kind = "dir",
         t.path \in Path \ Image(Slot), IsDirectory(t.path)
  PROVE  fs[t.path] = Dir
<1> SUFFICES ASSUME NEW l \in links, fs[t.path] = Prior(l) PROVE FALSE
  BY DEF IsDirectory
<1>1. Needed(t.path) /\ fs[t.path].of = l
  BY LinksAreProtected, Kinds DEF Needed, Owed
<1> QED
  BY <1>1 DEF Safe, InPlace, Taken

\* A step that works on the disk and is not fatal is one of these.
LEMMA MakesWhat ==
  ASSUME TypeInv, Course, Safe, Makes, [Next]_vars, pc' \in Forward
  PROVE  /\ pc \in Busy /\ cur' = cur /\ Plan' = Plan
         /\ UNCHANGED <<job, step, manifest, downloads>>
         /\ Lays \/ Links \/ Opens \/ Fills \/ Stores
<1> USE DEF Goto, Fatal, logs, menuv, ctl, Busy
<1>1. /\ pc \in Busy /\ UNCHANGED <<job, step, manifest, downloads>>
      /\ ~StartTask
  BY DEF Makes, MakeParent, MakeEntryDir, MakeLink, OpenFile, WriteFile, MoveAway, StartTask
<1>2. Plan' = Plan /\ cur' = cur
  BY <1>1, Fixed DEF cur
<1>3. cur.path \in Path /\ pc' \notin {"revert"} /\ fs \in [Path -> Node]
  BY <1>1, Doing DEF Forward, Working, Cleaning, TypeInv, TypeOK
<1>4. \A a \in Path, n \in Node : /\ [fs EXCEPT ![a] = n][a] = n
                                  /\ \A q \in Path : q # a => [fs EXCEPT ![a] = n][q] = fs[q]
  BY <1>3
<1>5. Dir \in Node /\ \A p \in Path : New(p) \in Node /\ Partial(p) \in Node
  BY DestInPath DEF Dir, New, Partial, Node
<1>6. CASE MakeParent
  <2>1. PICK a \in Missing : MakeDir(a)
    BY <1>6 DEF MakeParent
  <2>2. /\ pc = "parents" /\ pc' = "record" /\ made' = a /\ UNCHANGED <<stack, seen>>
        /\ fs' = [fs EXCEPT ![a] = Dir]
    BY <1>3, <1>6, <2>1, MissingIsNone DEF MakeParent, MakeDir, Missing
  <2>3. /\ a \in Path /\ (stack = <<>> => a \in Above[cur.path])
        /\ stack # <<>> => a \in Hidden
    BY <2>2, MissingIs
  <2>4. stack # <<>> => a \notin Image(Slot)
    <3>1. stack # <<>> => NextSlot \in Path
      BY <2>2, Slots DEF TypeInv, TypeOK, Control, Between, SlotsLeft, NextSlot
    <3>2. stack # <<>> => a \in Above[NextSlot]
      BY <2>1 DEF Missing, Target
    <3> QED
      BY <3>1, <3>2, SlotAssumption
  <2>5. fs'[a] = Dir /\ Elsewhere(a)
    BY <1>4, <1>5, <2>2, <2>3 DEF Elsewhere
  <2> QED
    BY <1>1, <1>2, <2>2, <2>3, <2>4, <2>5 DEF Lays
<1>7. CASE MakeEntryDir
  <2>1. /\ pc = "mkdir" /\ pc' = "record" /\ made' = cur.path /\ UNCHANGED <<stack, seen>>
        /\ fs' = [fs EXCEPT ![cur.path] = Dir] \/ (IsDirectory(cur.path) /\ fs' = fs)
    BY <1>3, <1>7 DEF MakeEntryDir, MakeDir
  <2>2. /\ stack = <<>> /\ cur.kind = "dir"
        /\ IsDirectory(cur.path) => fs[cur.path] = Dir
    BY <1>1, <2>1, Doing, NoLinkThere DEF TypeInv, Control, Course, Nested, Between
  <2>3. fs'[cur.path] = Dir /\ Elsewhere(cur.path)
    BY <1>3, <1>4, <1>5, <2>1, <2>2 DEF Elsewhere
  <2> QED
    BY <1>1, <1>2, <1>3, <2>1, <2>2, <2>3 DEF Lays
<1>8. CASE MakeLink
  <2>1. /\ pc = "link" /\ pc' = "record" /\ made' = cur.path /\ UNCHANGED <<stack, seen>>
        /\ fs' = [fs EXCEPT ![cur.path] = New(cur.path)]
    BY <1>3, <1>8 DEF MakeLink
  <2>2. stack = <<>> /\ cur.kind = "symlink"
    BY <2>1 DEF TypeInv, Control, Course, Nested, Between
  <2>3. fs'[cur.path] = New(cur.path) /\ Elsewhere(cur.path)
    BY <1>3, <1>4, <1>5, <2>1 DEF Elsewhere
  <2> QED
    BY <1>1, <1>2, <2>1, <2>2, <2>3 DEF Links
<1>9. CASE OpenFile
  <2>1. /\ pc = "open" /\ pc' = "write" /\ UNCHANGED <<stack, seen, made>>
        /\ fs' = [fs EXCEPT ![cur.path] = Partial(cur.path)]
    BY <1>3, <1>9 DEF OpenFile
  <2>2. stack = <<>> /\ cur.kind = "file"
    BY <2>1 DEF TypeInv, Control, Course, Nested, Between, Writing
  <2>3. fs'[cur.path] = Partial(cur.path) /\ Elsewhere(cur.path)
    BY <1>3, <1>4, <1>5, <2>1 DEF Elsewhere
  <2> QED
    BY <1>1, <1>2, <2>1, <2>2, <2>3 DEF Opens
<1>10. CASE WriteFile
  <2>1. /\ pc = "write" /\ UNCHANGED <<stack, seen, made>>
        /\ pc' = CASE cur.do = "fetch"    -> "fetched"
                   [] cur.do = "manifest" -> "task"
                   [] OTHER               -> "unclaim"
        /\ fs' = [fs EXCEPT ![cur.path] = New(cur.path)]
    BY <1>3, <1>10 DEF WriteFile
  <2>2. stack = <<>> /\ cur.kind = "file"
    BY <2>1 DEF TypeInv, Control, Course, Nested, Between, Writing
  <2>3. fs'[cur.path] = New(cur.path) /\ Elsewhere(cur.path)
    BY <1>3, <1>4, <1>5, <2>1 DEF Elsewhere
  <2> QED
    BY <1>1, <1>2, <2>1, <2>2, <2>3 DEF Fills
<1>11. CASE MoveAway
  <2> DEFINE s == Slot[Len(rollbacks)]
  <2>1. /\ pc = "move" /\ made' = made /\ fs' = Moved(Top, s)
        /\ stack' = Pop /\ seen' = seen \cup ({Top} \cap old)
        /\ pc' \in {"backup", "obsolete", "parents"}
    BY <1>3, <1>11 DEF MoveAway
  <2>2. stack # <<>> /\ rollbacks # <<>>
    BY <2>1 DEF TypeInv, Control, Nested
  <2>3. Top \in Path /\ Top = stack[Len(stack)] /\ Top \notin Hidden
    BY <2>2 DEF Top, TypeInv, TypeOK, Safe, Backing
  <2>4. s \in Path /\ s \in Image(Slot)
    BY <2>2, Slots DEF TypeInv, TypeOK
  <2>5. Top # s
    BY <2>3, <2>4 DEF Hidden
  <2>6. /\ fs'[s] = fs[Top] /\ fs'[Top] = Absent
        /\ \A q \in Path : q # Top /\ q # s => fs'[q] = fs[q]
    <3> HIDE DEF s
    <3> QED
      BY <1>3, <2>1, <2>3, <2>4, <2>5 DEF Moved
  <2> HIDE DEF s
  <2> QED
    BY <1>1, <1>2, <2>1, <2>2, <2>3, <2>4, <2>5, <2>6 DEF Stores
<1> QED
  BY <1>6, <1>7, <1>8, <1>9, <1>10, <1>11 DEF Makes

\* The steps that move on or write a log leave the disk.
LEMMA QuietWhat ==
  ASSUME Quiets \/ Notes, TypeInv, Course
  PROVE  /\ fs' = fs /\ job' = job
         /\ Quiets => /\ UNCHANGED <<manifest, seen, downloads, made>>
                      /\ pc \notin {"record", "reclaim", "fetched", "write", "unclaim"}
                      /\ pc' \notin {"record", "reclaim", "fetched", "write", "unclaim"}
         /\ Notes => UNCHANGED <<step, stack, made>> /\ cur' = cur /\ pc \in Busy
<1> USE DEF Goto, Fatal, logs, menuv, ctl
<1>1. CASE Quiets
  <2>1. /\ fs' = fs /\ job' = job /\ UNCHANGED <<manifest, seen, downloads, made>>
        /\ pc \notin {"record", "reclaim", "fetched", "write", "unclaim"}
    BY <1>1 DEF Quiets, StartTask, Gate, MenusInstalled, PermitWrite,
         PickObsolete, BackupDescend, BackupReady, LogRollback, ParentsDone,
         RegisterMenu
  <2>2. pc' \notin {"record", "reclaim", "fetched", "write", "unclaim"}
    <3>1. CASE StartTask
      <4>1. step + 1 \in DOMAIN Plan /\ Plan[step + 1] \in Shaped
        BY <3>1, PlanPlaces DEF StartTask, TypeInv, TypeOK
      <4> QED
        BY <3>1, <4>1 DEF StartTask, Shaped, Task, FirstStep
    <3> QED
      BY <1>1, <3>1 DEF Quiets, Gate, MenusInstalled, PermitWrite,
         PickObsolete, BackupDescend, BackupReady, LogRollback, ParentsDone, Create,
         RegisterMenu
  <2>3. ~Notes
    BY <1>1 DEF Quiets, StartTask, Gate, MenusInstalled, PermitWrite,
         PickObsolete, BackupDescend, BackupReady, LogRollback, ParentsDone,
         RegisterMenu, Notes, Declare, Record, Claim, Unclaim, Reclaim, Fetched
  <2> QED
    BY <1>1, <2>1, <2>2, <2>3
<1>2. CASE Notes
  <2>1. fs' = fs /\ job' = job /\ UNCHANGED <<step, stack, made>> /\ pc \in Busy
    BY <1>2 DEF Notes, Declare, Record, Claim, Unclaim, Reclaim, Fetched, Busy
  <2>2. ~Quiets
    BY <1>2 DEF Quiets, StartTask, Gate, MenusInstalled, PermitWrite,
         PickObsolete, BackupDescend, BackupReady, LogRollback, ParentsDone,
         RegisterMenu, Notes, Declare, Record, Claim, Unclaim, Reclaim, Fetched
  <2>3. cur' = cur
    BY <2>1, Fixed DEF cur
  <2> QED
    BY <2>1, <2>2, <2>3
<1> QED
  BY <1>1, <1>2

\* The cleaning only deletes what is on its list.
LEMMA CleansWhat ==
  ASSUME TypeInv, Cleans
  PROVE  /\ UNCHANGED <<job, manifest, seen, stack, made, step>>
         /\ pc \notin Busy /\ pc' \notin Busy /\ pc' # "task"
         /\ \A q \in Path : \/ fs'[q] = fs[q]
                            \/ /\ fs'[q] = Absent /\ q \in rest
                               /\ pc \in {"dropslots", "dropdownloads", "dropscratch", "dropdirs"}
<1>1. /\ UNCHANGED <<job, manifest, seen, stack, made, step>>
      /\ pc \notin Busy /\ pc' \notin Busy /\ pc' # "task"
  <2>1. UNCHANGED job
    BY DEF Cleans, FinishStages, DropSlots, DropDownloads, DropScratch, DropDirs, Forget, Sweep
  <2> QED
    BY <2>1, CleanSteps
<1>2. CASE FinishStages \/ Forget
  BY <1>1, <1>2 DEF FinishStages, Forget
<1>3. CASE DropSlots \/ DropDownloads \/ DropScratch \/ DropDirs
  <2>1. pc \in {"dropslots", "dropdownloads", "dropscratch", "dropdirs"}
    BY <1>3 DEF DropSlots, DropDownloads, DropScratch, DropDirs, Sweep
  <2>2. fs' = fs \/ \E p \in rest : fs' = [fs EXCEPT ![p] = Absent]
    BY <1>3 DEF DropSlots, DropDownloads, DropScratch, DropDirs, Sweep, TryDelete, Deleted
  <2>3. fs \in [Path -> Node]
    BY DEF TypeInv, TypeOK
  <2> QED
    BY <1>1, <2>1, <2>2, <2>3
<1> QED
  BY <1>1, <1>2, <1>3 DEF Cleans


\* What is on the disk is nothing, a directory or an object.
LEMMA NextProper ==
  ASSUME TypeInv, Sounds, Course, pc \in Working => Safe, Proper, [Next]_vars,
         pc' \in Forward
  PROVE  Proper'
<1>1. fs \in [Path -> Node] /\ Image(Downloads) \subseteq Path
  BY SequenceAssumption DEF TypeInv, TypeOK, Image
<1>2. CASE UNCHANGED vars \/ Quiets \/ Notes
  <2>1. fs' = fs
    BY <1>2, QuietWhat DEF vars
  <2> QED
    BY <2>1 DEF Proper
<1>3. CASE Cleans
  <2>1. \A q \in Path : fs'[q] = fs[q] \/ fs'[q] = Absent
    BY <1>3, CleansWhat
  <2> QED
    BY <1>1, <2>1, Kinds DEF Proper
<1>4. CASE Makes
  <2>1. Safe /\ pc \in Busy
    BY <1>4 DEF Working, Busy, Makes, MakeParent, MakeEntryDir, MakeLink, OpenFile, WriteFile,
         MoveAway
  <2>2. Lays \/ Links \/ Opens \/ Fills \/ Stores
    BY <1>4, <2>1, MakesWhat
  <2>3. /\ Image(Downloads) \cap (Streets \cup Image(Slot)) = {}
        /\ cur.kind = "dir" => cur.path \in Streets
        /\ Above[cur.path] \subseteq Streets /\ Hidden \subseteq Streets \cup Image(Slot)
        /\ cur.path \in Path
    BY <2>1, Town, Doing, OwnPlaces
  <2>4. CASE Lays
    <3>1. made' \in Streets
      BY <2>3, <2>4 DEF Lays
    <3>2. \A q \in Path : fs'[q] = IF q = made' THEN Dir ELSE fs[q]
      BY <2>4 DEF Lays, Elsewhere
    <3> QED
      BY <1>1, <2>3, <3>1, <3>2, Kinds DEF Proper
  <2>5. CASE Links \/ Opens \/ Fills
    <3>1. \A q \in Path : fs'[q] \in {fs[q], New(q), Partial(q)}
      BY <2>3, <2>5 DEF Links, Opens, Fills, Elsewhere
    <3> QED
      BY <1>1, <3>1, Kinds DEF Proper
  <2>6. CASE Stores
    <3>1. PICK s \in Image(Slot) :
            /\ s \in Path /\ Top # s /\ fs'[s] = fs[Top] /\ fs'[Top] = Absent
            /\ \A q \in Path : q # Top /\ q # s => fs'[q] = fs[q]
      BY <2>6 DEF Stores
    <3>2. Top \in Path /\ s \notin Image(Downloads)
      BY <2>3, <2>6 DEF Stores
    <3>3. \A q \in Path : fs'[q] = IF q = s THEN fs[Top] ELSE IF q = Top THEN Absent ELSE fs[q]
      BY <3>1, <3>2
    <3> QED
      BY <1>1, <3>2, <3>3, Kinds DEF Proper
  <2> QED
    BY <2>2, <2>4, <2>5, <2>6
<1> QED
  BY <1>2, <1>3, <1>4, ForwardSteps

\* The same with what is known while a task is done.
LEMMA AtWork ==
  ASSUME TypeInv, Course, pc \in Working => Safe, Makes, [Next]_vars, pc' \in Forward
  PROVE  /\ Safe /\ pc \in Busy /\ cur' = cur /\ Plan' = Plan /\ cur.path \in Path
         /\ cur.path \notin Image(Slot) /\ cur \in Shaped /\ cur \in Image(Plan)
         /\ UNCHANGED <<job, step, manifest, downloads>>
         /\ Lays \/ Links \/ Opens \/ Fills \/ Stores
<1>1. Safe
  BY DEF Working, Busy, Makes, MakeParent, MakeEntryDir, MakeLink, OpenFile, WriteFile,
         MoveAway
<1> QED
  BY <1>1, MakesWhat, Doing

\* What has just been written is there.
LEMMA NextFilled ==
  ASSUME TypeInv, Course, pc \in Working => Safe, Filled, [Next]_vars, pc' \in Forward
  PROVE  Filled'
<1>1. CASE UNCHANGED vars
  <2>1. cur' = cur
    BY <1>1 DEF vars, cur, Plan
  <2> QED
    BY <1>1, <2>1 DEF Filled, vars, Exists
<1>2. CASE Quiets
  BY <1>2, QuietWhat DEF Filled
<1>3. CASE Notes
  <2>1. fs' = fs /\ cur' = cur
    BY <1>3, QuietWhat
  <2>2. pc' \notin {"fetched", "write", "record", "unclaim"}
        /\ (pc' = "reclaim" => pc = "unclaim")
    BY <1>3 DEF Notes, Declare, Record, Claim, Unclaim, Reclaim, Fetched, Goto
  <2> QED
    BY <2>1, <2>2 DEF Filled
<1>4. CASE Cleans
  BY <1>4, CleansWhat DEF Filled, Busy
<1>5. CASE Makes
  BY <1>5, AtWork, Kinds DEF Lays, Links, Opens, Fills, Stores, Filled, Exists
<1> QED
  BY <1>1, <1>2, <1>3, <1>4, <1>5, ForwardSteps

\* What is only in hand when a step begins is in the logs when it ends.
LEMMA HandedOver ==
  ASSUME TypeInv, Course, Quiets \/ Notes \/ Cleans, NEW p, InHand(p)
  PROVE  /\ pc \in Busy
         /\ p \in manifest' \/ (Fetched /\ p = cur.path /\ p \in downloads')
<1>1. Notes /\ ~Declare /\ ~Claim /\ ~Unclaim
  BY CleansWhat, QuietWhat DEF InHand, Busy, Declare, Claim, Unclaim
<1>2. CASE Record \/ Reclaim
  BY <1>2 DEF Record, Reclaim, Enter, InHand, Busy
<1>3. CASE Fetched
  BY <1>3 DEF Fetched, InHand, Busy
<1> QED
  BY <1>1, <1>2, <1>3 DEF Notes

\* Every object the run has written is in a log, or about to be.
LEMMA NextLogging ==
  ASSUME TypeInv, Sounds, pc \in Working => Safe, LogsInv, Filled, Leaving, Logging, Swept,
         [Next]_vars, pc' \in Forward
  PROVE  Logging'
<1>1. SUFFICES ASSUME NEW p \in Path, fs'[p].kind \in {"new", "partial"}
               PROVE  p \in manifest' \cup downloads' \/ InHand(p)'
  BY DEF Logging
<1> USE DEF LogsInv
<1>2. CASE UNCHANGED vars
  <2>1. cur' = cur
    BY <1>2 DEF vars, cur, Plan
  <2> QED
    BY <1>1, <1>2, <2>1 DEF Logging, vars, InHand
<1>3. CASE Quiets \/ Notes
  <2>1. fs' = fs /\ ~Forget
    BY <1>3, QuietWhat, CleansWhat DEF Forget, Quiets, Notes, StartTask, Gate, MenusInstalled, PermitWrite,
         PickObsolete, BackupDescend, BackupReady, LogRollback, ParentsDone,
         RegisterMenu, Declare, Record, Claim, Unclaim, Reclaim, Fetched
  <2>2. CASE InHand(p)
    BY <1>3, <2>2, HandedOver
  <2>3. CASE p \in manifest \cup downloads
    <3>1. CASE Unclaim
      <4>1. pc' = "reclaim" /\ cur' = cur /\ manifest' = manifest \ {cur.path}
            /\ downloads' = downloads
        BY <3>1, QuietWhat DEF Unclaim, Goto, Notes
      <4> QED
        BY <2>3, <4>1 DEF InHand
    <3> QED
      BY <2>1, <2>3, <3>1, LogSteps
  <2> QED
    BY <1>1, <2>1, <2>2, <2>3 DEF Logging
<1>4. CASE Cleans
  <2>1. fs[p].kind \in {"new", "partial"} /\ manifest' = manifest
    BY <1>1, <1>4, CleansWhat, Kinds
  <2>2. ~InHand(p)
    BY <1>4, CleansWhat DEF InHand, Busy
  <2>3. CASE Forget
    <3>1. pc = "forget" /\ ~SkipPrompt
      BY <2>3 DEF Forget, Swept, Cleaning
    <3>2. \A q \in Image(Downloads) : ~Exists(q)
      BY <3>1 DEF Swept
    <3>3. p \notin downloads
      BY <2>1, <3>2, Kinds DEF Manifested, Exists
    <3> QED
      BY <2>1, <2>2, <3>3 DEF Logging
  <2>4. CASE ~Forget
    <3>1. downloads' = downloads
      BY <1>4, <2>4 DEF Cleans, FinishStages, DropSlots, DropDownloads, DropScratch, DropDirs,
           Sweep, logs
    <3> QED
      BY <2>1, <2>2, <3>1 DEF Logging
  <2> QED
    BY <2>3, <2>4
<1>5. CASE Makes
  <2>1. /\ cur' = cur /\ cur.path \in Path /\ manifest' = manifest /\ downloads' = downloads
        /\ Lays \/ Links \/ Opens \/ Fills \/ Stores
    BY <1>5, AtWork
  <2>2. pc # "record" /\ pc # "reclaim" /\ pc # "fetched"
    BY <1>5 DEF Makes, MakeParent, MakeEntryDir, MakeLink, OpenFile, WriteFile, MoveAway
  <2>3. CASE Lays
    <3>1. p # made' /\ fs[p].kind \in {"new", "partial"}
      BY <1>1, <2>3, Kinds DEF Lays, Elsewhere
    <3>2. ~InHand(p)
      BY <2>3 DEF InHand, Lays
    <3> QED
      BY <2>1, <3>1, <3>2 DEF Logging
  <2>4. CASE Links
    <3>1. p = cur.path => InHand(p)'
      BY <2>4 DEF Links, InHand
    <3>2. ~InHand(p)
      BY <2>4 DEF InHand, Links
    <3> QED
      BY <1>1, <2>1, <2>4, <3>1, <3>2 DEF Logging, Links, Elsewhere
  <2>5. CASE Opens
    <3>1. p = cur.path => p \in manifest \/ InHand(p)'
      BY <2>1, <2>5 DEF Opens, InHand, Claimed
    <3>2. ~InHand(p)
      BY <2>5 DEF InHand, Opens
    <3> QED
      BY <1>1, <2>1, <2>5, <3>1, <3>2 DEF Logging, Opens, Elsewhere
  <2>6. CASE Fills
    <3>1. p = cur.path => p \in manifest \/ InHand(p)'
      BY <2>1, <2>6 DEF Fills, InHand, Claimed
    <3>2. p # cur.path => ~InHand(p)
      BY <2>6 DEF InHand, Fills
    <3> QED
      BY <1>1, <2>1, <2>6, <3>1, <3>2 DEF Logging, Fills, Elsewhere
  <2>7. CASE Stores
    <3>1. PICK s \in Image(Slot) :
            /\ s \in Path /\ Top # s /\ fs'[s] = fs[Top] /\ fs'[Top] = Absent
            /\ \A q \in Path : q # Top /\ q # s => fs'[q] = fs[q]
      BY <2>7 DEF Stores
    <3>2. Top \in Path /\ pc = "move" /\ stack # <<>> /\ Top = stack[Len(stack)]
      BY <2>7 DEF Stores
    <3>3. Len(stack) \in DOMAIN stack
      BY <3>2 DEF TypeInv, TypeOK
    <3>4. Top \notin manifest \cup downloads
      BY <3>2, <3>3 DEF Leaving, Busy
    <3>5. \A q \in Path : ~InHand(q)
      BY <3>2 DEF InHand
    <3>6. fs[Top].kind \notin {"new", "partial"}
      BY <3>2, <3>4, <3>5 DEF Logging
    <3>7. p # s /\ p # Top
      BY <1>1, <3>1, <3>6, Kinds
    <3> QED
      BY <1>1, <2>1, <3>1, <3>5, <3>7 DEF Logging
  <2> QED
    BY <2>1, <2>3, <2>4, <2>5, <2>6, <2>7
<1> QED
  BY <1>2, <1>3, <1>4, <1>5, ForwardSteps


\* What is in the logs is where the package and the installer put things.
LEMMA LogsLaid ==
  ASSUME TypeInv, Sounds, Manifested
  PROVE  /\ manifest \cup downloads \subseteq Laid /\ downloads \subseteq Image(Downloads)
         /\ manifest \cap (Image(Slot) \cup Image(Downloads)) = {}
<1>1. Put \subseteq Written \cup Streets
  <2>1. ASSUME NEW k \in 1 .. step, Plan[k].do = "install"
        PROVE  Plan[k].path \in Written \cup Streets
    <3>1. k \in DOMAIN Plan
      BY PlanPlaces DEF TypeInv, TypeOK
    <3>2. Plan[k] \in Image(Plan)
      BY <3>1, PlanPlaces
    <3> QED
      BY <2>1, <3>2, Town
  <2> QED
    BY <2>1 DEF Put
<1>2. Image(Slot) \subseteq OwnPaths /\ Image(Downloads) \subseteq OwnPaths
  BY DEF OwnPaths
<1>3. (Written \cup OwnPaths) \cap (Streets \cup ScratchDirs) = {} /\ Written \cap OwnPaths = {}
  BY Town
<1>4. /\ manifest \subseteq Streets \cup Put \cup (OwnPaths \ (Image(Downloads) \cup Image(Slot)))
      /\ downloads \subseteq Image(Downloads)
  BY DEF Manifested
<1> QED
  BY <1>1, <1>2, <1>3, <1>4 DEF Laid

\* What is pending stays so until it is written.
LEMMA StillPending ==
  ASSUME TypeInv, Course, [Next]_vars, pc' \in Forward, NEW p, Pending(p)
  PROVE  Pending(p)' \/ (OpenFile /\ p = cur.path)
<1> USE DEF Goto, Fatal, logs, menuv, ctl
<1>1. Plan' = Plan
  BY JobFixed, Fixed
<1>2. CASE UNCHANGED vars
  BY <1>1, <1>2 DEF Pending, vars, cur
<1>3. CASE Cleans
  <2>1. pc = "task" /\ FinishStages
    BY <1>3, CleanSteps DEF Pending, Working
  <2>2. step = Len(Plan) /\ DOMAIN Plan = 1 .. Len(Plan) /\ Len(Plan) \in Nat
    BY <2>1, PlanPlaces DEF FinishStages
  <2> QED
    BY <2>1, <2>2 DEF Pending, Between
<1>4. CASE StartTask
  <2>1. pc = "task" /\ step' = step + 1 /\ step \in Nat /\ DOMAIN Plan \subseteq Nat
    BY <1>4, PlanPlaces DEF StartTask, TypeInv, TypeOK
  <2>2. PICK k \in DOMAIN Plan : Plan[k].do = "manifest" /\ Plan[k].path = p /\ k > step
    BY <2>1 DEF Pending, Between
  <2>3. k > step + 1 \/ k = step + 1
    BY <2>1, <2>2
  <2>4. k = step + 1 => pc' \in Between
    BY <1>4, <2>2 DEF StartTask, FirstStep, Between
  <2>5. pc' \in Working
    <3>1. step + 1 \in DOMAIN Plan /\ Plan[step + 1] \in Shaped
      BY <1>4, PlanPlaces DEF StartTask, TypeInv, TypeOK
    <3> QED
      BY <1>4, <3>1 DEF StartTask, Shaped, Task, FirstStep, Working, Busy
  <2> QED
    BY <1>1, <2>1, <2>2, <2>3, <2>4, <2>5 DEF Pending
<1>5. CASE (Quiets /\ ~StartTask) \/ Notes \/ Makes
  <2>1. step' = step /\ pc \in Busy /\ cur' = cur
    BY <1>1, <1>5 DEF Quiets, Notes, Makes, Gate, MenusInstalled, PermitWrite,
         PickObsolete, BackupDescend, BackupReady, LogRollback, ParentsDone,
         RegisterMenu, Declare, Record, Claim, Unclaim, Reclaim, Fetched, MakeParent,
         MakeEntryDir, MakeLink, OpenFile, WriteFile, MoveAway, cur, Busy
  <2>2. pc' \in Working
    <3>1. ~Cleans
      BY <2>1, CleanSteps
    <3> QED
      BY <1>5 DEF Forward, Working, Busy, Cleaning, Quiets, Notes, Makes, Gate, MenusInstalled, PermitWrite,
         PickObsolete, BackupDescend, BackupReady, LogRollback, ParentsDone, Create,
         RegisterMenu, Declare, Record, Claim, Unclaim, Reclaim, Fetched, MakeParent, MakeDir,
         MakeEntryDir, MakeLink, OpenFile, WriteFile, MoveAway
  <2>3. CASE pc = "open" /\ p = cur.path
    <3>1. OpenFile
      BY <1>5, <2>3
      DEF Quiets, Notes, Makes, StartTask, Gate, MenusInstalled, PermitWrite,
         PickObsolete, BackupDescend, BackupReady, LogRollback, ParentsDone,
         RegisterMenu, Declare, Record, Claim, Unclaim, Reclaim, Fetched, MakeParent,
         MakeEntryDir, MakeLink, WriteFile, MoveAway
    <3> QED
      BY <2>3, <3>1
  <2>4. CASE \E k \in DOMAIN Plan : /\ Plan[k].do = "manifest" /\ Plan[k].path = p
                                    /\ k > step
    BY <1>1, <2>1, <2>2, <2>4 DEF Pending
  <2>5. CASE \E k \in DOMAIN Plan : /\ Plan[k].do = "manifest" /\ Plan[k].path = p
                                    /\ k = step /\ pc \in Between
    <3>1. PICK k \in DOMAIN Plan : /\ Plan[k].do = "manifest" /\ Plan[k].path = p
                                   /\ k = step /\ pc \in Between
      BY <2>5
    <3>2. cur = Plan[k] /\ cur.kind = "file"
      BY <3>1, PlanPlaces DEF cur, Shaped
    <3>3. stack = <<>>
      BY <2>1, <3>1, <3>2 DEF Course
    <3>4. pc' \in Between \/ (pc' = "open" /\ cur' = cur)
      <4>1. CASE pc = "record"
        <5>1. Record
          BY <1>5, <4>1
          DEF Quiets, Notes, Makes, StartTask, Gate, MenusInstalled, PermitWrite,
           PickObsolete, BackupDescend, BackupReady, LogRollback, ParentsDone,
           RegisterMenu, Declare, Claim, Unclaim, Reclaim, Fetched, MakeParent,
           MakeEntryDir, MakeLink, OpenFile, WriteFile, MoveAway
        <5>2. made \in Above[cur.path] /\ cur.path \in Path
          BY <2>1, <3>2, <3>3, <4>1, Doing DEF Course
        <5> QED
          BY <5>1, <5>2, TreeAssumption DEF Record, Between
      <4>2. CASE pc = "parents"
        <5>1. ParentsDone \/ MakeParent
          BY <1>5, <4>2
          DEF Quiets, Notes, Makes, StartTask, Gate, MenusInstalled, PermitWrite,
           PickObsolete, BackupDescend, BackupReady, LogRollback,
           RegisterMenu, Declare, Record, Claim, Unclaim, Reclaim, Fetched,
           MakeEntryDir, MakeLink, OpenFile, WriteFile, MoveAway
        <5>2. CASE ParentsDone
          BY <2>1, <3>1, <3>2, <3>3, <5>2 DEF ParentsDone, Create
        <5>3. CASE MakeParent
          BY <2>2, <5>3 DEF MakeParent, MakeDir, Between, Working, Busy
        <5> QED
          BY <5>1, <5>2, <5>3
      <4> QED
        BY <3>1, <4>1, <4>2 DEF Between
    <3> QED
      BY <1>1, <2>1, <2>2, <3>1, <3>2, <3>4 DEF Pending
  <2> QED
    BY <2>3, <2>4, <2>5 DEF Pending
<1> QED
  BY <1>2, <1>3, <1>4, <1>5, ForwardSteps

\* What the manifest lists exists, or is about to.
LEMMA NextListed ==
  ASSUME TypeInv, Sounds, pc \in Working => Safe, LogsInv, Queues, Filled, Leaving, Listed,
         Swept, [Next]_vars, pc' \in Forward
  PROVE  Listed'
<1>1. SUFFICES ASSUME NEW p \in manifest' \ ScratchDirs
               PROVE  Exists(p)' \/ Pending(p)'
  BY DEF Listed
<1> USE DEF LogsInv
<1>2. manifest \subseteq Path
  BY DEF TypeInv, TypeOK
<1>3. ASSUME p \in manifest, ~Exists(p)
      PROVE  Pending(p)' \/ (OpenFile /\ p = cur.path)
  BY <1>1, <1>3, StillPending DEF Listed
<1>4. CASE UNCHANGED vars
  <2>1. Plan' = Plan /\ cur' = cur /\ p \in manifest \ ScratchDirs
    BY <1>1, <1>4 DEF vars, Plan, cur
  <2>2. Exists(p) \/ Pending(p)
    BY <2>1 DEF Listed
  <2> QED
    BY <1>4, <2>1, <2>2 DEF vars, Exists, Pending
<1>5. CASE Quiets
  <2>1. fs' = fs /\ manifest' = manifest /\ ~OpenFile
    BY <1>5, QuietWhat DEF Quiets, StartTask, Gate, MenusInstalled, PermitWrite,
         PickObsolete, BackupDescend, BackupReady, LogRollback, ParentsDone,
         RegisterMenu, OpenFile
  <2> QED
    BY <1>1, <1>3, <2>1 DEF Exists
<1>6. CASE Notes
  <2>1. fs' = fs /\ ~OpenFile /\ cur' = cur /\ pc \in Busy
    BY <1>6, QuietWhat DEF Notes, Declare, Record, Claim, Unclaim, Reclaim, Fetched, OpenFile
  <2>2. CASE p \in manifest
    BY <1>3, <2>1, <2>2 DEF Exists
  <2>3. CASE p \notin manifest
    <3>1. \/ p = made /\ Record
          \/ p = cur.path /\ (Declare \/ Claim \/ Reclaim)
      BY <1>1, <1>6, <2>3 DEF Notes, Declare, Record, Claim, Unclaim, Reclaim, Fetched, Enter
    <3>2. CASE p = made /\ Record
      BY <2>1, <3>2 DEF Record, Filled, Exists
    <3>3. CASE p = cur.path /\ Reclaim
      BY <2>1, <3>3, Kinds DEF Reclaim, Filled, Exists
    <3>4. CASE p = cur.path /\ Claim
      BY <2>1, <3>4 DEF Claim, Pending, Goto, Working, Busy
    <3>5. CASE p = cur.path /\ Declare
      <4>1. cur.do = "declare" /\ step \in DOMAIN Plan /\ cur = Plan[step] /\ pc' = "task"
            /\ step' = step /\ Plan' = Plan
        BY <2>1, <3>5, Doing, Fixed DEF Declare, Goto, ctl, Safe, Ready, Working
      <4>2. PICK m \in DOMAIN Plan :
              step < m /\ Plan[m].do = "manifest" /\ Plan[m].path = Plan[step].path
        BY <4>1, PlanPlaces
      <4>3. m > step'
        BY <4>1, <4>2, PlanPlaces DEF TypeInv, TypeOK
      <4> QED
        BY <3>5, <4>1, <4>2, <4>3 DEF Pending, Working
    <3> QED
      BY <3>1, <3>2, <3>3, <3>4, <3>5
  <2> QED
    BY <2>2, <2>3
<1>7. CASE Cleans
  <2>1. manifest' = manifest /\ ~OpenFile
    BY <1>7, CleansWhat DEF OpenFile, Busy
  <2>2. ASSUME pc \in {"dropslots", "dropdownloads", "dropscratch", "dropdirs"}
        PROVE  rest \cap (manifest \ ScratchDirs) = {}
    BY <2>2, LogsLaid DEF Queues, Swept
  <2>3. Exists(p) => fs'[p] = fs[p]
    BY <1>1, <1>2, <1>7, <2>1, <2>2, CleansWhat
  <2> QED
    BY <1>1, <1>3, <2>1, <2>3 DEF Exists
<1>8. CASE Makes
  <2>1. /\ cur' = cur /\ cur.path \in Path /\ manifest' = manifest
        /\ Lays \/ Links \/ Opens \/ Fills \/ Stores
    BY <1>8, AtWork
  <2>2. p \in Path /\ p \notin Image(Slot) /\ p \in manifest
    BY <1>1, <1>2, <2>1, LogsLaid
  <2>3. CASE Lays \/ Links \/ Opens \/ Fills
    <3>1. Exists(p) => Exists(p)'
      BY <2>2, <2>3, Kinds DEF Lays, Links, Opens, Fills, Elsewhere, Exists
    <3>2. OpenFile => fs'[cur.path] # Absent
      BY <2>3, Kinds DEF Lays, Links, Opens, Fills, OpenFile
    <3> QED
      BY <1>3, <2>2, <3>1, <3>2 DEF Exists
  <2>4. CASE Stores
    <3>1. PICK s \in Image(Slot) :
            /\ s \in Path /\ Top # s /\ fs'[s] = fs[Top] /\ fs'[Top] = Absent
            /\ \A q \in Path : q # Top /\ q # s => fs'[q] = fs[q]
      BY <2>4 DEF Stores
    <3>2. Top \in Path /\ pc = "move" /\ stack # <<>> /\ Top = stack[Len(stack)]
      BY <2>4 DEF Stores
    <3>3. Len(stack) \in DOMAIN stack
      BY <3>2 DEF TypeInv, TypeOK
    <3>4. Top \notin manifest
      BY <3>2, <3>3 DEF Leaving, Busy
    <3>5. fs'[p] = fs[p] /\ ~OpenFile
      BY <2>2, <3>1, <3>2, <3>4 DEF OpenFile
    <3> QED
      BY <1>3, <2>2, <3>5 DEF Exists
  <2> QED
    BY <2>1, <2>3, <2>4
<1> QED
  BY <1>4, <1>5, <1>6, <1>7, <1>8, ForwardSteps


\* What backup_file() is moving away is no part of the new installation.
LEMMA NextLeaving ==
  ASSUME TypeInv, Sounds, pc \in Working => Safe, LogsInv, Proper, DirsLogged, Leaving,
         [Next]_vars, pc' \in Forward
  PROVE  Leaving'
<1> USE DEF Goto, Fatal, logs, menuv, ctl, LogsInv
<1>1. SUFFICES ASSUME pc' \in Busy, NEW i \in DOMAIN stack'
               PROVE  /\ stack'[i] \notin manifest' \cup downloads'
                      /\ cur'.do = "obsolete" => fs'[stack'[i]] # Dir
                      /\ cur'.do = "install" => stack'[i] \notin Streets'
  BY DEF Leaving
<1>2. UNCHANGED vars \/ Quiets \/ Notes \/ Makes
  BY <1>1, StillWorking DEF Working
<1>3. Streets' = Streets /\ Plan' = Plan
  BY JobFixed, Fixed DEF Streets
<1>4. /\ \A q \in Laid : Above[q] \subseteq Streets
      /\ manifest \cup downloads \subseteq Laid /\ Laid \subseteq Path
      /\ downloads \subseteq Image(Downloads) /\ Streets \subseteq Laid
  BY LogsLaid, Town DEF Laid
<1>5. CASE UNCHANGED vars
  BY <1>1, <1>3, <1>5 DEF vars, cur, Leaving
<1>6. CASE stack' = <<>>
  BY <1>1, <1>6
<1>7. CASE PermitWrite /\ stack' # <<>>
  <2>1. /\ stack' = <<cur.path>> /\ cur.do = "install" /\ cur.kind # "dir" /\ cur' = cur
        /\ manifest' = manifest /\ downloads' = downloads /\ pc = "permit"
    BY <1>3, <1>7 DEF PermitWrite, Safe, Ready, Working, Busy, TypeInv, Control, cur, Nested, Between
  <2>2. stack'[i] = cur.path
    BY <1>1, <2>1
  <2>3. cur \in Image(Plan) /\ step \in DOMAIN Plan /\ cur = Plan[step]
    BY <2>1, Doing DEF Busy
  <2>4. cur.path \in Written /\ cur.path \notin OwnPaths \cup Streets
    BY <2>1, <2>3, Town
  <2>5. cur.path \notin Put
    <3>1. ASSUME NEW k \in 1 .. step, Plan[k].do = "install", Plan[k].path = cur.path,
                 k < step \/ pc \notin Busy \/ pc \in {"open", "write", "unclaim", "reclaim"}
          PROVE  FALSE
      <4>1. k < step /\ k \in DOMAIN Plan /\ step \in Nat
        BY <2>1, <2>3, <3>1, PlanPlaces DEF Busy
      <4>2. k = step
        BY <2>1, <2>3, <3>1, <4>1, OwnPlaces
      <4> QED
        BY <4>1, <4>2
    <3> QED
      BY <3>1 DEF Put
  <2>6. cur.path \notin manifest \cup downloads
    BY <1>4, <2>4, <2>5 DEF Manifested, OwnPaths
  <2> QED
    BY <1>3, <2>1, <2>2, <2>4, <2>6
<1>8. CASE PickObsolete /\ stack' # <<>>
  <2>1. PICK p \in Obsolete : stack' = <<p>>
    BY <1>8 DEF PickObsolete, TypeInv, Control, Busy, Nested, Between
  <2>2. /\ pc = "obsolete" /\ fs' = fs /\ manifest' = manifest /\ downloads' = downloads
        /\ cur' = cur /\ cur.do = "obsolete" /\ stack'[i] = p
    BY <1>1, <1>3, <1>8, <2>1 DEF PickObsolete, Safe, Ready, Working, Busy, cur
  <2>3. p \in oldFiles /\ p \notin seen /\ p \in Path /\ before[p] # Dir /\ p \in old
        /\ p \notin Image(Downloads) \cup Image(Slot)
    BY <2>1, OwnPlaces DEF Obsolete, old
  <2>4. p \notin manifest
    BY <2>3 DEF Noted
  <2>5. fs[p] # Dir
    BY <2>2, <2>3, <2>4 DEF DirsLogged, Working, Busy
  <2> QED
    BY <1>4, <2>2, <2>3, <2>4, <2>5
<1>9. CASE BackupDescend
  <2>1. PICK c \in Children(Top) : stack' = Append(stack, c)
    BY <1>9 DEF BackupDescend
  <2>2. /\ pc = "backup" /\ fs[Top] = Dir /\ fs' = fs /\ cur' = cur
        /\ manifest' = manifest /\ downloads' = downloads /\ stack # <<>>
    BY <1>3, <1>9 DEF BackupDescend, cur, TypeInv, Control, Nested
  <2>3. Len(stack) \in DOMAIN stack /\ Top = stack[Len(stack)] /\ stack \in Seq(Path)
        /\ Top \in Path
    BY <2>2 DEF TypeInv, TypeOK, Top
  <2>4. cur.do = "install" /\ Top \notin Streets
    BY <2>2, <2>3 DEF Leaving, Course, Busy
  <2>5. c \in Path /\ Parent[c] = Top /\ Top \in Above[c]
    BY <2>1, <2>3, TreeAssumption DEF Children
  <2>6. c \notin Laid
    BY <1>4, <2>4, <2>5
  <2>7. stack'[i] = c \/ (i \in DOMAIN stack /\ stack'[i] = stack[i])
    BY <1>1, <2>1, <2>3, <2>5
  <2> QED
    BY <1>3, <1>4, <2>2, <2>4, <2>6, <2>7 DEF Leaving, Busy
<1>10. CASE BackupReady \/ LogRollback \/ (ParentsDone /\ stack # <<>>)
  <2>1. /\ pc \in Busy /\ fs' = fs /\ cur' = cur /\ stack' = stack
        /\ manifest' = manifest /\ downloads' = downloads
    BY <1>3, <1>10 DEF BackupReady, LogRollback, ParentsDone, cur, Busy
  <2> QED
    BY <1>1, <1>3, <2>1 DEF Leaving
<1>11. CASE Record /\ stack # <<>>
  <2>1. /\ pc = "record" /\ fs' = fs /\ cur' = cur /\ stack' = stack
        /\ manifest' = manifest \cup {made} /\ downloads' = downloads /\ Safe
    BY <1>3, <1>11 DEF Record, Enter, cur, Working, Busy
  <2>2. made \in Hidden /\ stack[i] \notin Hidden
    BY <1>1, <1>11, <2>1 DEF Course, Safe, Backing, Busy
  <2> QED
    BY <1>1, <1>3, <2>1, <2>2 DEF Leaving, Busy
<1>12. CASE Makes /\ stack' # <<>>
  <2>1. /\ cur' = cur /\ manifest' = manifest /\ downloads' = downloads /\ Safe
        /\ Lays \/ Links \/ Opens \/ Fills \/ Stores
        /\ pc \in Busy
    BY <1>12, AtWork
  <2>2. CASE Lays
    <3>1. stack' = stack /\ made' \in Hidden /\ stack[i] \notin Hidden /\ stack[i] \in Path
      BY <1>1, <1>12, <2>1, <2>2 DEF Lays, Safe, Backing, TypeInv, TypeOK
    <3>2. fs'[stack[i]] = fs[stack[i]]
      BY <2>2, <3>1 DEF Lays, Elsewhere
    <3> QED
      BY <1>1, <1>3, <2>1, <3>1, <3>2 DEF Leaving
  <2>3. CASE Stores
    <3>1. PICK s \in Image(Slot) :
            /\ s \in Path /\ Top # s /\ fs'[s] = fs[Top] /\ fs'[Top] = Absent
            /\ \A q \in Path : q # Top /\ q # s => fs'[q] = fs[q]
      BY <2>3 DEF Stores
    <3>2. stack' = SubSeq(stack, 1, Len(stack) - 1) /\ stack # <<>> /\ stack \in Seq(Path)
      BY <2>3 DEF Stores, Pop, TypeInv, TypeOK
    <3>3. i \in DOMAIN stack /\ stack'[i] = stack[i] /\ stack[i] \in Path
      BY <1>1, <3>2
    <3>4. stack[i] \notin Image(Slot)
      BY <2>1, <3>3 DEF Safe, Backing, Hidden
    <3>5. fs'[stack[i]] = fs[stack[i]] \/ fs'[stack[i]] = Absent
      BY <3>1, <3>3, <3>4
    <3>6. Absent # Dir
      BY Kinds
    <3> QED
      BY <1>3, <2>1, <3>3, <3>5, <3>6 DEF Leaving
  <2> QED
    BY <1>12, <2>1, <2>2, <2>3 DEF Links, Opens, Fills
<1>13. CASE \/ StartTask \/ Gate \/ MenusInstalled \/ RegisterMenu
            \/ (ParentsDone \/ Record) /\ stack = <<>>
            \/ Declare \/ Claim \/ Unclaim \/ Reclaim \/ Fetched
  BY <1>6, <1>13
  DEF StartTask, Gate, MenusInstalled, RegisterMenu, ParentsDone, Record, Declare, Claim,
      Unclaim, Reclaim, Fetched, TypeInv, Control, Busy, Nested, Between
<1> QED
  <2>1. CASE Quiets
    <3>1. CASE PermitWrite \/ PickObsolete
      BY <1>6, <1>7, <1>8, <3>1, Zenon
    <3>2. CASE ParentsDone
      BY <1>10, <1>13, <3>2, Zenon
    <3>3. CASE StartTask \/ Gate \/ MenusInstalled \/ RegisterMenu
      BY <1>13, <3>3, Zenon
    <3>4. CASE BackupDescend \/ BackupReady \/ LogRollback
      BY <1>9, <1>10, <3>4, Zenon
    <3> QED
      BY <2>1, <3>1, <3>2, <3>3, <3>4, Zenon DEF Quiets
  <2>2. CASE Notes
    BY <1>11, <1>13, <2>2, Zenon DEF Notes
  <2>3. CASE Makes
    BY <1>6, <1>12, <2>3, Zenon
  <2> QED
    BY <1>2, <1>5, <2>1, <2>2, <2>3, Zenon

\* A directory that was not there before is in the manifest.
LEMMA NextDirsLogged ==
  ASSUME TypeInv, Sounds, pc \in Working => Safe, LogsInv, Filled, DirsLogged,
         [Next]_vars, pc' \in Forward
  PROVE  DirsLogged'
<1>1. SUFFICES ASSUME pc' \in Working, NEW p \in Path \ Image(Slot), fs'[p] = Dir,
                      before'[p] # Dir
               PROVE  p \in manifest' \/ (pc' = "record" /\ p = made')
  BY DEF DirsLogged
<1> USE DEF LogsInv
<1>2. pc \in Working /\ (UNCHANGED vars \/ Quiets \/ Notes \/ Makes) /\ before' = before
  BY <1>1, StillWorking, JobFixed, Fixed
<1>3. fs[p] = Dir => p \in manifest \/ (pc = "record" /\ p = made)
  BY <1>1, <1>2 DEF DirsLogged
<1>4. CASE UNCHANGED vars
  BY <1>1, <1>3, <1>4 DEF vars
<1>5. CASE Quiets
  BY <1>1, <1>3, <1>5, QuietWhat
<1>6. CASE Notes
  <2>1. fs' = fs /\ made' = made
    BY <1>6, QuietWhat
  <2>2. CASE Unclaim
    <3>1. p # cur.path
      BY <1>1, <2>1, <2>2, Kinds DEF Unclaim, Filled
    <3> QED
      BY <1>1, <1>3, <2>1, <2>2, <3>1 DEF Unclaim
  <2>3. CASE Record
    BY <1>1, <1>3, <2>1, <2>3 DEF Record, Enter
  <2> QED
    BY <1>1, <1>3, <1>6, <2>1, <2>2, <2>3
    DEF Notes, Declare, Claim, Reclaim, Fetched, Enter, logs
<1>7. CASE Makes
  <2>1. /\ manifest' = manifest /\ cur.path \in Path
        /\ Lays \/ Links \/ Opens \/ Fills \/ Stores
    BY <1>7, AtWork
  <2>2. pc # "record"
    BY <1>7 DEF Makes, MakeParent, MakeEntryDir, MakeLink, OpenFile, WriteFile, MoveAway
  <2>3. CASE Lays \/ Links \/ Opens \/ Fills
    BY <1>1, <1>3, <2>1, <2>2, <2>3, Kinds DEF Lays, Links, Opens, Fills, Elsewhere
  <2>4. CASE Stores
    <3>1. PICK s \in Image(Slot) :
            /\ s \in Path /\ Top # s /\ fs'[s] = fs[Top] /\ fs'[Top] = Absent
            /\ \A q \in Path : q # Top /\ q # s => fs'[q] = fs[q]
      BY <2>4 DEF Stores
    <3>2. p # s /\ p # Top
      BY <1>1, <3>1, Kinds
    <3> QED
      BY <1>1, <1>3, <2>1, <2>2, <3>1, <3>2
  <2> QED
    BY <2>1, <2>3, <2>4
<1> QED
  BY <1>2, <1>4, <1>5, <1>6, <1>7


\* After the obsolete files, none is left that the new version lacks.
LEMMA NextPassed ==
  ASSUME TypeInv, Sounds, pc \in Working => Safe, LogsInv, Passed, [Next]_vars,
         pc' \in Forward
  PROVE  Passed'
<1> USE DEF LogsInv
<1>1. SUFFICES ASSUME NEW k \in 1 .. step', Over(k)', Plan'[k].do = "obsolete",
                      NEW p \in oldFiles', IsObject(fs'[p])
               PROVE  p \in seen' \/ InHand(p)'
  BY DEF Passed, IsObject
<1>2. /\ k \in DOMAIN Plan /\ k \in 1 .. Len(Plan) /\ Plan' = Plan
      /\ Over(k) \/ (k = step /\ step' = step /\ pc \in Busy /\ pc' = "task"
                          /\ cur = Plan[k])
  BY <1>1, OverGrows
<1>3. oldFiles' = oldFiles /\ old' = old /\ p \in oldFiles /\ p \in old
  BY <1>1, JobFixed, Fixed DEF old
<1>4. p \in Path /\ p \notin Image(Slot) /\ p \notin Image(Downloads)
  BY <1>3, OwnPlaces
<1>5. CASE k = step /\ pc \in Busy /\ pc' = "task" /\ cur = Plan[k]
  <2>1. PickObsolete /\ Obsolete = {}
    BY <1>1, <1>2, <1>5, TaskEnds
  <2>2. fs' = fs /\ seen' = seen
    BY <2>1 DEF PickObsolete, logs
  <2>3. Exists(p)
    BY <1>1, <2>2, Kinds DEF Exists, IsObject
  <2> QED
    BY <1>3, <2>1, <2>2, <2>3 DEF Obsolete
<1>6. CASE Over(k)
  <2>1. k \in 1 .. step
    BY <1>2, <1>6, PlanPlaces DEF Over, TypeInv, TypeOK
  <2>2. IsObject(fs[p]) => p \in seen \/ InHand(p)
    BY <1>1, <1>2, <1>3, <1>6, <2>1 DEF Passed
  <2>3. seen \subseteq seen'
    BY LogSteps
  <2>4. CASE UNCHANGED vars
    <3>1. cur' = cur
      BY <1>2, <2>4 DEF vars, cur
    <3> QED
      BY <1>1, <2>2, <2>4, <3>1 DEF vars, InHand
  <2>5. CASE Quiets \/ Notes
    <3>1. fs' = fs
      BY <2>5, QuietWhat
    <3>2. CASE InHand(p)
      <4>1. p \in manifest' /\ Notes
        <5>1. Fetched => cur.path \in Image(Downloads)
          <6>1. ASSUME Fetched PROVE cur.do = "fetch" /\ pc \in Busy
            BY <6>1 DEF Fetched, Safe, Ready, Working, Busy
          <6> QED
            BY <6>1, Doing DEF Shaped
        <5>2. Notes
          BY <2>5, <3>2, QuietWhat DEF InHand
        <5> QED
          BY <1>4, <2>5, <3>2, <5>1, <5>2, HandedOver
      <4>2. Noted' /\ old' = old
        BY <1>3, NextNoted
      <4> QED
        BY <1>3, <4>1, <4>2 DEF Noted
    <3> QED
      BY <1>1, <2>2, <2>3, <3>1, <3>2
  <2>6. CASE Cleans
    <3>1. ~InHand(p) /\ (fs'[p] = fs[p] \/ fs'[p] = Absent)
      BY <1>4, <2>6, CleansWhat DEF InHand, Busy
    <3> QED
      BY <1>1, <2>2, <2>3, <3>1, Kinds DEF IsObject
  <2>7. CASE Makes
    <3>1. /\ cur' = cur /\ cur.path \in Path
          /\ Lays \/ Links \/ Opens \/ Fills \/ Stores
      BY <2>7, AtWork
    <3>2. pc \notin {"record", "reclaim", "fetched"}
      BY <2>7 DEF Makes, MakeParent, MakeEntryDir, MakeLink, OpenFile, WriteFile, MoveAway
    <3>3. CASE Lays
      BY <1>1, <1>4, <2>2, <2>3, <3>2, <3>3, Kinds DEF Lays, Elsewhere, IsObject, InHand
    <3>4. CASE Links
      BY <1>1, <1>4, <2>2, <2>3, <3>1, <3>2, <3>4 DEF Links, Elsewhere, InHand
    <3>5. CASE (Opens \/ Fills) /\ p = cur.path
      <4>1. cur.do # "fetch"
        BY <1>4, <2>7, <3>5, AtWork DEF Shaped
      <4>2. cur.path \in manifest
        BY <3>5, <4>1 DEF Opens, Fills, Claimed
      <4> QED
        BY <1>3, <2>3, <3>5, <4>2 DEF Noted
    <3>6. CASE (Opens \/ Fills) /\ p # cur.path
      <4>1. ~InHand(p) /\ fs'[p] = fs[p]
        BY <1>4, <3>2, <3>6 DEF InHand, Opens, Fills, Elsewhere
      <4> QED
        BY <1>1, <2>2, <2>3, <4>1
    <3>7. CASE Stores
      <4>1. PICK s \in Image(Slot) :
              /\ s \in Path /\ Top # s /\ fs'[s] = fs[Top] /\ fs'[Top] = Absent
              /\ \A q \in Path : q # Top /\ q # s => fs'[q] = fs[q]
        BY <3>7 DEF Stores
      <4>2. pc = "move"
        BY <3>7 DEF Stores
      <4>3. p # s /\ p # Top
        BY <1>1, <1>4, <4>1, Kinds DEF IsObject
      <4>4. ~InHand(p) /\ fs'[p] = fs[p]
        BY <1>4, <4>1, <4>2, <4>3 DEF InHand
      <4> QED
        BY <1>1, <2>2, <2>3, <4>4
    <3> QED
      BY <3>1, <3>3, <3>4, <3>5, <3>6, <3>7
  <2> QED
    BY <2>4, <2>5, <2>6, <2>7, ForwardSteps
<1> QED
  BY <1>2, <1>5, <1>6

\* What the new version still has of the old one is in the manifest.
LEMMA NextKept ==
  ASSUME TypeInv, Sounds, pc \in Working => Safe, LogsInv, Kept, [Next]_vars,
         pc' \in Forward
  PROVE  Kept'
<1> USE DEF LogsInv
<1>1. SUFFICES ASSUME NEW p \in seen' \cap oldFiles', IsObject(fs'[p])
               PROVE  p \in manifest' \/ InHand(p)'
  BY DEF Kept, IsObject
<1>2. oldFiles' = oldFiles /\ old' = old /\ p \in oldFiles /\ p \in old
  BY <1>1, JobFixed, Fixed DEF old
<1>3. p \in Path /\ p \notin Image(Slot) /\ p \notin Image(Downloads)
  BY <1>2, OwnPlaces
<1>4. p \in seen /\ IsObject(fs[p]) => p \in manifest \/ InHand(p)
  BY <1>2 DEF Kept
<1>5. CASE UNCHANGED vars
  <2>1. cur' = cur
    BY <1>5 DEF vars, cur, Plan
  <2> QED
    BY <1>1, <1>4, <1>5, <2>1 DEF vars, InHand
<1>6. CASE Quiets
  <2>1. fs' = fs /\ seen' = seen /\ manifest' = manifest /\ ~InHand(p)
    BY <1>6, QuietWhat DEF InHand
  <2> QED
    BY <1>1, <1>4, <2>1
<1>7. CASE Notes
  <2>1. fs' = fs /\ cur' = cur
    BY <1>7, QuietWhat
  <2>2. CASE InHand(p)
    <3>1. Fetched => cur.path \in Image(Downloads)
      <4>1. ASSUME Fetched PROVE cur.do = "fetch" /\ pc \in Busy
        BY <4>1 DEF Fetched, Safe, Ready, Working, Busy
      <4> QED
        BY <4>1, Doing DEF Shaped
    <3> QED
      BY <1>3, <1>7, <2>2, <3>1, HandedOver
  <2>3. CASE p \in manifest
    <3>1. CASE Unclaim
      BY <2>1, <2>3, <3>1 DEF Unclaim, Goto, InHand
    <3> QED
      BY <2>3, <3>1, LogSteps
  <2>4. CASE p \notin seen
    BY <1>1, <1>7, <2>4 DEF Notes, Declare, Record, Claim, Unclaim, Reclaim, Fetched, Enter
  <2> QED
    BY <1>1, <1>4, <2>1, <2>2, <2>3, <2>4
<1>8. CASE Cleans
  <2>1. ~InHand(p) /\ (fs'[p] = fs[p] \/ fs'[p] = Absent) /\ seen' = seen
        /\ manifest' = manifest
    BY <1>3, <1>8, CleansWhat DEF InHand, Busy
  <2> QED
    BY <1>1, <1>4, <2>1, Kinds DEF IsObject
<1>9. CASE Makes
  <2>1. /\ cur' = cur /\ cur.path \in Path /\ manifest' = manifest
        /\ Lays \/ Links \/ Opens \/ Fills \/ Stores
    BY <1>9, AtWork
  <2>2. pc \notin {"record", "reclaim", "fetched"}
    BY <1>9 DEF Makes, MakeParent, MakeEntryDir, MakeLink, OpenFile, WriteFile, MoveAway
  <2>3. CASE Lays
    BY <1>1, <1>3, <1>4, <2>1, <2>2, <2>3, Kinds DEF Lays, Elsewhere, IsObject, InHand
  <2>4. CASE Links
    BY <1>1, <1>3, <1>4, <2>1, <2>2, <2>4 DEF Links, Elsewhere, InHand
  <2>5. CASE (Opens \/ Fills) /\ p = cur.path
    <3>1. cur.do # "fetch"
      BY <1>3, <1>9, <2>5, AtWork DEF Shaped
    <3> QED
      BY <2>1, <2>5, <3>1 DEF Opens, Fills, Claimed
  <2>6. CASE (Opens \/ Fills) /\ p # cur.path
    <3>1. ~InHand(p) /\ fs'[p] = fs[p] /\ seen' = seen
      BY <1>3, <2>2, <2>6 DEF InHand, Opens, Fills, Elsewhere
    <3> QED
      BY <1>1, <1>4, <2>1, <3>1
  <2>7. CASE Stores
    <3>1. PICK s \in Image(Slot) :
            /\ s \in Path /\ Top # s /\ fs'[s] = fs[Top] /\ fs'[Top] = Absent
            /\ \A q \in Path : q # Top /\ q # s => fs'[q] = fs[q]
      BY <2>7 DEF Stores
    <3>2. pc = "move" /\ seen' \subseteq seen \cup {Top}
      BY <2>7 DEF Stores
    <3>3. p # s /\ p # Top
      BY <1>1, <1>3, <3>1, Kinds DEF IsObject
    <3>4. ~InHand(p) /\ fs'[p] = fs[p] /\ p \in seen
      BY <1>1, <1>3, <3>1, <3>2, <3>3 DEF InHand
    <3> QED
      BY <1>1, <1>4, <2>1, <3>4
  <2> QED
    BY <2>1, <2>3, <2>4, <2>5, <2>6, <2>7
<1> QED
  BY <1>5, <1>6, <1>7, <1>8, <1>9, ForwardSteps


\* Below Dest nothing is above Dest; the scratch directory holds what it says.
LEMMA Below ==
  /\ Dest \in Above[MetaDir] /\ Dest \in Above[ScratchDir]
  /\ \A p \in Path : Dest \in Above[p] => p \notin Above[Dest]
  /\ \A p \in Image(Slot) \cup Image(Downloads) :
       p \in Path /\ Dest \in Above[p] /\ ScratchDir \in Above[p]
  /\ \A p \in {DownloadDir, RollbackDir} :
       p \in Path /\ Dest \in Above[p] /\ ScratchDir \in Above[p]
  /\ \A p \in Image(Slot) : Above[p] = {RollbackDir} \cup Above[RollbackDir]
  /\ \A p \in Image(Downloads) : Above[p] = {DownloadDir} \cup Above[DownloadDir]
  /\ \A p \in {DownloadDir, RollbackDir} : Above[p] = {ScratchDir} \cup Above[ScratchDir]
  /\ ScratchDir \notin Above[ScratchDir]
  /\ Above[ScratchDir] = {MetaDir} \cup Above[MetaDir]
<1>1. /\ MetaDir \in Path /\ ScratchDir \in Path /\ DownloadDir \in Path
      /\ RollbackDir \in Path /\ Dest \in Path /\ Root \notin Path
  BY TreeAssumption DEF ScratchDirs
<1>2. Image(Slot) \subseteq Path /\ Image(Downloads) \subseteq Path
  BY SequenceAssumption DEF Image
<1>3. \A p \in Path : Parent[p] \in Path => Above[p] = {Parent[p]} \cup Above[Parent[p]]
  BY <1>1, TreeAssumption
<1>4. /\ Above[MetaDir] = {Dest} \cup Above[Dest]
      /\ Above[ScratchDir] = {MetaDir} \cup Above[MetaDir]
      /\ \A p \in {DownloadDir, RollbackDir} : Above[p] = {ScratchDir} \cup Above[ScratchDir]
      /\ \A p \in Image(Slot) : Above[p] = {RollbackDir} \cup Above[RollbackDir]
      /\ \A p \in Image(Downloads) : Above[p] = {DownloadDir} \cup Above[DownloadDir]
  BY <1>1, <1>2, <1>3, LayoutAssumption
<1>5. \A p \in Path : Dest \in Above[p] => p \notin Above[Dest]
  BY <1>1, TreeAssumption
<1> QED
  BY <1>1, <1>2, <1>4, <1>5, TreeAssumption

\* A directory that is made is not below the scratch directory, but for the two
\* it has.
LEMMA NoDirsInScratch ==
  ASSUME TypeInv, Sounds, pc \in Busy, NEW a \in Path, ScratchDir \in Above[a],
         \/ a \in Above[cur.path]
         \/ a = cur.path /\ cur.kind = "dir"
         \/ a \in Hidden /\ a \notin Image(Slot)
  PROVE  a \in {DownloadDir, RollbackDir}
<1>1. cur \in Image(Plan) /\ cur.path \in Path /\ cur \in Shaped
  BY Doing
<1>2. /\ ScratchDir \in Above[cur.path] =>
           cur.do = "fetch" /\ cur.kind = "file" /\ cur.path \in Image(Downloads)
  BY <1>1, OwnPlaces DEF Shaped
<1>3. ASSUME a \in Above[ScratchDir] \/ a = ScratchDir PROVE FALSE
  <2>1. ScratchDir \in Path
    BY TreeAssumption DEF ScratchDirs
  <2> QED
    BY <1>3, <2>1, TreeAssumption
<1>4. CASE a \in Above[cur.path]
  <2>1. ScratchDir \in Above[cur.path]
    BY <1>1, <1>4, TreeAssumption
  <2> QED
    BY <1>2, <1>3, <1>4, <2>1, Below
<1>5. CASE a = cur.path /\ cur.kind = "dir"
  BY <1>2, <1>5
<1>6. CASE a \in Hidden /\ a \notin Image(Slot)
  <2>1. PICK p \in Image(Slot) : a \in Above[p]
    BY <1>6 DEF Hidden
  <2> QED
    BY <1>3, <2>1, Below
<1> QED
  BY <1>4, <1>5, <1>6

\* The scratch directory has nothing else in it.
LEMMA NextTidy ==
  ASSUME TypeInv, Sounds, Course, pc \in Working => Safe, Tidy, [Next]_vars,
         pc' \in Forward
  PROVE  Tidy'
<1>1. SUFFICES ASSUME NEW p \in Path, fs'[p] # Absent, ScratchDir \in Above[p]
               PROVE  p \in Image(Slot) \cup Image(Downloads) \cup {DownloadDir, RollbackDir}
  BY DEF Tidy, Exists
<1>2. CASE fs'[p] = fs[p]
  BY <1>1, <1>2 DEF Tidy, Exists
<1>3. CASE fs'[p] # fs[p]
  <2>1. Makes
    <3>1. ~UNCHANGED vars /\ ~Quiets /\ ~Notes
      BY <1>3, QuietWhat DEF vars
    <3>2. ~Cleans
      BY <1>1, <1>3, CleansWhat
    <3> QED
      BY <3>1, <3>2, ForwardSteps
  <2>2. /\ pc \in Busy /\ cur.path \in Path /\ cur \in Shaped /\ cur \in Image(Plan)
        /\ Lays \/ Links \/ Opens \/ Fills \/ Stores
    BY <2>1, AtWork
  <2>3. CASE Lays
    <3>1. p = made'
      BY <1>3, <2>3 DEF Lays, Elsewhere
    <3> QED
      BY <1>1, <2>2, <2>3, <3>1, NoDirsInScratch DEF Lays
  <2>4. CASE Links \/ Opens \/ Fills
    <3>1. p = cur.path
      BY <1>3, <2>4 DEF Links, Opens, Fills, Elsewhere
    <3> QED
      BY <1>1, <2>2, <3>1, OwnPlaces DEF Shaped
  <2>5. CASE Stores
    BY <1>1, <1>3, <2>5 DEF Stores
  <2> QED
    BY <2>2, <2>3, <2>4, <2>5
<1> QED
  BY <1>2, <1>3


\* What deletes without an error deletes whatever can be removed.
LEMMA Clears ==
  ASSUME TypeInv, Proper, "delete" \notin Faults, NEW p \in Path, TryDelete(p),
         p \notin Above[Dest], fs[p] = Dir => Children(p) = {}
  PROVE  ~Exists(p)'
<1>1. fs' = Deleted(p)
  BY DEF TryDelete
<1>2. fs[p] \in Node /\ (fs[p] = Absent \/ fs[p] = Dir \/ IsObject(fs[p]))
  <2>1. fs[p] \in Node
    BY DEF TypeInv, TypeOK
  <2>2. fs[p].kind \in {"absent", "dir", "prior", "partial", "new"}
    BY <2>1 DEF Node
  <2> QED
    BY <2>1, <2>2 DEF Proper, IsObject
<1>3. CASE Removable(p)
  BY <1>1, <1>3 DEF Deleted, TypeInv, TypeOK, Exists
<1>4. CASE ~Removable(p)
  <2>1. fs[p] = Absent
    BY <1>2, <1>4 DEF Removable
  <2> QED
    BY <1>1, <1>4, <2>1 DEF Deleted, Exists
<1> QED
  BY <1>3, <1>4

\* One round of a loop, without an error.
LEMMA Round ==
  ASSUME TypeInv, NEW here, NEW next, NEW queue, Sweep(here, next, queue)
  PROVE  /\ pc = here
         /\ \/ \E p \in rest : /\ p \in Path /\ Latest(p, rest) /\ TryDelete(p)
                               /\ rest' = rest \ {p} /\ pc' = pc
            \/ rest = {} /\ fs' = fs /\ rest' = queue /\ pc' = next
BY DEF Sweep, Goto, TypeInv, TypeOK

\* What is left in the scratch directory when the loops get to it.
LEMMA Emptied ==
  ASSUME TypeInv, Tidy, \A p \in Image(Slot) \cup Image(Downloads) : ~Exists(p),
         \A p \in Inner : Exists(p) => p \in rest, NEW d \in Inner, Latest(d, rest)
  PROVE  Children(d) = {} /\ d \in Path /\ d \notin Above[Dest]
<1>1. /\ d \in Path /\ d \notin Above[Dest] /\ Dest \in Above[d] /\ ScratchDir \in Path
      /\ Dest \in Path /\ Root \notin Path
  BY Below, TreeAssumption DEF Inner, ScratchDirs
<1>2. ASSUME NEW c \in Children(d) PROVE FALSE
  <2>1. c \in Path /\ Parent[c] = d /\ Exists(c) /\ Above[c] = Above[d] \cup {d}
    BY <1>1, <1>2, TreeAssumption DEF Children
  <2>2. ScratchDir \in Above[c]
    BY <2>1, Below DEF Inner
  <2>3. c \in {DownloadDir, RollbackDir}
    BY <2>1, <2>2 DEF Tidy
  <2>4. d = ScratchDir
    BY <2>1, <2>3, LayoutAssumption
  <2>5. c \in rest
    BY <2>1, <2>3 DEF Inner
  <2>6. Rank[c] <= Rank[d]
    BY <2>5 DEF Latest
  <2>7. Rank[d] < Rank[c]
    <3>1. c \notin Above[Dest] /\ d \in Above[c] /\ d \notin Above[Dest]
      BY <1>1, <2>1, <2>3, Below
    <3> QED
      BY <2>1, <3>1, TreeAssumption
  <2>8. Rank[c] \in Nat /\ Rank[d] \in Nat
    BY <1>1, <2>1, TreeAssumption
  <2> QED
    BY <2>6, <2>7, <2>8
<1> QED
  BY <1>1, <1>2

\* The cleaning leaves nothing in the scratch directory, nor itself.
LEMMA NextSwept ==
  ASSUME "delete" \notin Faults, TypeInv, Sounds, pc \in Working => Safe, Queues, LogsInv,
         Proper, Tidy, Swept, [Next]_vars, pc' \in Forward
  PROVE  Swept'
<1> USE DEF Goto, Fatal, logs, menuv, ctl, LogsInv
<1>1. SkipPrompt' = SkipPrompt /\ Plan' = Plan /\ old' = old
  BY JobFixed, Fixed DEF SkipPrompt
<1>2. CASE UNCHANGED vars
  BY <1>1, <1>2 DEF vars, Swept, Exists
<1>3. CASE Quiets \/ Notes \/ Makes
  <2>1. pc' \in Working
    <3>1. pc \in Working
      BY <1>3 DEF Quiets, Notes, Makes, StartTask, Gate, MenusInstalled, PermitWrite,
         PickObsolete, BackupDescend, BackupReady, LogRollback, ParentsDone,
         RegisterMenu, Declare, Record, Claim, Unclaim, Reclaim, Fetched, MakeParent,
         MakeEntryDir, MakeLink, OpenFile, WriteFile, MoveAway, Working, Busy
    <3>2. CASE StartTask
      <4>1. step + 1 \in DOMAIN Plan /\ Plan[step + 1] \in Shaped
        BY <3>2, PlanPlaces DEF StartTask, TypeInv, TypeOK
      <4> QED
        BY <3>2, <4>1 DEF StartTask, Shaped, Task, FirstStep, Working, Busy
    <3> QED
      BY <1>3, <3>2 DEF Forward, Working, Busy, Cleaning, Quiets, Notes, Makes, Gate, MenusInstalled, PermitWrite,
         PickObsolete, BackupDescend, BackupReady, LogRollback, ParentsDone, Create,
         RegisterMenu, Declare, Record, Claim, Unclaim, Reclaim, Fetched, MakeParent, MakeDir,
         MakeEntryDir, MakeLink, OpenFile, WriteFile, MoveAway
  <2> QED
    BY <2>1 DEF Swept, Working, Busy, Cleaning
<1>4. /\ Image(Slot) \subseteq Path /\ Image(Downloads) \subseteq Path /\ Inner \subseteq Path
      /\ Inner \subseteq ScratchDirs
      /\ \A p \in Image(Slot) \cup Image(Downloads) \cup Inner : p \notin Above[Dest]
  <2>1. Inner \subseteq ScratchDirs /\ Inner \subseteq Path
    BY TreeAssumption DEF Inner, ScratchDirs
  <2> QED
    BY <2>1, Below DEF Inner
<1>5. CASE FinishStages
  <2>1. /\ pc = "task" /\ step = Len(Plan) /\ fs' = fs /\ step' = step /\ Safe
        /\ IF SkipPrompt THEN pc' = "show"
           ELSE pc' = "dropslots" /\ rest' = {Slot[i] : i \in 1 .. Len(rollbacks)}
    BY <1>5 DEF FinishStages, Working
  <2>2. \A p \in Image(Slot) : Exists(p) => p \in {Slot[i] : i \in 1 .. Len(rollbacks)}
    <3>1. ASSUME NEW i \in DOMAIN Slot, fs[Slot[i]] # Absent
          PROVE  i \in 1 .. Len(rollbacks)
      <4>1. ~(i > Len(rollbacks))
        BY <2>1, <3>1 DEF Safe, SlotsHold, Reverting, Ended
      <4>2. Len(rollbacks) \in Nat /\ i \in Nat /\ i >= 1
        BY SequenceAssumption DEF TypeInv, TypeOK
      <4> QED
        BY <4>1, <4>2
    <3> QED
      BY <3>1 DEF Image, Exists
  <2> QED
    BY <1>1, <2>1, <2>2 DEF Swept, Cleaning, Exists
<1>6. CASE Cleans /\ ~FinishStages
  <2>1. ~SkipPrompt /\ step = Len(Plan) /\ step' = step /\ manifest' = manifest
        /\ pc \in Cleaning /\ \A q \in Path : ~Exists(q) => ~Exists(q)'
    <3>1. pc \in Cleaning /\ step' = step /\ manifest' = manifest
      BY <1>6, CleanSteps
    <3>2. \A q \in Path : ~Exists(q) => ~Exists(q)'
      BY <1>6, CleansWhat DEF Exists
    <3> QED
      BY <3>1, <3>2 DEF Swept
  <2>2. CASE DropSlots
    <3>1. /\ pc = "dropslots"
          /\ \/ \E p \in rest : /\ p \in Path /\ Latest(p, rest) /\ TryDelete(p)
                                /\ rest' = rest \ {p} /\ pc' = pc
             \/ rest = {} /\ fs' = fs /\ rest' = downloads /\ pc' = "dropdownloads"
      BY <2>2, Round DEF DropSlots
    <3>2. \A p \in Image(Slot) : Exists(p) => p \in rest
      BY <3>1 DEF Swept
    <3>3. CASE \E p \in rest : /\ p \in Path /\ Latest(p, rest) /\ TryDelete(p)
                               /\ rest' = rest \ {p} /\ pc' = pc
      <4>1. PICK p \in rest : /\ p \in Path /\ TryDelete(p) /\ rest' = rest \ {p} /\ pc' = pc
        BY <3>3
      <4>2. p \in Image(Slot)
        BY <3>1 DEF Queues
      <4>3. Children(p) = {}
        <5>1. ASSUME NEW c \in Path, Parent[c] = p PROVE FALSE
          BY <4>1, <4>2, <5>1, SlotAssumption, TreeAssumption
        <5> QED
          BY <5>1 DEF Children
      <4>4. ~Exists(p)'
        BY <1>4, <4>1, <4>2, <4>3, Clears
      <4>5. \A q \in Image(Slot) : Exists(q)' => q \in rest'
        BY <1>4, <2>1, <3>2, <4>1, <4>4
      <4> QED
        BY <1>1, <2>1, <3>1, <4>1, <4>5 DEF Swept, Cleaning
    <3>4. CASE rest = {} /\ fs' = fs /\ rest' = downloads /\ pc' = "dropdownloads"
      <4>1. \A p \in Image(Slot) : ~Exists(p)'
        BY <3>2, <3>4 DEF Exists
      <4>2. \A p \in Image(Downloads) : p \in downloads
        <5> TAKE p \in Image(Downloads)
        <5>1. Own("fetch", p) \in Image(Plan)
          BY PlanShape
        <5>2. PICK k \in DOMAIN Plan : Plan[k] = Own("fetch", p)
          BY <5>1, PlanPlaces
        <5>3. k \in 1 .. step /\ Over(k)
          BY <2>1, <3>1, <5>2, PlanPlaces DEF Over, Busy
        <5> QED
          BY <3>1, <5>2, <5>3 DEF FetchesDone, Own
      <4> QED
        BY <1>1, <2>1, <3>4, <4>1, <4>2 DEF Swept, Cleaning
    <3> QED
      BY <3>1, <3>3, <3>4
  <2>3. CASE DropDownloads
    <3>1. /\ pc = "dropdownloads"
          /\ \/ \E p \in rest : /\ p \in Path /\ Latest(p, rest) /\ TryDelete(p)
                                /\ rest' = rest \ {p} /\ pc' = pc
             \/ rest = {} /\ fs' = fs /\ rest' = ScratchDirs /\ pc' = "dropscratch"
      BY <2>3, Round DEF DropDownloads
    <3>2. /\ \A p \in Image(Downloads) : Exists(p) => p \in rest
          /\ \A p \in Image(Slot) : ~Exists(p)
      BY <2>1, <3>1 DEF Swept, Cleaning
    <3>3. CASE \E p \in rest : /\ p \in Path /\ Latest(p, rest) /\ TryDelete(p)
                               /\ rest' = rest \ {p} /\ pc' = pc
      <4>1. PICK p \in rest : /\ p \in Path /\ TryDelete(p) /\ rest' = rest \ {p} /\ pc' = pc
        BY <3>3
      <4>2. p \in Image(Downloads)
        BY <3>1, LogsLaid DEF Queues
      <4>3. ~Exists(p)'
        BY <1>4, <4>1, <4>2, Clears DEF Proper
      <4>4. /\ \A q \in Image(Downloads) : Exists(q)' => q \in rest'
            /\ \A q \in Image(Slot) : ~Exists(q)'
        BY <1>4, <2>1, <3>2, <4>1, <4>3
      <4> QED
        BY <1>1, <2>1, <3>1, <4>1, <4>4 DEF Swept, Cleaning
    <3>4. CASE rest = {} /\ fs' = fs /\ rest' = ScratchDirs /\ pc' = "dropscratch"
      <4>1. \A p \in Image(Slot) \cup Image(Downloads) : ~Exists(p)'
        BY <3>2, <3>4 DEF Exists
      <4> QED
        BY <1>1, <1>4, <2>1, <3>4, <4>1 DEF Swept, Cleaning
    <3> QED
      BY <3>1, <3>3, <3>4
  <2>4. CASE DropScratch
    <3>1. /\ pc = "dropscratch"
          /\ \/ \E p \in rest : /\ p \in Path /\ Latest(p, rest) /\ TryDelete(p)
                                /\ rest' = rest \ {p} /\ pc' = pc
             \/ rest = {} /\ fs' = fs /\ rest' = ObsoleteDirs /\ pc' = "dropdirs"
      BY <2>4, Round DEF DropScratch
    <3>2. /\ \A p \in Inner : Exists(p) => p \in rest
          /\ \A p \in Image(Slot) \cup Image(Downloads) : ~Exists(p)
      BY <2>1, <3>1 DEF Swept, Cleaning
    <3>3. CASE \E p \in rest : /\ p \in Path /\ Latest(p, rest) /\ TryDelete(p)
                               /\ rest' = rest \ {p} /\ pc' = pc
      <4>1. PICK p \in rest : /\ p \in Path /\ Latest(p, rest) /\ TryDelete(p)
                              /\ rest' = rest \ {p} /\ pc' = pc
        BY <3>3
      <4>2. p \in Inner => ~Exists(p)'
        BY <3>2, <4>1, Emptied, Clears
      <4>3. /\ \A q \in Inner : Exists(q)' => q \in rest'
            /\ \A q \in Image(Slot) \cup Image(Downloads) : ~Exists(q)'
        BY <1>4, <2>1, <3>2, <4>1, <4>2
      <4> QED
        BY <1>1, <2>1, <3>1, <4>1, <4>3 DEF Swept, Cleaning
    <3>4. CASE rest = {} /\ fs' = fs /\ rest' = ObsoleteDirs /\ pc' = "dropdirs"
      <4>1. \A p \in Image(Slot) \cup Image(Downloads) : ~Exists(p)'
        BY <3>2, <3>4 DEF Exists
      <4>2. ~Exists(ScratchDir)'
        BY <3>2, <3>4 DEF Inner, Exists
      <4>3. rest' \cap manifest' = {}
        BY <2>1, <3>4 DEF ObsoleteDirs, Noted, old
      <4> QED
        BY <1>1, <2>1, <3>4, <4>1, <4>2, <4>3 DEF Swept, Cleaning
    <3> QED
      BY <3>1, <3>3, <3>4
  <2>5. CASE DropDirs \/ Forget
    <3>1. /\ pc \in {"dropdirs", "forget"} /\ pc' \in {"dropdirs", "forget", "show"}
          /\ pc' = "dropdirs" => pc = "dropdirs" /\ rest' \subseteq rest
      BY <2>5 DEF DropDirs, Forget
    <3>2. /\ \A p \in Image(Slot) \cup Image(Downloads) : ~Exists(p)
          /\ ~Exists(ScratchDir) /\ (pc = "dropdirs" => rest \cap manifest = {})
      BY <2>1, <3>1 DEF Swept, Cleaning
    <3>3. /\ \A p \in Image(Slot) \cup Image(Downloads) : ~Exists(p)'
          /\ ~Exists(ScratchDir)' /\ (pc' = "dropdirs" => rest' \cap manifest' = {})
      BY <1>4, <2>1, <3>1, <3>2 DEF Inner
    <3> QED
      BY <1>1, <2>1, <3>1, <3>3 DEF Swept, Cleaning
  <2> QED
    BY <1>6, <2>2, <2>3, <2>4, <2>5 DEF Cleans
<1> QED
  BY <1>2, <1>3, <1>5, <1>6, ForwardSteps


\* All that makes a success clean, as long as nothing has been reverted.
Clean == LogsInv /\ DiskInv /\ Swept
CleanInv == Base /\ (pc \in Forward => Clean)

\* As long as tasks are done the rollbacks count.
LEMMA WhileWorking ==
  ASSUME SafeInv, Committed
  PROVE  pc \in Working => Safe
BY DEF SafeInv, Committed, Working, Busy, Ended

\* A run starts with empty logs.
LEMMA InitClean ==
  ASSUME Sounds, Init
  PROVE  CleanInv
<1> DEFINE sc == Scenarios[job]
<1>1. Base
  BY InitType, InitSafe, InitNever DEF Base
<1>2. TypeInv /\ pc = "task" /\ step = 0 /\ stack = <<>> /\ fs = before
      /\ manifest = {} /\ seen = {} /\ downloads = {} /\ Taken = {} /\ torn = {}
  BY <1>1, NothingTaken DEF Base, Init
<1>3. LogsInv
  <2>1. \A k : k \notin 1 .. step
    BY <1>2
  <2> QED
    BY <1>2, <2>1
    DEF LogsInv, Course, Manifested, Noted, FetchesDone, Declared, Claimed, Busy
<1>4. \A p \in Path : before[p] \in {Absent, Dir, Prior(p)}
  BY <1>2, Before
<1>5. Proper /\ Logging /\ DirsLogged
  <2>1. \A p \in Path : /\ fs[p].kind = "absent" => fs[p] = Absent
                        /\ fs[p].kind = "dir" => fs[p] = Dir
                        /\ fs[p].kind \notin {"new", "partial"}
    BY <1>2, <1>4, Kinds
  <2>2. \A p \in Image(Downloads) : fs[p] # Dir
    BY <1>2, ScenarioAssumption DEF OwnPaths, before, TypeInv, TypeOK
  <2> QED
    BY <1>2, <2>1, <2>2 DEF Proper, Logging, DirsLogged
<1>6. Filled /\ Listed /\ Leaving /\ Passed /\ Kept
  <2>1. \A k : k \notin 1 .. step
    BY <1>2
  <2> QED
    BY <1>2, <2>1 DEF Filled, Listed, Leaving, Passed, Kept, Busy
<1>7. Tidy
  <2>1. ASSUME NEW p \in Path, ScratchDir \in Above[p], fs[p] # Absent
        PROVE  p \in Image(Downloads) \cup {DownloadDir, RollbackDir}
    <3>1. p \in ScratchDirs \cup Image(Downloads)
      BY <1>2, <2>1, OwnPlaces
    <3>2. p # ScratchDir
      BY <2>1, Below
    <3>3. p # MetaDir
      BY <2>1, Below, TreeAssumption DEF ScratchDirs
    <3> QED
      BY <3>1, <3>2, <3>3 DEF ScratchDirs
  <2> QED
    BY <2>1 DEF Tidy, Exists
<1>8. Swept
  BY <1>2 DEF Swept, Cleaning
<1> QED
  BY <1>1, <1>3, <1>5, <1>6, <1>7, <1>8 DEF CleanInv, Clean, DiskInv

\* Every step keeps it so.
LEMMA NextClean ==
  ASSUME "delete" \notin Faults, Sounds, CleanInv, [Next]_vars
  PROVE  CleanInv'
<1>1. Base'
  BY NextType, NextSafe, NextNever DEF Base, CleanInv, NeverInv
<1>2. ASSUME pc' \in Forward
      PROVE  Clean'
  <2>1. pc \in Forward /\ TypeInv /\ SafeInv /\ Committed /\ Queues /\ (pc \in Working => Safe)
    BY <1>2, ForwardSteps, WhileWorking DEF CleanInv, Base, NeverInv
  <2>2. LogsInv /\ DiskInv /\ Swept /\ Course
    BY <2>1 DEF CleanInv, Clean, LogsInv
  <2>3. LogsInv'
    BY <1>2, <2>1, <2>2, NextLogs
  <2>4. Proper' /\ Filled' /\ Tidy'
    BY <1>2, <2>1, <2>2, NextProper, NextFilled, NextTidy DEF DiskInv
  <2>5. Logging' /\ Listed'
    BY <1>2, <2>1, <2>2, NextLogging, NextListed DEF DiskInv
  <2>6. Leaving' /\ DirsLogged' /\ Passed' /\ Kept'
    BY <1>2, <2>1, <2>2, NextLeaving, NextDirsLogged, NextPassed, NextKept DEF DiskInv
  <2>7. Swept'
    BY <1>2, <2>1, <2>2, NextSwept DEF DiskInv
  <2> QED
    BY <2>3, <2>4, <2>5, <2>6, <2>7 DEF Clean, DiskInv
<1> QED
  BY <1>1, <1>2 DEF CleanInv

\* When the message is on screen, that is what was to be left.
LEMMA CleanIsClean ==
  ASSUME Sounds, CleanInv
  PROVE  SuccessIsClean
<1> SUFFICES ASSUME pc = "show"
             PROVE  SuccessIsClean
  BY DEF SuccessIsClean, ManifestMatchesDisk, SuccessLeavesNoScratch
<1>1. TypeInv /\ LogsInv /\ DiskInv /\ Swept
  BY DEF CleanInv, Base, Clean, Forward
<1>2. /\ \A p : ~InHand(p) /\ ~Pending(p)
      /\ step = Len(Plan)
  BY <1>1 DEF InHand, Pending, Working, Busy, Swept
<1>3. ManifestMatchesDisk
  BY <1>1, <1>2 DEF DiskInv, Logging, Listed, ManifestMatchesDisk
<1>4. ASSUME NEW p \in oldFiles \ manifest
      PROVE  ~IsObject(fs[p])
  <2>1. PICK k \in DOMAIN Plan : Plan[k] = Bare("obsolete")
    BY <1>1, PlanShape, PlanPlaces
  <2>2. k \in 1 .. step /\ Over(k) /\ Plan[k].do = "obsolete"
    BY <1>1, <1>2, <2>1, PlanPlaces DEF Over, Busy, Bare
  <2>3. IsObject(fs[p]) => p \in seen
    BY <1>1, <1>2, <1>4, <2>2 DEF DiskInv, Passed
  <2> QED
    BY <1>1, <1>2, <1>4, <2>3 DEF DiskInv, Kept
<1>5. SuccessLeavesNoScratch
  BY <1>1, <1>4 DEF Swept, SuccessLeavesNoScratch
<1> QED
  BY <1>3, <1>5 DEF SuccessIsClean

\* When the success message is on screen the manifest lists exactly what the
\* run wrote and the uninstaller will find, and nothing is left of the rollback
\* files, the downloads, the scratch directory and the previous version's own
\* files: for every sound package, whatever else the run meets, as long as no
\* deletion fails (install_file, the obsolete files, delete_rollbacks,
\* delete_scratchdirs).
THEOREM SuccessIsTidy ==
  ASSUME "delete" \notin Faults, Sounds
  PROVE  Spec => []SuccessIsClean
<1>1. Init => CleanInv
  BY InitClean
<1>2. CleanInv /\ [Next]_vars => CleanInv'
  BY NextClean
<1>3. CleanInv => SuccessIsClean
  BY CleanIsClean
<1> QED
  BY <1>1, <1>2, <1>3, PTL DEF Spec

-----------------------------------------------------------------------------
(* The atomic installation.                                                *)
(*                                                                         *)
(* As long as nothing has been restored, what a revert would leave at each *)
(* protected path is what was there before the run: Stored says so of the  *)
(* rollback files and the directories they will be restored to, Vacated    *)
(* and Replaced of what has taken the place of what was moved away.  From  *)
(* there to the end of a revert every deletion clears the way for the      *)
(* restores (Sparing), and every restore succeeds (Vacant).  AtomicInv is  *)
(* the inductive invariant; Views is what the refinement needs of it.      *)

\* The packages are sound and succeed the previous versions.
Heirs == Sounds /\ \A s \in DOMAIN Scenarios : Succeeds(Scenarios[s])

\* Where the program is while the run is undecided and nothing is restored: at
\* work, or reverting, or stopped by a menu item that could not be removed.
Ahead == Working \cup {"show"}
Early == {"revert", "rmdownloads", "rmfiles", "exit22"}

\* The rollback file i holds something.
Held(i) == i \in DOMAIN rollbacks /\ Exists(Slot[i])

\* Every rollback file holds what was at its path before the run, there is one
\* for each path at most, and the others are empty.
SlotsFree == \A i \in DOMAIN Slot : i \notin DOMAIN rollbacks => ~Exists(Slot[i])
HeldAre   == \A i \in DOMAIN rollbacks : Held(i) => fs[Slot[i]] = before[rollbacks[i]]
OneEach   == \A i, j \in DOMAIN rollbacks :
               Held(i) /\ Held(j) /\ rollbacks[i] = rollbacks[j] => i = j

\* Whatever exists is in a directory that exists.
Rooted == \A p \in Path : Exists(p) => ParentOK(p)

\* The directory of what is in a rollback file is there, or in a later one: it
\* will have been restored when it is needed.
Roof(i) ==
  \/ Parent[rollbacks[i]] = Root
  \/ fs[Parent[rollbacks[i]]] = Dir
  \/ \E j \in DOMAIN rollbacks : /\ j > i /\ rollbacks[j] = Parent[rollbacks[i]]
                                 /\ Exists(Slot[j]) /\ fs[Slot[j]] = Dir
Roofs == \A i \in DOMAIN rollbacks : Held(i) => Roof(i)

Stored == SlotsFree /\ HeldAre /\ OneEach /\ Rooted /\ Roofs

\* What has taken the place of something moved away is an object, and is in the
\* manifest.
Vacated == \A i \in DOMAIN rollbacks : Held(i) /\ Exists(rollbacks[i]) =>
             IsObject(fs[rollbacks[i]]) /\ rollbacks[i] \in Logged

\* p is where the package has a file, or below.
Under(p) == ({p} \cup Above[p]) \cap Written # {}

\* What is moved away is in the way of the package, or obsolete.
PastObsolete == \E k \in 1 .. step : k \in DOMAIN Plan /\ Plan[k].do = "obsolete"
Sources ==
  /\ \A i \in DOMAIN rollbacks :
       Under(rollbacks[i]) \/ (rollbacks[i] \in oldFiles /\ PastObsolete)
  /\ pc \in Busy => \A i \in DOMAIN stack :
       IF cur.do = "obsolete" THEN stack[i] \in oldFiles ELSE Under(stack[i])

\* What may be missing when the run succeeds; on the way from backup_file() to
\* the log of what is put instead.
Dropped   == oldFiles \cup {p \in Path : Above[p] \cap Written # {}}
Replacing == Nested \cup Between \cup {"link", "claim"}

\* What is moved away otherwise is replaced.
Replaced ==
  /\ \A i \in DOMAIN rollbacks :
       \/ rollbacks[i] \in Dropped \cup Logged
       \/ /\ pc \in Replacing /\ rollbacks[i] = cur.path
          /\ cur.do = "install" /\ cur.kind # "dir"
  /\ pc \in Busy => \A i \in DOMAIN stack :
       stack[i] \in Dropped \/ (stack[i] = cur.path /\ cur.do = "install")

\* A directory is only moved away when it is empty ...
TopEmptied ==
  pc \in Between \cup {"log", "move"} /\ stack # <<>> /\ fs[Top] = Dir => Children(Top) = {}

\* ... and no file is written over one.
Cleared ==
  pc \in Between \cup {"claim", "open"} /\ stack = <<>> /\ cur.kind # "dir" =>
    fs[cur.path] # Dir

\* A directory that was there is there, but where the package has a file.
DirsGone == \A p \in Path : before[p] = Dir /\ fs[p] # Dir => Under(p)

\* The manifest lists no directory that was there, but for those of the previous
\* version and the destination.
DirsKept == \A p \in manifest : before[p] = Dir /\ fs[p] = Dir => p \in old \cup {Dest}
MadeKept == pc = "record" /\ before[made] = Dir /\ fs[made] = Dir => made \in old \cup {Dest}

\* What can be said at any time before a revert: what the revert will restore.
Standing == Stored /\ Vacated /\ Sources /\ Replaced /\ TopEmptied /\ Cleared /\ DirsGone
              /\ DirsKept /\ MadeKept

\* The objects the run makes are whole, but for the one that is being written,
\* and where they are to be; its own files are no directories.
NewPlaces == \A p \in Path : fs[p].kind \in {"new", "partial"} => p \in Written \cup OwnPaths
NewWhole  == \A p \in Path : /\ fs[p].kind = "new" => fs[p] = New(p)
                             /\ fs[p].kind = "partial" => pc = "write" /\ p = cur.path
OwnFiles  == \A p \in OwnPaths \ Image(Slot) : fs[p] # Dir

Built == NewPlaces /\ NewWhole /\ OwnFiles

\* Every object the run has put at a protected path is in the manifest.
AllLogged == \A p \in Protected : fs[p].kind \in {"new", "partial"} => p \in Logged

\* The objects the manifest lists are deleted, the directories that were there are
\* not.
Doomed == pc = "rmfiles" =>
            /\ \A p \in manifest : IsObject(fs[p]) => p \in rest \cup Above[Dest]
            /\ \A p \in rest : fs[p] = Dir => p \notin old

\* What can be said as long as a revert deletes.
Deleting == {"revert", "rmdownloads", "rmfiles"}
Sparing == /\ Stored /\ Vacated /\ DirsKept /\ NewPlaces /\ OwnFiles /\ AllLogged
           /\ downloads \subseteq Image(Downloads) /\ Doomed

\* When it restores, nothing is in the way.
Vacant == \A i \in DOMAIN rollbacks : Held(i) => ~Exists(rollbacks[i])

\* What a revert would leave at the protected paths is what was there.
Viewed(p) == IF pc = "exit23" THEN fs[p] ELSE RevertView(p)
Views == \A p \in Protected : ObjectOf(Viewed(p)) = ObjectOf(before[p])

\* A run that is decided goes to its end.
Decided == fate # "open" => pc \in Cleaning \cup {"show", "done"}

\* Where the views are carried on, and not what they follow from.
Halting == {"exit22", "rmscratch", "exit23"}

AtomicInv ==
  /\ CleanInv /\ Decided
  /\ pc \in Forward => Built
  /\ fate = "open" =>
       /\ pc \in Ahead \cup Deleting \cup {"rollback"} \cup Halting
       /\ pc \in Ahead => Standing
       /\ pc \in Deleting => Sparing
       /\ pc = "rollback" => Stored /\ Vacant /\ AllLogged
       /\ pc \in {"rmscratch", "exit23"} => rollbacks = <<>>
       /\ pc \in Halting => Views

-----------------------------------------------------------------------------
(* The file system, and what the steps do to it. *)

\* What is appended to a sequence of tasks comes after those that are there.
LEMMA AfterGrows ==
  ASSUME NEW S, S \subseteq Task, NEW s \in Seq(Task), NEW t \in Seq(S),
         \A k, m \in DOMAIN s : k < m /\ s[k].do = "obsolete" => s[m] \in S
  PROVE  /\ s \o t \in Seq(Task)
         /\ \A k, m \in DOMAIN (s \o t) :
              k < m /\ (s \o t)[k].do = "obsolete" => (s \o t)[m] \in S
<1> DEFINE w == s \o t
<1>1. t \in Seq(Task)
  OBVIOUS
<1>2. PICK n \in Nat, l \in Nat : /\ n = Len(s) /\ DOMAIN s = 1 .. n
                                  /\ l = Len(t) /\ DOMAIN t = 1 .. l
  OBVIOUS
<1>3. /\ w \in Seq(Task) /\ DOMAIN w = 1 .. n + l
      /\ \A i \in 1 .. n : w[i] = s[i]
      /\ \A i \in 1 .. l : w[n + i] = t[i]
  BY <1>1, <1>2
<1>4. \A m \in DOMAIN w : m > n => w[m] \in S
  <2> TAKE m \in DOMAIN w
  <2> HAVE m > n
  <2>1. m - n \in 1 .. l /\ m = n + (m - n)
    BY <1>2, <1>3
  <2>2. w[m] = t[m - n] /\ t[m - n] \in S
    BY <1>2, <1>3, <2>1
  <2> QED
    BY <2>2
<1>5. ASSUME NEW k \in DOMAIN w, NEW m \in DOMAIN w, k < m, w[k].do = "obsolete"
      PROVE  w[m] \in S
  <2>1. CASE m > n
    BY <1>4, <2>1
  <2>2. CASE ~(m > n)
    <3>1. k \in 1 .. n /\ m \in 1 .. n
      BY <1>2, <1>3, <1>5, <2>2
    <3> QED
      BY <1>2, <1>3, <1>5, <3>1
  <2> QED
    BY <2>1, <2>2
<1> QED
  BY <1>3, <1>5

\* After the obsolete files come the control application and the manifests.
LEMMA WorkAfter ==
  ASSUME NEW archive \in Seq(Entry), NEW control \in Seq(Entry)
  PROVE  LET w == Work(archive, control) IN
         \A k, m \in DOMAIN w : k < m /\ w[k].do = "obsolete" =>
           w[m].do \in {"gate", "declare", "manifest"} \/ w[m] \in Image(control)
<1> DEFINE R == <<DestTask, Bare("gate")>> \o Owns("fetch", Downloads)
                  \o <<Bare("gate")>> \o archive
                  \o Owns("menu", MenuFiles) \o <<Bare("menusdone")>>
                  \o Owns("put", Scripts)
           T == {t \in Task : t.do # "obsolete"}
           S == {t \in Task : t.do \in {"gate", "declare", "manifest"} \/ t \in Image(control)}
           E == <<Bare("obsolete"), Bare("gate")>>
           D == Owns("declare", Manifests)
           L == Owns("manifest", Manifests)
           After(s) == s \in Seq(Task) /\ \A k, m \in DOMAIN s :
                         k < m /\ s[k].do = "obsolete" => s[m] \in S
<1>1. R \in Seq(T)
  <2>1. /\ DestTask \in T /\ Bare("gate") \in T /\ Bare("menusdone") \in T
    BY DestInPath DEF DestTask, Bare, Task
  <2>2. ASSUME NEW d \in {"fetch", "menu", "put"}, NEW s \in Seq(Path)
        PROVE  Owns(d, s) \in Seq(T)
    <3>1. \A p \in Path : Own(d, p) \in T
      BY DEF Own, Task
    <3>2. \A i \in DOMAIN s : Own(d, s[i]) \in T
      BY <3>1
    <3> HIDE DEF T
    <3>3. \E n \in Nat : DOMAIN s = 1 .. n
      OBVIOUS
    <3> QED
      BY <3>2, <3>3 DEF Owns
  <2>3. /\ Owns("fetch", Downloads) \in Seq(T) /\ Owns("menu", MenuFiles) \in Seq(T)
        /\ Owns("put", Scripts) \in Seq(T)
    BY <2>2, SequenceAssumption
  <2>4. archive \in Seq(T)
    BY DEF Entry
  <2>5. /\ <<DestTask, Bare("gate")>> \in Seq(T) /\ <<Bare("gate")>> \in Seq(T)
        /\ <<Bare("menusdone")>> \in Seq(T)
    BY <2>1
  <2> HIDE DEF T
  <2> QED
    BY <2>3, <2>4, <2>5
<1>2. S \subseteq Task
  OBVIOUS
<1>3. Bare("obsolete") \in Task /\ Bare("gate") \in S
  BY DestInPath DEF Bare, Task
<1>4. control \in Seq(S)
  <2>1. \A i \in DOMAIN control : control[i] \in S
    BY DEF Entry, Image
  <2> HIDE DEF S
  <2> QED
    BY <2>1
<1>5. D \in Seq(S) /\ L \in Seq(S)
  <2>1. \A p \in Path : Own("declare", p) \in S /\ Own("manifest", p) \in S
    BY DEF Own, Task
  <2>2. \A i \in DOMAIN Manifests : Own("declare", Manifests[i]) \in S /\ Own("manifest", Manifests[i]) \in S
    BY <2>1, SequenceAssumption
  <2>3. \E n \in Nat : DOMAIN Manifests = 1 .. n
    BY SequenceAssumption
  <2> HIDE DEF S
  <2> QED
    BY <2>2, <2>3 DEF Owns
<1>6. After(R \o E)
  <2>1. PICK r \in Nat : Len(R) = r /\ DOMAIN R = 1 .. r /\ R \in Seq(Task)
                        /\ \A i \in 1 .. r : R[i].do # "obsolete"
    <3>1. \A i \in DOMAIN R : R[i] \in T
      <4> HIDE DEF T, R
      <4> QED
        BY <1>1
    <3>2. R \in Seq(Task) /\ \A i \in DOMAIN R : R[i].do # "obsolete"
      <4>1. T \subseteq Task /\ \A t \in T : t.do # "obsolete"
        OBVIOUS
      <4> HIDE DEF T, R
      <4> QED
        BY <1>1, <3>1, <4>1
    <3> HIDE DEF R
    <3> QED
      BY <3>2
  <2>2. E \in Seq(Task) /\ Len(E) = 2 /\ E[2] = Bare("gate")
    BY <1>2, <1>3
  <2> HIDE DEF R, E, S, T
  <2>3. /\ R \o E \in Seq(Task) /\ DOMAIN (R \o E) = 1 .. r + 2
        /\ \A i \in 1 .. r : (R \o E)[i] = R[i]
        /\ (R \o E)[r + 2] = E[2]
    <3>1. /\ R \o E \in Seq(Task) /\ Len(R \o E) = Len(R) + Len(E)
          /\ \A i \in 1 .. Len(R) : (R \o E)[i] = R[i]
          /\ \A i \in 1 .. Len(E) : (R \o E)[Len(R) + i] = E[i]
      BY <2>1, <2>2, Joined
    <3> QED
      BY <2>1, <2>2, <3>1
  <2>4. ASSUME NEW k \in DOMAIN (R \o E), NEW m \in DOMAIN (R \o E), k < m,
               (R \o E)[k].do = "obsolete"
        PROVE  (R \o E)[m] \in S
    <3>1. k \notin 1 .. r
      BY <2>1, <2>3, <2>4
    <3>2. m = r + 2
      BY <2>3, <2>4, <3>1
    <3> QED
      BY <1>3, <2>2, <2>3, <3>2
  <2> QED
    BY <2>3, <2>4
<1>7. \A s : \A t \in Seq(S) : After(s) => After(s \o t)
  <2> SUFFICES ASSUME NEW s, NEW t \in Seq(S), After(s) PROVE After(s \o t)
    OBVIOUS
  <2> HIDE DEF S
  <2> QED
    BY <1>2, AfterGrows
<1>8. Work(archive, control) = (((R \o E) \o control) \o D) \o L
  BY DEF Work
<1> HIDE DEF R, E, D, L, S
<1>9. After((((R \o E) \o control) \o D) \o L)
  <2> HIDE DEF After
  <2> QED
    BY <1>4, <1>5, <1>6, <1>7
<1> QED
  BY <1>8, <1>9 DEF S

\* A parent is a path above.
LEMMA ParentIs ==
  ASSUME NEW p \in Path, Parent[p] # Root
  PROVE  /\ Parent[p] \in Path /\ Parent[p] \in Above[p] /\ Parent[p] # p
         /\ Parent[p] \notin Image(Slot)
BY TreeAssumption, SlotAssumption

\* What was there before the run was in a directory, which was in a directory, ...
LEMMA ParentBefore ==
  ASSUME TypeInv, NEW p \in Path, before[p] # Absent
  PROVE  /\ \A a \in Above[p] : a \in Path /\ before[a] = Dir
         /\ Parent[p] # Root => before[Parent[p]] = Dir
<1>1. \A a \in Above[p] : a \in Path /\ before[a] = Dir
  BY TreeAssumption, ScenarioAssumption DEF before, TypeInv, TypeOK
<1> QED
  BY <1>1, ParentIs

\* The rollback files are paths, each has its own, and they are none of those
\* that are moved away.
LEMMA Files ==
  ASSUME TypeInv
  PROVE  /\ DOMAIN Slot = 1 .. Len(Slot) /\ DOMAIN rollbacks = 1 .. Len(rollbacks)
         /\ Len(rollbacks) \in Nat /\ DOMAIN rollbacks \subseteq DOMAIN Slot
         /\ \A i \in DOMAIN Slot : Slot[i] \in Path /\ Slot[i] \in Image(Slot)
         /\ \A i, j \in DOMAIN Slot : Slot[i] = Slot[j] => i = j
         /\ \A i \in DOMAIN rollbacks : rollbacks[i] \in Path
BY SequenceAssumption DEF TypeInv, TypeOK, Image

\* What a step that works on the disk, and is not fatal, needs to be there.
LEMMA MakesHow ==
  ASSUME TypeInv, Course, Safe, Makes, [Next]_vars, pc' \in Forward
  PROVE  /\ rollbacks' = rollbacks /\ fate' = fate
         /\ Lays => \/ ~Exists(made') /\ ParentOK(made')
                    \/ /\ fs' = fs /\ fs[made'] = Dir /\ pc = "mkdir"
                       /\ made' = cur.path /\ cur.kind = "dir"
         /\ Links => ~Exists(cur.path) /\ ParentOK(cur.path)
         /\ Opens => ParentOK(cur.path)
         /\ Stores => /\ Len(rollbacks) \in DOMAIN rollbacks
                      /\ rollbacks[Len(rollbacks)] = Top
                      /\ Exists(Top) /\ ParentOK(Slot[Len(rollbacks)])
                      /\ fs[Slot[Len(rollbacks)]] = Absent
                      /\ fs' = Moved(Top, Slot[Len(rollbacks)])
<1> USE DEF Goto, Fatal, logs, menuv, ctl
<1>1. pc' # "revert"
  BY DEF Forward, Working, Cleaning, Busy
<1>2. rollbacks' = rollbacks /\ fate' = fate
  BY DEF Makes, MakeParent, MakeEntryDir, MakeLink, OpenFile, WriteFile, MoveAway
<1>3. ASSUME Lays
      PROVE  \/ ~Exists(made') /\ ParentOK(made')
             \/ /\ fs' = fs /\ fs[made'] = Dir /\ pc = "mkdir"
                /\ made' = cur.path /\ cur.kind = "dir"
  <2>1. MakeParent \/ MakeEntryDir
    BY <1>3 DEF Lays, Makes, MakeLink, OpenFile, WriteFile, MoveAway
  <2>2. CASE MakeParent
    <3>1. PICK a \in Missing : MakeDir(a)
      BY <2>2 DEF MakeParent
    <3>2. ~Exists(a)
      BY <3>1 DEF Missing
    <3> QED
      BY <1>1, <3>1, <3>2, MissingIsNone DEF MakeDir
  <2>3. CASE MakeEntryDir
    <3>1. pc = "mkdir" /\ cur.kind = "dir" /\ MakeDir(cur.path)
      BY <2>3 DEF MakeEntryDir, Course, Busy
    <3>2. IsDirectory(cur.path) => fs[cur.path] = Dir
      BY <3>1, Doing, NoLinkThere DEF Course, Busy
    <3> QED
      BY <1>1, <3>1, <3>2 DEF MakeDir
  <2> QED
    BY <2>1, <2>2, <2>3
<1>4. ASSUME Links
      PROVE  ~Exists(cur.path) /\ ParentOK(cur.path)
  <2>1. MakeLink
    BY <1>4 DEF Links, Makes, MakeParent, MakeEntryDir, OpenFile, WriteFile, MoveAway
  <2> QED
    BY <1>1, <2>1 DEF MakeLink
<1>5. ASSUME Opens
      PROVE  ParentOK(cur.path)
  <2>1. OpenFile
    BY <1>5 DEF Opens, Makes, MakeParent, MakeEntryDir, MakeLink, WriteFile, MoveAway
  <2> QED
    BY <1>1, <2>1 DEF OpenFile
<1>6. ASSUME Stores
      PROVE  /\ Len(rollbacks) \in DOMAIN rollbacks
             /\ rollbacks[Len(rollbacks)] = Top
             /\ Exists(Top) /\ ParentOK(Slot[Len(rollbacks)])
             /\ fs[Slot[Len(rollbacks)]] = Absent
             /\ fs' = Moved(Top, Slot[Len(rollbacks)])
  <2>1. MoveAway
    BY <1>6 DEF Stores, Makes, MakeParent, MakeEntryDir, MakeLink, OpenFile, WriteFile
  <2>2. CanMove(Top, Slot[Len(rollbacks)]) /\ fs' = Moved(Top, Slot[Len(rollbacks)])
    BY <1>1, <2>1 DEF MoveAway
  <2>3. pc = "move" /\ rollbacks # <<>>
    BY <2>1 DEF MoveAway, TypeInv, Control
  <2>4. Len(rollbacks) \in DOMAIN rollbacks /\ Len(rollbacks) \in DOMAIN Slot
    BY <2>3, Files DEF TypeInv, TypeOK
  <2>5. fs[Slot[Len(rollbacks)]] = Absent
    BY <2>3, <2>4 DEF Safe, SlotsHold, Reverting, Ended
  <2> QED
    BY <2>2, <2>3, <2>4, <2>5 DEF CanMove, Safe, Backing
<1> QED
  BY <1>2, <1>3, <1>4, <1>5, <1>6

\* What a fatal error leaves.
LEMMA FatalSteps ==
  ASSUME Faults = {}, TypeInv, Course, Safe, Filled, pc \in Working, [Next]_vars, pc' \notin Forward
  PROVE  /\ pc' = "revert" /\ pc \notin {"record", "reclaim", "fetched"}
         /\ UNCHANGED <<job, manifest, seen, rollbacks, downloads, fate, step>>
         /\ \/ fs' = fs /\ pc # "write"
            \/ /\ pc \in {"open", "write"} /\ Removable(cur.path)
               /\ fs' = [fs EXCEPT ![cur.path] = Absent]
<1> USE DEF Goto, Fatal, logs, menuv, ctl
<1>1. ~(Revert \/ Signal \/ Kill \/ Ending \/ UNCHANGED vars \/ Show)
  BY DEF Working, Busy, Forward, Revert, RevertMenus, RevertDownloads, RevertFiles, Rollback,
         RevertScratch, Sweep, Signal, Kill, Ending, Ended, vars, Show
<1>2. ~(Cleanup)
  BY <1>1 DEF Cleanup, FinishStages, DropSlots, DropDownloads, DropScratch, DropDirs, Forget,
              Sweep, Working, Busy, Forward, Cleaning
<1>3. Install
  BY <1>1, <1>2 DEF Next, Run
<1>4. ~Notes
  BY DEF Notes, Declare, Record, Claim, Unclaim, Reclaim, Fetched, Forward, Working, Busy
<1>5. CASE Quiets
  <2>1. ~StartTask
    <3> SUFFICES ASSUME StartTask PROVE FALSE
      OBVIOUS
    <3>1. step + 1 \in DOMAIN Plan /\ Plan[step + 1] \in Shaped
      BY PlanPlaces DEF StartTask, TypeInv, TypeOK
    <3> QED
      BY <3>1 DEF StartTask, Shaped, Task, FirstStep, Forward, Working, Busy
  <2>2. Gate \/ RegisterMenu
    BY <1>5, <2>1 DEF Quiets, MenusInstalled, PermitWrite, PickObsolete, BackupDescend,
         BackupReady, LogRollback, ParentsDone, Create, Forward, Working, Busy
  <2> QED
    BY <2>2 DEF Gate, RegisterMenu, Forward, Working, Busy
<1>6. CASE MakeParent \/ MakeEntryDir
  BY <1>6 DEF MakeParent, MakeEntryDir, MakeDir, Forward, Working, Busy
<1>7. CASE MakeLink
  BY <1>7 DEF MakeLink, Forward, Working, Busy
<1>8. CASE OpenFile
  BY <1>8 DEF OpenFile, Forward, Working, Busy
<1>9. CASE WriteFile
  BY <1>9 DEF WriteFile, Forward, Working, Busy, Filled, Removable, IsObject
<1>10. CASE MoveAway
  <2>1. pc = "move" /\ rollbacks # <<>>
    BY <1>10 DEF MoveAway, TypeInv, Control
  <2>2. Len(rollbacks) \in DOMAIN rollbacks /\ Len(rollbacks) \in DOMAIN Slot
    BY <2>1, Files DEF TypeInv, TypeOK
  <2>3. fs[Slot[Len(rollbacks)]] = Absent
    BY <2>1, <2>2 DEF Safe, SlotsHold, Reverting, Ended
  <2>4. ~Removable(Slot[Len(rollbacks)])
    BY <2>3 DEF Removable, IsObject, Absent, Dir
  <2> QED
    BY <1>10, <2>4 DEF MoveAway, MoveFailed, Forward, Working, Busy
<1> QED
  BY <1>3, <1>4, <1>5, <1>6, <1>7, <1>8, <1>9, <1>10 DEF Install, Quiets, Notes

\* Each step of a revert up to the first restore: nothing but the menu items
\* changes, or a deletion loop goes round.
LEMMA EarlySteps ==
  ASSUME Faults = {}, TypeInv, pc \in Early, [Next]_vars
  PROVE  /\ UNCHANGED <<job, manifest, seen, rollbacks, downloads, fate, step, stack, made>>
         /\ \/ fs' = fs /\ pc' \in {pc, "exit22"} /\ (pc # "revert" => rest' = rest)
            \/ fs' = fs /\ pc = "revert" /\ pc' = "rmdownloads" /\ rest' = downloads
            \/ /\ fs' = fs /\ pc = "rmdownloads" /\ pc' = "rmfiles" /\ rest' = Condemned
               /\ rest = {}
            \/ fs' = fs /\ pc = "rmfiles" /\ pc' = "rollback" /\ rest = {}
            \/ \E a \in rest : /\ pc \in {"rmdownloads", "rmfiles"} /\ pc' = pc
                               /\ Latest(a, rest) /\ rest' = rest \ {a} /\ fs' = Deleted(a)
<1> USE DEF Goto, Fatal, logs, menuv, ctl, Early
<1>1. ~(Install \/ Cleanup \/ Rollback \/ RevertScratch \/ Signal \/ Kill)
  BY DEF Install, StartTask, Gate, MenusInstalled, Declare, PermitWrite, PickObsolete,
         BackupDescend, BackupReady, LogRollback, MoveAway, MakeParent, ParentsDone, MakeEntryDir,
         MakeLink, Record, Claim, OpenFile, WriteFile, Unclaim, Reclaim, Fetched, RegisterMenu,
         Cleanup, FinishStages, DropSlots, DropDownloads, DropScratch, DropDirs, Forget, Sweep,
         Show, Rollback, RevertScratch, Signal, Kill
<1>2. CASE RevertMenus
  BY <1>2 DEF RevertMenus
<1>3. CASE RevertDownloads
  BY <1>3 DEF RevertDownloads, Sweep, TryDelete
<1>4. CASE RevertFiles
  BY <1>4 DEF RevertFiles, Sweep, TryDelete
<1>5. CASE Ending \/ UNCHANGED vars
  BY <1>5 DEF Ending, vars
<1> QED
  BY <1>1, <1>2, <1>3, <1>4, <1>5 DEF Next, Run, Revert

-----------------------------------------------------------------------------
(* The rollback files. *)

\* What is put at one path, which is no rollback file, keeps them as they are,
\* if a directory that goes is not needed for a restore.
LEMMA PutStored ==
  ASSUME TypeInv, Stored, job' = job, rollbacks' = rollbacks,
         NEW a \in Path \ Image(Slot), Elsewhere(a),
         \/ fs'[a] = Dir /\ ParentOK(a)
         \/ fs'[a] # Absent /\ fs[a] # Dir /\ ParentOK(a)
         \/ /\ fs'[a] = Absent /\ Removable(a)
            /\ fs[a] = Dir => \A i \in DOMAIN rollbacks : Held(i) => Parent[rollbacks[i]] # a
  PROVE  Stored'
<1>1. \A q \in Path : q # a => fs'[q] = fs[q]
  BY DEF Elsewhere
<1>2. \A i \in DOMAIN Slot : fs'[Slot[i]] = fs[Slot[i]]
  BY <1>1, Files
<1>3. \A i \in DOMAIN rollbacks : /\ i \in DOMAIN Slot /\ rollbacks[i] \in Path /\ Held(i)' = Held(i)
                                  /\ Exists(Slot[i])' = Exists(Slot[i])
  BY <1>2, Files DEF Held, Exists
<1>4. before' = before
  BY Fixed
<1>5. SlotsFree'
  BY <1>2 DEF Stored, SlotsFree, Exists
<1>6. HeldAre' /\ OneEach'
  BY <1>2, <1>3, <1>4 DEF Stored, HeldAre, OneEach
<1>7. ASSUME NEW p \in Path, Exists(p)', Parent[p] # Root
      PROVE  fs'[Parent[p]] = Dir
  <2>1. Parent[p] \in Path /\ Parent[p] # p
    BY <1>7, ParentIs
  <2>2. CASE p = a
    <3>1. ParentOK(a)
      BY <1>7, <2>2 DEF Exists
    <3> QED
      BY <1>1, <1>7, <2>1, <2>2, <3>1 DEF ParentOK
  <2>3. CASE p # a
    <3>1. Exists(p) /\ fs[Parent[p]] = Dir
      BY <1>1, <1>7, <2>3 DEF Exists, Stored, Rooted, ParentOK
    <3>2. CASE Parent[p] = a
      <4>1. ~Removable(a)
        BY <3>1, <3>2 DEF Removable, Children, IsObject, Dir
      <4> QED
        BY <3>1, <3>2, <4>1
    <3> QED
      BY <1>1, <2>1, <3>1, <3>2
  <2> QED
    BY <2>2, <2>3
<1>8. Rooted'
  BY <1>7 DEF Rooted, ParentOK
<1>9. ASSUME NEW i \in DOMAIN rollbacks, Held(i)
      PROVE  Roof(i)'
  <2>1. Roof(i)
    BY <1>9 DEF Stored, Roofs
  <2>2. CASE Parent[rollbacks[i]] # Root /\ fs[Parent[rollbacks[i]]] = Dir
    <3>1. Parent[rollbacks[i]] \in Path
      BY <1>3, <2>2, ParentIs
    <3>2. CASE Parent[rollbacks[i]] = a
      <4>1. fs'[a] = Dir
        BY <1>9, <2>2, <3>2
      <4> QED
        BY <3>2, <4>1 DEF Roof
    <3> QED
      BY <1>1, <2>2, <3>1, <3>2 DEF Roof
  <2>3. CASE \E j \in DOMAIN rollbacks : /\ j > i /\ rollbacks[j] = Parent[rollbacks[i]]
                                         /\ Exists(Slot[j]) /\ fs[Slot[j]] = Dir
    BY <1>2, <1>3, <2>3 DEF Roof
  <2> QED
    BY <2>1, <2>2, <2>3 DEF Roof
<1>10. Roofs'
  BY <1>3, <1>9 DEF Roofs
<1> QED
  BY <1>5, <1>6, <1>8, <1>10 DEF Stored

\* Noting a rollback moves nothing yet.
LEMMA LogStored ==
  ASSUME TypeInv, Stored, LogRollback
  PROVE  Stored'
<1>1. /\ fs' = fs /\ job' = job /\ rollbacks' = Append(rollbacks, Top) /\ SlotsLeft
      /\ before' = before
  BY Fixed DEF LogRollback, ctl, menuv
<1>2. PICK n \in Nat : /\ n = Len(rollbacks) /\ DOMAIN rollbacks = 1 .. n
                       /\ DOMAIN rollbacks' = 1 .. n + 1
                       /\ \A i \in 1 .. n : rollbacks'[i] = rollbacks[i]
  <2>1. rollbacks \in Seq(Path)
    BY DEF TypeInv, TypeOK
  <2> QED
    BY <1>1, <2>1
<1>3. n + 1 \in DOMAIN Slot /\ n + 1 \notin DOMAIN rollbacks
  BY <1>1, <1>2, Files DEF SlotsLeft
<1>4. fs[Slot[n + 1]] = Absent
  BY <1>3 DEF Stored, SlotsFree, Exists
<1>5. \A i : Held(i)' <=> Held(i)
  BY <1>1, <1>2, <1>4 DEF Held, Exists
<1>6. \A i : Held(i) => i \in 1 .. n /\ rollbacks'[i] = rollbacks[i]
  BY <1>2 DEF Held
<1>7. SlotsFree'
  BY <1>1, <1>2 DEF Stored, SlotsFree, Exists
<1>8. HeldAre' /\ OneEach'
  BY <1>1, <1>2, <1>5, <1>6 DEF Stored, HeldAre, OneEach
<1>9. Rooted'
  BY <1>1 DEF Stored, Rooted, Exists, ParentOK
<1>10. Roofs'
  <2> SUFFICES ASSUME NEW i, Held(i) PROVE Roof(i)'
    BY <1>5 DEF Roofs
  <2>1. Roof(i) /\ i \in 1 .. n
    BY <1>6, <1>2 DEF Stored, Roofs
  <2> QED
    BY <1>1, <1>2, <2>1 DEF Roof, Exists
<1> QED
  BY <1>7, <1>8, <1>9, <1>10 DEF Stored

-----------------------------------------------------------------------------
(* What the run makes. *)

\* What holds of the disk as long as nothing has been reverted.
Sure == TypeInv /\ Safe /\ Homes /\ LogsInv /\ DiskInv /\ Queues

\* What backup_file() is about to move is as it was before the run.
LEMMA TopIsOld ==
  ASSUME Sure, pc = "move", Exists(Top)
  PROVE  /\ Top \in Path /\ Top \notin Hidden /\ Top \notin Image(Slot)
         /\ Top \notin manifest /\ fs[Top] = before[Top]
         /\ Len(stack) \in DOMAIN stack /\ Top = stack[Len(stack)]
<1>1. /\ TypeInv /\ Safe /\ Homes /\ Leaving /\ Logging /\ Proper /\ DirsLogged /\ pc \in Busy
  BY DEF Sure, DiskInv, Busy
<1>2. /\ Len(stack) \in DOMAIN stack /\ Top = stack[Len(stack)] /\ Top \in Path
  BY <1>1 DEF TypeInv, TypeOK, Control, Nested, Top
<1>3. Top \notin Hidden /\ Top \notin Image(Slot) /\ Top \notin manifest \cup downloads
  BY <1>1, <1>2 DEF Safe, Backing, Hidden, Leaving
<1>4. fs[Top] \in Node /\ before[Top] \in {Absent, Dir, Prior(Top)}
  BY <1>1, <1>2, Before DEF TypeInv, TypeOK
<1>5. ~InHand(Top)
  BY DEF InHand
<1>6. fs[Top].kind \notin {"new", "partial"}
  BY <1>1, <1>2, <1>3, <1>5 DEF Logging
<1>7. CASE fs[Top].kind = "prior"
  BY <1>1, <1>2, <1>3, <1>7 DEF Homes
<1>8. CASE fs[Top].kind = "dir"
  BY <1>1, <1>2, <1>3, <1>8 DEF Proper, DirsLogged, Working
<1>9. CASE fs[Top].kind = "absent"
  BY <1>1, <1>2, <1>9 DEF Proper, Exists
<1>10. fs[Top].kind \in {"absent", "dir", "prior", "partial", "new"}
  BY <1>4 DEF Node
<1> QED
  BY <1>2, <1>3, <1>6, <1>7, <1>8, <1>9, <1>10

\* Where a task puts a file or a link.
LEMMA FilePlaces ==
  ASSUME TypeInv, Sounds, Course, pc \in {"link", "claim", "open", "write", "unclaim", "reclaim"}
  PROVE  /\ cur.path \in Path /\ cur.path \in Written \cup OwnPaths
         /\ cur.path \notin Streets /\ cur.path \notin Image(Slot)
         /\ cur.kind # "dir" /\ pc \in Busy
         /\ cur.do = "fetch" => cur.path \in Image(Downloads)
         /\ cur.do # "install" => cur.path \in OwnPaths /\ before[cur.path] # Dir
<1>1. pc \in Busy /\ pc \in Route(cur.do)
  BY DEF Course, Busy
<1>2. /\ cur \in Shaped /\ cur \in Task /\ cur \in Image(Plan) /\ cur.path \notin Image(Slot)
  BY <1>1, Doing
<1>3. cur.do \in {"install", "put", "fetch", "menu", "manifest"}
  BY <1>1, <1>2 DEF Route, Task, Between, Nested, Writing
<1>4. cur.kind \in {"file", "symlink"}
  BY <1>1 DEF Course, Writing
<1>5. CASE cur.do = "install"
  BY <1>1, <1>2, <1>4, <1>5, Town
<1>6. CASE cur.do # "install"
  <2>1. cur.path \in OwnPaths
    BY <1>2, <1>3, <1>4, <1>6 DEF Shaped, OwnPaths
  <2>2. before[cur.path] # Dir
    BY <2>1, ScenarioAssumption DEF before, TypeInv, TypeOK
  <2> QED
    BY <1>1, <1>2, <1>4, <1>6, <2>1, <2>2, Town DEF Shaped
<1> QED
  BY <1>5, <1>6

\* A directory is made where a street runs.
LEMMA DirPlaces ==
  ASSUME TypeInv, Sounds, Course, Safe, Lays
  PROVE  /\ made' \in Path /\ made' \in Streets /\ made' \notin OwnPaths
         /\ ~Under(made')
<1>1. pc \in Busy
  BY DEF Lays, Busy
<1>2. cur \in Image(Plan)
  BY <1>1, Doing
<1>3. made' \in Path /\ made' \in Streets
  BY <1>2, Town DEF Lays
<1>4. made' \notin Written \cup OwnPaths /\ Above[made'] \subseteq Streets
  BY <1>3, Town DEF Laid
<1>5. Above[made'] \cap Written = {}
  BY <1>4, Town
<1> QED
  BY <1>3, <1>4, <1>5 DEF Under

\* What is not changed, or is not the run's, or is put where it should be.
LEMMA StaysBuilt ==
  ASSUME Built, job' = job,
         \A q \in Path :
           \/ fs'[q] = fs[q] /\ (fs[q].kind = "partial" => pc' = "write" /\ q = cur'.path)
           \/ /\ fs'[q].kind \notin {"new", "partial"}
              /\ fs'[q] = Dir => q \notin OwnPaths \ Image(Slot)
           \/ /\ q \in Written \cup OwnPaths
              /\ \/ fs'[q] = New(q)
                 \/ fs'[q] = Partial(q) /\ pc' = "write" /\ q = cur'.path
  PROVE  Built'
<1>1. Written' = Written
  BY DEF Written
<1>2. \A q \in Path : New(q).kind = "new" /\ Partial(q).kind = "partial" /\ Dir.kind = "dir"
  BY Kinds
<1>3. NewPlaces'
  BY <1>1 DEF Built, NewPlaces
<1>4. NewWhole'
  BY <1>2 DEF Built, NewWhole
<1>5. OwnFiles'
  <2>1. OwnPaths \subseteq Path
    BY SequenceAssumption DEF OwnPaths, Image
  <2> QED
    BY <1>2, <2>1 DEF Built, OwnFiles
<1> QED
  BY <1>3, <1>4, <1>5 DEF Built

\* Every step keeps it so.
LEMMA NextBuilt ==
  ASSUME Sounds, TypeInv, pc \in Working => Sure, Course, Built, [Next]_vars, pc' \in Forward
  PROVE  Built'
<1>1. job' = job /\ Plan' = Plan
  BY JobFixed, Fixed
<1>2. ASSUME fs' = fs, pc # "write"
      PROVE  Built'
  BY <1>1, <1>2, StaysBuilt DEF Built, NewWhole
<1>3. CASE UNCHANGED vars
  BY <1>3 DEF vars, Built, NewPlaces, NewWhole, OwnFiles, Written, cur, Plan
<1>4. CASE Quiets \/ Notes
  <2>1. fs' = fs /\ pc # "write"
    BY <1>4, QuietWhat DEF Notes, Declare, Record, Claim, Unclaim, Reclaim, Fetched
  <2> QED
    BY <1>2, <2>1
<1>5. CASE Cleans
  <2>1. /\ pc # "write"
        /\ \A q \in Path : fs'[q] = fs[q] \/ fs'[q] = Absent
    BY <1>5, CleansWhat DEF Busy
  <2>2. Absent.kind \notin {"new", "partial"} /\ Absent # Dir
    BY Kinds
  <2> QED
    BY <1>1, <2>1, <2>2, StaysBuilt DEF Built, NewWhole
<1>6. CASE Makes
  <2>1. /\ Safe /\ pc \in Busy /\ cur' = cur
        /\ Lays \/ Links \/ Opens \/ Fills \/ Stores
    BY <1>6, AtWork DEF Sure
  <2>2. CASE Lays
    <3>1. /\ made' \in Path /\ made' \notin OwnPaths /\ fs'[made'] = Dir /\ Elsewhere(made')
          /\ pc # "write"
      BY <2>1, <2>2, DirPlaces DEF Lays
    <3>2. Dir.kind \notin {"new", "partial"}
      BY Kinds
    <3> QED
      BY <1>1, <3>1, <3>2, StaysBuilt DEF Built, NewWhole, Elsewhere
  <2>3. CASE Links \/ Opens \/ Fills
    <3>1. /\ cur.path \in Written \cup OwnPaths /\ Elsewhere(cur.path)
          /\ \/ fs'[cur.path] = New(cur.path)
             \/ fs'[cur.path] = Partial(cur.path) /\ pc' = "write"
      BY <2>3, FilePlaces DEF Links, Opens, Fills
    <3> QED
      BY <1>1, <2>1, <3>1, StaysBuilt DEF Built, NewWhole, Elsewhere
  <2>4. CASE Stores
    <3>1. PICK s \in Image(Slot) :
            /\ s \in Path /\ Top # s /\ fs'[s] = fs[Top] /\ fs'[Top] = Absent
            /\ \A q \in Path : q # Top /\ q # s => fs'[q] = fs[q]
      BY <2>4 DEF Stores
    <3>2. pc = "move" /\ Exists(Top)
      BY <1>6, <2>1, <2>4, MakesHow DEF Stores
    <3>3. Top \in Path /\ fs[Top] = before[Top] /\ TypeInv
      BY <2>1, <3>2, TopIsOld DEF Sure, Working
    <3>4. fs'[s].kind \notin {"new", "partial"} /\ fs'[Top].kind \notin {"new", "partial"} /\ Absent # Dir
      BY <3>1, <3>3, Before, Kinds
    <3> QED
      BY <1>1, <3>1, <3>2, <3>3, <3>4, StaysBuilt DEF Built, NewWhole
  <2> QED
    BY <2>1, <2>2, <2>3, <2>4
<1> QED
  BY <1>3, <1>4, <1>5, <1>6, ForwardSteps

-----------------------------------------------------------------------------
(* Before a revert: the rollback files.                                    *)

\* As long as the run is undecided and nothing is reverted, a step is one of the
\* tasks', or the last stage is skipped.
LEMMA AheadSteps ==
  ASSUME [Next]_vars, fate' = "open", pc' \in Ahead
  PROVE  /\ fate = "open" /\ pc \in Ahead /\ pc' \in Forward
         /\ \/ UNCHANGED vars
            \/ pc \in Working /\ (Quiets \/ Notes \/ Makes)
            \/ /\ pc = "task" /\ pc' = "show"
               /\ UNCHANGED <<job, fs, manifest, seen, rollbacks, downloads, step, stack, made>>
<1>1. fate = "open"
  BY FateStays
<1>2. pc' \in Forward
  BY DEF Ahead, Forward
<1>3. pc \in Forward /\ (UNCHANGED vars \/ Quiets \/ Notes \/ Makes \/ Cleans)
  BY <1>2, ForwardSteps
<1>4. CASE UNCHANGED vars
  BY <1>1, <1>2, <1>4 DEF vars
<1>5. CASE Quiets \/ Notes \/ Makes
  <2>1. pc \in Working
    BY <1>5 DEF Working, Busy, Quiets, Notes, Makes, StartTask, Gate, MenusInstalled,
         PermitWrite, PickObsolete, BackupDescend, BackupReady, LogRollback, ParentsDone,
         RegisterMenu, Declare, Record, Claim, Unclaim, Reclaim, Fetched, MakeParent,
         MakeEntryDir, MakeLink, OpenFile, WriteFile, MoveAway
  <2> QED
    BY <1>1, <1>2, <1>5, <2>1 DEF Ahead
<1>6. CASE Cleans
  <2>1. ~(DropSlots \/ DropDownloads \/ DropScratch \/ DropDirs \/ Forget)
    BY <1>1 DEF Ahead, Working, Busy, DropSlots, DropDownloads, DropScratch, DropDirs, Forget,
       Sweep, Goto
  <2>2. FinishStages /\ SkipPrompt
    BY <1>6, <2>1 DEF Cleans, FinishStages, Goto
  <2> QED
    BY <1>1, <1>2, <2>2 DEF FinishStages, Goto, Ahead, Working
<1> QED
  BY <1>3, <1>4, <1>5, <1>6

\* What is in a log, or about to be, stays so.
LEMMA LoggedGrows ==
  ASSUME TypeInv, Course, pc \in Working, Quiets \/ Notes \/ Makes, pc' \in Forward
  PROVE  /\ Logged \subseteq Logged' /\ manifest' \subseteq Logged'
         /\ pc \notin {"record", "reclaim"} => Logged = manifest
<1> USE DEF Goto, Fatal, logs, menuv, ctl
<1>1. pc \notin Undone /\ pc' \notin Undone
  BY DEF Undone, Working, Busy, Forward, Cleaning
<1>2. manifest' \subseteq Logged'
  BY <1>1 DEF Logged
<1>3. CASE Quiets
  <2>1. manifest' = manifest /\ pc \notin {"record", "reclaim"}
    BY <1>3, QuietWhat
  <2> QED
    BY <1>1, <2>1 DEF Logged
<1>4. CASE Makes
  <2>1. manifest' = manifest /\ pc \notin {"record", "reclaim"}
    BY <1>4 DEF Makes, MakeParent, MakeEntryDir, MakeLink, OpenFile, WriteFile, MoveAway
  <2> QED
    BY <1>1, <2>1 DEF Logged
<1>5. CASE Unclaim
  <2>1. cur' = cur /\ manifest' = manifest \ {cur.path} /\ pc = "unclaim" /\ pc' = "reclaim"
    BY <1>5, Fixed DEF Unclaim, cur
  <2> QED
    BY <1>1, <2>1 DEF Logged
<1>6. CASE Declare \/ Claim \/ Fetched
  <2>1. manifest \subseteq manifest' /\ pc \notin {"record", "reclaim"}
    BY <1>6 DEF Declare, Claim, Fetched, Enter
  <2> QED
    BY <1>1, <1>2, <2>1 DEF Logged
<1>7. CASE Record
  BY <1>1, <1>2, <1>7 DEF Record, Enter, Logged
<1>8. CASE Reclaim
  BY <1>1, <1>2, <1>8 DEF Reclaim, Enter, Logged
<1> QED
  BY <1>2, <1>3, <1>4, <1>5, <1>6, <1>7, <1>8 DEF Notes

\* The rollback files are the same on the same disk.
LEMMA SameStored ==
  ASSUME Stored, UNCHANGED <<job, fs, rollbacks>>
  PROVE  Stored'
BY Fixed DEF Stored, SlotsFree, HeldAre, OneEach, Rooted, Roofs, Roof, Held, Exists, ParentOK

\* Moving something away fills a rollback file, and the directory it was in is
\* there or will be restored first.
LEMMA MoveStored ==
  ASSUME Sure, Stored, Vacated, TopEmptied, Makes, Stores, [Next]_vars, pc' \in Forward
  PROVE  Stored'
<1>1. /\ TypeInv /\ Course /\ Safe /\ pc = "move" /\ pc \in Working
  BY DEF Sure, LogsInv, Stores, Working, Busy
<1>2. PICK n : n = Len(rollbacks)
  OBVIOUS
<1>3. PICK h : h = Slot[n]
  OBVIOUS
<1>4. /\ rollbacks' = rollbacks /\ n \in DOMAIN rollbacks /\ rollbacks[n] = Top /\ Exists(Top)
      /\ ParentOK(h) /\ fs[h] = Absent /\ fs' = Moved(Top, h)
  BY <1>1, <1>2, <1>3, MakesHow
<1>5. PICK t \in Path : /\ t = Top /\ t \notin Hidden /\ t \notin Image(Slot) /\ t \notin manifest
                        /\ fs[t] = before[t]
  BY <1>1, <1>4, TopIsOld
<1>6. /\ DOMAIN Slot = 1 .. Len(Slot) /\ DOMAIN rollbacks = 1 .. n /\ n \in Nat
      /\ DOMAIN rollbacks \subseteq DOMAIN Slot
      /\ \A i \in DOMAIN Slot : Slot[i] \in Path /\ Slot[i] \in Image(Slot)
      /\ \A i, j \in DOMAIN Slot : Slot[i] = Slot[j] => i = j
      /\ \A i \in DOMAIN rollbacks : rollbacks[i] \in Path
  BY <1>1, <1>2, Files
<1>7. h \in Path /\ h \in Image(Slot) /\ h # t
  BY <1>3, <1>4, <1>5, <1>6
<1>8. /\ fs'[t] = Absent /\ fs'[h] = fs[t]
      /\ \A r \in Path : r # t /\ r # h => fs'[r] = fs[r]
  BY <1>1, <1>4, <1>5, <1>7, MovedValue DEF TypeInv, TypeOK
<1>9. \A i \in DOMAIN Slot : i # n => fs'[Slot[i]] = fs[Slot[i]]
  BY <1>3, <1>4, <1>5, <1>6, <1>8
<1>10. /\ ~Held(n) /\ \A i : i # n => (Held(i)' <=> Held(i))
       /\ \A i : Held(i) => i \in DOMAIN rollbacks /\ i \in 1 .. n /\ i # n /\ i < n
  BY <1>3, <1>4, <1>6, <1>9 DEF Held, Exists
<1>11. before' = before
  BY JobFixed, Fixed
<1>12. SlotsFree'
  BY <1>4, <1>9 DEF Stored, SlotsFree, Exists
<1>13. HeldAre'
  BY <1>3, <1>4, <1>5, <1>6, <1>8, <1>9, <1>10, <1>11 DEF Stored, HeldAre
<1>14. \A i : Held(i) => rollbacks[i] # t
  <2>1. Logged = manifest
    BY <1>1 DEF Logged, Undone
  <2> QED
    BY <1>4, <1>5, <1>10, <2>1 DEF Vacated
<1>15. OneEach'
  BY <1>4, <1>5, <1>10, <1>14 DEF Stored, OneEach
<1>16. ASSUME NEW p \in Path, Exists(p)', Parent[p] # Root
       PROVE  fs'[Parent[p]] = Dir
  <2>1. /\ Parent[p] \in Path /\ Parent[p] \in Above[p] /\ Parent[p] # p
        /\ Parent[p] # h
    BY <1>7, <1>16, ParentIs
  <2>2. p # t
    BY <1>8, <1>16 DEF Exists
  <2>3. CASE p = h
    <3>1. Parent[p] # t
      BY <1>5, <1>7, <2>1, <2>3 DEF Hidden
    <3> QED
      BY <1>4, <1>8, <1>16, <2>1, <2>3, <3>1 DEF ParentOK
  <2>4. CASE p # h
    <3>1. Exists(p) /\ fs[Parent[p]] = Dir
      BY <1>8, <1>16, <2>2, <2>4 DEF Exists, Stored, Rooted, ParentOK
    <3>2. Parent[p] # t
      <4>1. stack # <<>>
        BY <1>1 DEF TypeInv, Control, Nested
      <4> QED
        BY <1>1, <1>5, <3>1, <4>1 DEF TopEmptied, Children
    <3> QED
      BY <1>8, <2>1, <3>1, <3>2
  <2> QED
    BY <2>3, <2>4
<1>17. Rooted'
  BY <1>16 DEF Rooted, ParentOK
<1>18. Roof(n)'
  <2> SUFFICES ASSUME Parent[t] # Root
               PROVE  fs'[Parent[t]] = Dir
    BY <1>4, <1>5 DEF Roof
  <2>1. Parent[t] \in Path /\ Parent[t] # t /\ Parent[t] # h
    BY <1>7, ParentIs
  <2>2. fs[Parent[t]] = Dir
    BY <1>4, <1>5 DEF Stored, Rooted, ParentOK
  <2> QED
    BY <1>8, <2>1, <2>2
<1>19. ASSUME NEW i \in DOMAIN rollbacks, Held(i)
       PROVE  Roof(i)'
  <2>1. Roof(i) /\ i < n
    BY <1>10, <1>19 DEF Stored, Roofs
  <2>2. CASE Parent[rollbacks[i]] # Root /\ fs[Parent[rollbacks[i]]] = Dir
    <3>1. Parent[rollbacks[i]] \in Path /\ Parent[rollbacks[i]] # h
      BY <1>6, <1>7, <2>2, ParentIs
    <3>2. CASE Parent[rollbacks[i]] = t
      <4>1. fs'[Slot[n]] = Dir /\ Dir # Absent
        BY <1>3, <1>8, <2>2, <3>2, Kinds
      <4> QED
        BY <1>4, <1>5, <2>1, <3>2, <4>1 DEF Roof, Exists
    <3> QED
      BY <1>4, <1>8, <2>2, <3>1, <3>2 DEF Roof
  <2>3. CASE \E j \in DOMAIN rollbacks : /\ j > i /\ rollbacks[j] = Parent[rollbacks[i]]
                                         /\ Exists(Slot[j]) /\ fs[Slot[j]] = Dir
    <3>1. PICK j \in DOMAIN rollbacks : /\ j > i /\ rollbacks[j] = Parent[rollbacks[i]]
                                        /\ Exists(Slot[j]) /\ fs[Slot[j]] = Dir
      BY <2>3
    <3>2. j # n
      BY <1>3, <1>4, <3>1 DEF Exists
    <3>3. fs'[Slot[j]] = fs[Slot[j]]
      BY <1>6, <1>9, <3>1, <3>2
    <3> QED
      BY <1>4, <3>1, <3>3 DEF Roof, Exists
  <2> QED
    BY <1>4, <2>1, <2>2, <2>3 DEF Roof
<1>20. Roofs'
  BY <1>4, <1>10, <1>18, <1>19 DEF Roofs
<1> QED
  BY <1>12, <1>13, <1>15, <1>17, <1>20 DEF Stored

\* Every step of the tasks keeps the rollback files as they should be.
LEMMA NextStored ==
  ASSUME Sounds, Sure, Standing, Quiets \/ Notes \/ Makes, pc \in Working, [Next]_vars,
         pc' \in Forward
  PROVE  Stored'
<1>1. /\ TypeInv /\ Course /\ Safe /\ Stored /\ Vacated /\ TopEmptied /\ Cleared /\ Filled
      /\ Proper /\ job' = job
  BY JobFixed DEF Sure, LogsInv, DiskInv, Standing
<1>2. CASE (Quiets \/ Notes) /\ ~LogRollback
  <2>1. fs' = fs
    BY <1>1, <1>2, QuietWhat
  <2>2. rollbacks' = rollbacks
    BY <1>2 DEF Quiets, Notes, StartTask, Gate, MenusInstalled, PermitWrite, PickObsolete,
       BackupDescend, BackupReady, ParentsDone, RegisterMenu, Declare, Record, Claim, Unclaim,
       Reclaim, Fetched, logs
  <2> QED
    BY <1>1, <2>1, <2>2, SameStored
<1>3. CASE LogRollback
  BY <1>1, <1>3, LogStored
<1>4. CASE Makes
  <2>1. Lays \/ Links \/ Opens \/ Fills \/ Stores
    BY <1>1, <1>4, AtWork
  <2>2. rollbacks' = rollbacks
    BY <1>1, <1>4, MakesHow
  <2>3. CASE Lays
    <3>1. CASE fs' = fs
      BY <1>1, <2>2, <3>1, SameStored
    <3>2. CASE fs' # fs
      <4>1. ParentOK(made') /\ fs'[made'] = Dir /\ Elsewhere(made')
        BY <1>1, <1>4, <2>3, <3>2, MakesHow DEF Lays
      <4>2. made' \in Path /\ made' \notin Image(Slot)
        BY <1>1, <2>3, DirPlaces DEF OwnPaths
      <4> HIDE DEF Lays
      <4> QED
        BY <1>1, <2>2, <4>1, <4>2, PutStored
    <3> QED
      BY <3>1, <3>2
  <2>4. CASE Links \/ Opens \/ Fills
    <3>1. /\ cur.path \in Path /\ cur.path \notin Image(Slot) /\ cur.kind # "dir"
          /\ Elsewhere(cur.path) /\ stack = <<>>
      BY <1>1, <2>4, FilePlaces DEF Links, Opens, Fills
    <3>2. fs'[cur.path] # Absent
      BY <2>4, Kinds DEF Links, Opens, Fills
    <3>3. ParentOK(cur.path) /\ fs[cur.path] # Dir
      <4>1. CASE Links
        BY <1>1, <1>4, <4>1, MakesHow, Kinds DEF Exists
      <4>2. CASE Opens
        BY <1>1, <1>4, <3>1, <4>2, MakesHow DEF Cleared, Opens
      <4>3. CASE Fills
        <5>1. fs[cur.path].kind = "partial"
          BY <1>1, <4>3 DEF Fills, Filled
        <5>2. Exists(cur.path) /\ fs[cur.path] # Dir
          BY <5>1, Kinds DEF Exists
        <5> QED
          BY <1>1, <3>1, <5>2 DEF Stored, Rooted
      <4> QED
        BY <2>4, <4>1, <4>2, <4>3
    <3> QED
      BY <1>1, <2>2, <3>1, <3>2, <3>3, PutStored
  <2>5. CASE Stores
    BY <1>1, <1>4, <2>5, MoveStored
  <2> QED
    BY <2>1, <2>3, <2>4, <2>5
<1> QED
  BY <1>2, <1>3, <1>4

-----------------------------------------------------------------------------
(* Before a revert: what is moved away, and from where.                    *)

\* A step of a task that is not its first leaves the task as it is.
LEMMA SameTask ==
  ASSUME [Next]_vars, Quiets \/ Notes \/ Makes
  PROVE  /\ Plan' = Plan /\ before' = before /\ oldFiles' = oldFiles /\ old' = old
         /\ ~StartTask => step' = step /\ cur' = cur /\ pc \in Busy
         /\ StartTask => step' = step + 1 /\ pc = "task"
<1>1. job' = job
  BY JobFixed
<1>2. ~StartTask => step' = step /\ pc \in Busy
  BY DEF Quiets, Notes, Makes, Gate, MenusInstalled, PermitWrite,
         PickObsolete, BackupDescend, BackupReady, LogRollback, ParentsDone,
         RegisterMenu, Declare, Record, Claim, Unclaim, Reclaim, Fetched, MakeParent,
         MakeEntryDir, MakeLink, OpenFile, WriteFile, MoveAway, Busy, ctl
<1>3. StartTask => step' = step + 1 /\ pc = "task"
  BY DEF StartTask
<1> QED
  BY <1>1, <1>2, <1>3, Fixed DEF cur

\* What happens to the stack of backup_file().
LEMMA StackSteps ==
  ASSUME TypeInv, Course, Safe, Quiets \/ Notes \/ Makes, pc' \in Forward
  PROVE  \/ stack' = stack /\ (StartTask => stack = <<>>)
         \/ PermitWrite /\ stack' = <<cur.path>> /\ pc = "permit" /\ cur.kind # "dir" /\ pc' = "backup"
         \/ PickObsolete /\ pc = "obsolete" /\ pc' = "backup" /\ \E p \in Obsolete : stack' = <<p>>
         \/ /\ BackupDescend /\ pc = "backup" /\ pc' = "backup" /\ stack # <<>> /\ fs[Top] = Dir
            /\ \E c \in Children(Top) : stack' = Append(stack, c)
         \/ /\ MoveAway /\ pc = "move" /\ stack' = Pop /\ stack # <<>>
            /\ pc' \notin {"log", "move", "record"}
            /\ pc' = "parents" => stack' = <<>> /\ cur.do # "obsolete"
<1> USE DEF Goto, Fatal, logs, menuv, ctl
<1>1. CASE PermitWrite \/ PickObsolete
  BY <1>1 DEF PermitWrite, PickObsolete, StartTask
<1>2. CASE BackupDescend
  BY <1>2 DEF BackupDescend, TypeInv, Control, Nested
<1>3. CASE MoveAway
  BY <1>3 DEF MoveAway, TypeInv, Control, Nested, Forward, Working, Busy, Cleaning
<1>4. CASE StartTask
  BY <1>4 DEF StartTask, TypeInv, Control, Busy, Nested, Between
<1>5. CASE Quiets /\ ~PermitWrite /\ ~PickObsolete /\ ~BackupDescend /\ ~StartTask
  BY <1>5 DEF Quiets, Gate, MenusInstalled, BackupReady, LogRollback, ParentsDone, RegisterMenu
<1>6. CASE Notes /\ ~StartTask
  BY <1>6 DEF Notes, Declare, Record, Claim, Unclaim, Reclaim, Fetched
<1>7. CASE Makes /\ ~MoveAway /\ ~StartTask
  BY <1>7 DEF Makes, MakeParent, MakeEntryDir, MakeLink, OpenFile, WriteFile
<1> QED
  BY <1>1, <1>2, <1>3, <1>4, <1>5, <1>6, <1>7

\* What is moved away is in the way of the package, or obsolete.
LEMMA NextSources ==
  ASSUME Sounds, Sure, Sources, Quiets \/ Notes \/ Makes, pc \in Working, [Next]_vars,
         pc' \in Forward
  PROVE  Sources'
<1>1. TypeInv /\ Course /\ Safe /\ Leaving /\ stack \in Seq(Path) /\ rollbacks \in Seq(Path)
  BY DEF Sure, LogsInv, DiskInv, TypeInv, TypeOK
<1>2. /\ Plan' = Plan /\ oldFiles' = oldFiles
      /\ ~StartTask => step' = step /\ cur' = cur /\ pc \in Busy
      /\ StartTask => step' = step + 1 /\ pc = "task"
  BY SameTask
<1>3. \A p : Under(p)' <=> Under(p)
  BY JobFixed DEF Under, Written
<1>4. PastObsolete => PastObsolete'
  BY <1>1, <1>2 DEF PastObsolete, TypeInv, TypeOK
<1>5. ASSUME rollbacks' = rollbacks
      PROVE  (\A i \in DOMAIN rollbacks :
                Under(rollbacks[i]) \/ (rollbacks[i] \in oldFiles /\ PastObsolete))'
  BY <1>2, <1>3, <1>4, <1>5 DEF Sources
<1>6. CASE LogRollback
  <2>1. /\ rollbacks' = Append(rollbacks, Top) /\ stack' = stack /\ pc = "log" /\ stack # <<>>
        /\ ~StartTask
    BY <1>1, <1>6 DEF LogRollback, TypeInv, Control, Nested, ctl, StartTask
  <2>2. cur.do \in {"install", "obsolete"} /\ pc \in Busy
    BY <1>1, <2>1 DEF Course, Busy
  <2>3. Len(stack) \in DOMAIN stack /\ Top = stack[Len(stack)]
    BY <1>1, <2>1 DEF Top
  <2>4. Under(Top) \/ (Top \in oldFiles /\ PastObsolete)
    <3>1. CASE cur.do = "obsolete"
      <4>1. step \in 1 .. step /\ step \in DOMAIN Plan /\ Plan[step].do = "obsolete"
        BY <1>1, <2>2, <3>1, Doing DEF TypeInv, TypeOK
      <4> QED
        BY <2>2, <2>3, <3>1, <4>1 DEF Sources, PastObsolete
    <3>2. CASE cur.do # "obsolete"
      BY <2>2, <2>3, <3>2 DEF Sources
    <3> QED
      BY <3>1, <3>2
  <2>5. \A i \in DOMAIN rollbacks' : (i \in DOMAIN rollbacks /\ rollbacks'[i] = rollbacks[i]) \/ rollbacks'[i] = Top
    BY <1>1, <2>1
  <2> QED
    BY <1>2, <1>3, <1>4, <2>1, <2>2, <2>4, <2>5 DEF Sources
<1>7. CASE ~LogRollback
  <2>1. rollbacks' = rollbacks
    BY <1>7 DEF Quiets, Notes, Makes, StartTask, Gate, MenusInstalled, PermitWrite, PickObsolete,
       BackupDescend, BackupReady, ParentsDone, RegisterMenu, Declare, Record, Claim, Unclaim,
       Reclaim, Fetched, MakeParent, MakeEntryDir, MakeLink, OpenFile, WriteFile, MoveAway, logs
  <2>2. SUFFICES ASSUME pc' \in Busy, NEW i \in DOMAIN stack'
                 PROVE  IF cur'.do = "obsolete" THEN stack'[i] \in oldFiles' ELSE Under(stack'[i])
    <3>1. Written' = Written
      BY JobFixed DEF Written
    <3> QED
      BY <1>5, <2>1, <3>1 DEF Sources, Under
  <2>3. CASE stack' = stack /\ (StartTask => stack = <<>>)
    BY <1>2, <2>2, <2>3 DEF Sources
  <2>4. CASE PermitWrite /\ stack' = <<cur.path>> /\ pc = "permit" /\ cur.kind # "dir"
    <3>1. cur.do = "install" /\ ~StartTask /\ pc \in Busy
      BY <1>1, <2>4 DEF Safe, Ready, StartTask, Busy
    <3>2. cur.path \in Written
      BY <1>1, <2>4, <3>1, Doing, Town
    <3> QED
      BY <1>2, <2>2, <2>4, <3>1, <3>2 DEF Under
  <2>5. CASE PickObsolete /\ pc = "obsolete" /\ \E p \in Obsolete : stack' = <<p>>
    <3>1. cur.do = "obsolete" /\ ~StartTask
      BY <1>1, <2>5 DEF Safe, Ready, StartTask
    <3> QED
      BY <1>2, <2>2, <2>5, <3>1 DEF Obsolete
  <2>6. CASE /\ BackupDescend /\ pc = "backup" /\ stack # <<>> /\ fs[Top] = Dir
             /\ \E c \in Children(Top) : stack' = Append(stack, c)
    <3>1. PICK c \in Children(Top) : stack' = Append(stack, c)
      BY <2>6
    <3>2. ~StartTask /\ pc \in Busy
      BY <2>6 DEF StartTask, Busy
    <3>3. Len(stack) \in DOMAIN stack /\ Top = stack[Len(stack)] /\ Top \in Path
      BY <1>1, <2>6 DEF Top
    <3>4. cur.do # "obsolete" /\ Under(Top)
      BY <2>6, <3>2, <3>3, <1>1 DEF Leaving, Sources
    <3>5. c \in Path /\ Above[c] = Above[Top] \cup {Top}
      BY <3>1, <3>3, TreeAssumption DEF Children
    <3>6. Under(c)
      BY <3>4, <3>5 DEF Under
    <3>7. stack'[i] = c \/ (i \in DOMAIN stack /\ stack'[i] = stack[i])
      BY <1>1, <2>2, <3>1, <3>5
    <3> QED
      BY <1>2, <3>2, <3>4, <3>6, <3>7 DEF Sources
  <2>7. CASE MoveAway /\ pc = "move" /\ stack' = Pop /\ stack # <<>>
    <3>1. i \in DOMAIN stack /\ stack'[i] = stack[i]
      BY <1>1, <2>2, <2>7 DEF Pop
    <3>2. ~StartTask /\ pc \in Busy
      BY <2>7 DEF StartTask, Busy
    <3> QED
      BY <1>2, <3>1, <3>2 DEF Sources
  <2> QED
    BY <1>1, <2>3, <2>4, <2>5, <2>6, <2>7, StackSteps
<1> QED
  BY <1>6, <1>7

\* A directory that backup_file() is about to move is empty.
LEMMA NextTopEmptied ==
  ASSUME Sounds, Sure, TopEmptied, Quiets \/ Notes \/ Makes, pc \in Working, [Next]_vars,
         pc' \in Forward
  PROVE  TopEmptied'
<1>1. TypeInv /\ Course /\ Safe /\ stack \in Seq(Path)
  BY DEF Sure, LogsInv, TypeInv, TypeOK
<1>2. SUFFICES ASSUME pc' \in Between \cup {"log", "move"}, stack' # <<>>, fs'[Top'] = Dir
               PROVE  Children(Top)' = {}
  BY DEF TopEmptied
<1>3. stack' = stack /\ Top' = Top
  BY <1>1, <1>2, StackSteps DEF Between, Top
<1>4. Len(stack) \in DOMAIN stack /\ Top = stack[Len(stack)] /\ Top \in Path
  BY <1>1, <1>2, <1>3 DEF Top
<1>5. CASE Quiets \/ Notes
  <2>1. fs' = fs /\ Children(Top)' = Children(Top)
    BY <1>1, <1>3, <1>5, QuietWhat DEF Children, Exists
  <2>2. CASE pc \in Between \cup {"log", "move"}
    BY <1>2, <1>3, <2>1, <2>2 DEF TopEmptied
  <2>3. CASE pc \notin Between \cup {"log", "move"}
    <3>1. BackupReady
      <4>1. pc \in Nested \cup Between
        BY <1>1, <1>2, <1>3 DEF TypeInv, Control, Working
      <4>2. pc = "backup"
        BY <2>3, <4>1 DEF Nested
      <4>3. ~BackupDescend
        BY <1>2, <4>2 DEF BackupDescend, Between
      <4> QED
        BY <1>5, <4>2, <4>3 DEF Quiets, Notes, StartTask, Gate, MenusInstalled, PermitWrite, PickObsolete,
           LogRollback, ParentsDone, RegisterMenu, Declare, Record, Claim, Unclaim, Reclaim, Fetched
    <3> QED
      BY <1>2, <1>3, <2>1, <3>1 DEF BackupReady
  <2> QED
    BY <2>2, <2>3
<1>6. CASE Makes
  <2>1. Lays \/ Links \/ Opens \/ Fills \/ Stores
    BY <1>1, <1>6, AtWork
  <2>2. ~Links /\ ~Opens /\ ~Fills
    BY <1>2, <1>3 DEF Links, Opens, Fills
  <2>3. ~Stores
    BY <1>3, <1>4, <1>1 DEF Stores, Pop
  <2>4. Lays
    BY <2>1, <2>2, <2>3
  <2>5. made' \in Path /\ made' \in Hidden /\ made' \notin Image(Slot) /\ Elsewhere(made')
        /\ pc \in {"parents", "mkdir"}
    BY <1>2, <1>3, <2>4 DEF Lays
  <2>6. pc = "parents"
    BY <1>1, <1>2, <1>3, <2>5 DEF TypeInv, Control, Busy, Nested, Between
  <2>7. Top \notin Hidden
    BY <1>1, <1>4 DEF Safe, Backing
  <2>8. fs[Top] = Dir /\ Children(Top) = {}
    BY <1>2, <1>3, <1>4, <2>5, <2>6, <2>7 DEF Elsewhere, TopEmptied, Between
  <2>9. Parent[made'] # Top
    <3>1. ASSUME Parent[made'] = Top PROVE FALSE
      <4>1. PICK s \in Image(Slot) : made' \in Above[s]
        BY <2>5 DEF Hidden
      <4>2. Top \in Above[made'] /\ s \in Path
        BY <1>1, <1>4, <2>5, <3>1, <4>1, TreeAssumption, Slots
      <4>3. Top \in Above[s]
        BY <4>1, <4>2, TreeAssumption
      <4> QED
        BY <2>7, <4>1, <4>3 DEF Hidden
    <3> QED
      BY <3>1
  <2> QED
    BY <1>3, <2>5, <2>8, <2>9 DEF Children, Elsewhere, Exists
<1> QED
  BY <1>5, <1>6

\* No file is written over a directory.
LEMMA NextCleared ==
  ASSUME Sounds, Sure, OwnFiles, Cleared, Quiets \/ Notes \/ Makes, pc \in Working, [Next]_vars,
         pc' \in Forward
  PROVE  Cleared'
<1>1. TypeInv /\ Course /\ Safe /\ stack \in Seq(Path)
  BY DEF Sure, LogsInv, TypeInv, TypeOK
<1>2. SUFFICES ASSUME pc' \in Between \cup {"claim", "open"}, stack' = <<>>, cur'.kind # "dir"
               PROVE  fs'[cur'.path] # Dir
  BY DEF Cleared
<1>3. /\ ~StartTask => step' = step /\ cur' = cur /\ pc \in Busy
      /\ StartTask => step' = step + 1 /\ pc = "task"
      /\ Plan' = Plan
  BY SameTask
<1>4. CASE StartTask
  <2>1. step + 1 \in DOMAIN Plan /\ cur' = Plan[step + 1] /\ Plan[step + 1] \in Shaped
    BY <1>1, <1>3, <1>4, PlanPlaces DEF StartTask, TypeInv, TypeOK, cur
  <2>2. pc' = FirstStep[cur'.do] /\ fs' = fs /\ cur' \in Task /\ cur' \in Image(Plan)
    BY <1>1, <1>4, <2>1, PlanPlaces DEF StartTask, Shaped, Goto
  <2>3. cur'.do \in {"put", "fetch", "menu", "manifest"}
    BY <1>2, <2>2 DEF FirstStep, Task, Between
  <2>4. cur'.path \in OwnPaths /\ cur'.path \notin Image(Slot)
    <3>1. cur'.path \in Image(Downloads) \cup Image(MenuFiles) \cup Image(Scripts) \cup Image(Manifests)
      BY <1>2, <2>1, <2>3 DEF Shaped
    <3> QED
      BY <3>1, SlotAssumption DEF OwnPaths
  <2> QED
    BY <2>2, <2>4 DEF OwnFiles
<1>5. CASE ~StartTask /\ (Quiets \/ Notes)
  <2>1. fs' = fs /\ cur' = cur
    BY <1>1, <1>3, <1>5, QuietWhat
  <2>2. \/ stack' = stack
        \/ pc' = "backup"
        \/ MoveAway /\ pc = "move"
    BY <1>1, StackSteps
  <2>3. ~MoveAway
    BY <1>5 DEF MoveAway, Quiets, Notes, Gate, MenusInstalled, PermitWrite,
       PickObsolete, BackupDescend, BackupReady, LogRollback, ParentsDone,
       RegisterMenu, Declare, Record, Claim, Unclaim, Reclaim, Fetched
  <2>4. stack' = stack
    BY <1>2, <2>2, <2>3 DEF Between
  <2>5. CASE PermitWrite
    BY <1>2, <2>1, <2>4, <2>5, Kinds DEF PermitWrite, Exists, Between, Goto
  <2>6. CASE ~PermitWrite
    <3>1. pc \in Between \cup {"claim", "open"}
      BY <1>1, <1>2, <1>5, <2>4, <2>6 DEF Quiets, Notes, Gate, MenusInstalled, PickObsolete, BackupDescend,
         BackupReady, LogRollback, ParentsDone, RegisterMenu, Declare, Record, Claim, Unclaim,
         Reclaim, Fetched, Between, Goto, Fatal, TypeInv, Control, Nested, Busy
    <3> QED
      BY <1>2, <2>1, <2>4, <3>1 DEF Cleared
  <2> QED
    BY <2>5, <2>6
<1>6. CASE ~StartTask /\ Makes
  <2>1. /\ Lays \/ Links \/ Opens \/ Fills \/ Stores
        /\ cur' = cur /\ cur.path \in Path
    BY <1>1, <1>6, AtWork
  <2>2. CASE Lays
    <3>1. stack' = stack /\ cur.kind # "dir" /\ made' \in Path /\ Elsewhere(made')
          /\ pc \in {"parents", "mkdir"} /\ made' \in Above[cur.path]
      BY <1>2, <2>1, <2>2 DEF Lays
    <3>2. pc = "parents"
      BY <1>1, <3>1 DEF Course, Busy
    <3>3. cur.path \notin Above[cur.path]
      BY <2>1, TreeAssumption
    <3> QED
      BY <1>2, <2>1, <3>1, <3>2, <3>3 DEF Elsewhere, Cleared, Between
  <2>3. CASE Links
    BY <2>1, <2>3, Kinds DEF Links
  <2>4. CASE Opens \/ Fills
    BY <1>2, <2>4 DEF Opens, Fills, Between
  <2>5. CASE Stores
    <3>1. pc' = "parents" /\ pc = "move" /\ stack' = Pop /\ stack # <<>> /\ cur.do # "obsolete"
      BY <1>1, <1>2, <2>5, StackSteps DEF Stores, Between
    <3>2. Len(stack) = 1 /\ Top = stack[1]
      <4>1. PICK n \in Nat : n = Len(stack) /\ n # 0
        BY <1>1, <3>1
      <4>2. Len(Pop) = n - 1
        BY <1>1, <4>1 DEF Pop
      <4>3. Len(Pop) = 0
        BY <1>2, <3>1
      <4> QED
        BY <4>1, <4>2, <4>3 DEF Top
    <3>3. stack[1] = cur.path
      BY <1>1, <3>1 DEF Safe, Backing, Nested
    <3>4. fs'[cur.path] = Absent
      BY <2>5, <3>2, <3>3 DEF Stores
    <3> QED
      BY <2>1, <3>4, Kinds
  <2> QED
    BY <2>1, <2>2, <2>3, <2>4, <2>5
<1> QED
  BY <1>4, <1>5, <1>6

\* The directories that were there stay, but where the package has files, and
\* none comes back.
LEMMA NextDirsGone ==
  ASSUME Sounds, Sure, Cleared, Sources, DirsGone, Quiets \/ Notes \/ Makes, pc \in Working,
         [Next]_vars, pc' \in Forward
  PROVE  DirsGone' /\ \A p \in Path : before[p] = Dir /\ fs'[p] = Dir => fs[p] = Dir
<1>1. TypeInv /\ Course /\ Safe /\ Leaving /\ Filled /\ stack \in Seq(Path)
  BY DEF Sure, LogsInv, DiskInv, TypeInv, TypeOK
<1>2. before' = before
  BY SameTask
<1>3. \A p : Under(p)' <=> Under(p)
  BY JobFixed DEF Under, Written
<1>4. SUFFICES ASSUME NEW p \in Path, before[p] = Dir
               PROVE  /\ fs'[p] # Dir => Under(p)
                      /\ fs'[p] = Dir => fs[p] = Dir
  BY <1>2, <1>3 DEF DirsGone
<1>5. CASE fs'[p] = fs[p]
  BY <1>4, <1>5 DEF DirsGone
<1>6. CASE fs'[p] # fs[p]
  <2>1. Makes
    BY <1>1, <1>6, QuietWhat
  <2>2. Lays \/ Links \/ Opens \/ Fills \/ Stores
    BY <1>1, <2>1, AtWork
  <2>3. CASE Lays
    <3>1. p = made' /\ ~Under(p)
      BY <1>1, <1>6, <2>3, DirPlaces DEF Lays, Elsewhere
    <3> QED
      BY <1>4, <1>6, <2>3, <3>1 DEF DirsGone, Lays
  <2>4. CASE Links \/ Opens \/ Fills
    <3>1. p = cur.path /\ fs'[p] # Dir
      BY <1>6, <2>4, Kinds DEF Links, Opens, Fills, Elsewhere
    <3>2. fs[p] # Dir
      <4>1. CASE Links
        BY <1>1, <2>1, <3>1, <4>1, MakesHow, Kinds DEF Exists
      <4>2. CASE Opens
        BY <1>1, <3>1, <4>2 DEF Cleared, Opens
      <4>3. CASE Fills
        BY <1>1, <3>1, <4>3, Kinds DEF Fills, Filled
      <4> QED
        BY <2>4, <4>1, <4>2, <4>3
    <3> QED
      BY <1>4, <3>1, <3>2 DEF DirsGone
  <2>5. CASE Stores
    <3>1. PICK s \in Image(Slot) :
            /\ s \in Path /\ Top # s /\ fs'[s] = fs[Top] /\ fs'[Top] = Absent
            /\ \A q \in Path : q # Top /\ q # s => fs'[q] = fs[q]
      BY <2>5 DEF Stores
    <3>2. p # s
      BY <1>1, <1>4, <3>1, Before, Kinds
    <3>3. p = Top
      BY <1>6, <3>1, <3>2
    <3>4. fs'[p] # Dir
      BY <3>1, <3>3, Kinds
    <3>5. CASE fs[Top] # Dir
      BY <1>4, <3>3, <3>4, <3>5 DEF DirsGone
    <3>6. CASE fs[Top] = Dir
      <4>1. Len(stack) \in DOMAIN stack /\ Top = stack[Len(stack)] /\ pc \in Busy
        BY <1>1, <2>5 DEF Stores, Busy
      <4>2. cur.do # "obsolete"
        BY <1>1, <3>6, <4>1 DEF Leaving
      <4> QED
        BY <3>3, <3>4, <4>1, <4>2 DEF Sources
    <3> QED
      BY <3>5, <3>6
  <2> QED
    BY <2>2, <2>3, <2>4, <2>5
<1> QED
  BY <1>5, <1>6

\* The manifest lists no directory that was there, but for those of the previous
\* version and the destination.
LEMMA NextDirsKept ==
  ASSUME Heirs, Sure, Cleared, Sources, DirsGone, DirsKept, MadeKept, Quiets \/ Notes \/ Makes,
         pc \in Working, [Next]_vars, pc' \in Forward
  PROVE  DirsKept' /\ MadeKept'
<1>1. TypeInv /\ Course /\ Safe /\ Filled /\ Sounds
  BY DEF Sure, LogsInv, DiskInv, Heirs
<1>2. before' = before /\ old' = old
  BY SameTask
<1>3. \A p \in Path : before[p] = Dir /\ fs'[p] = Dir => fs[p] = Dir
  BY <1>1, NextDirsGone
<1>4. ASSUME NEW p \in manifest', p \notin manifest, before[p] = Dir, fs'[p] = Dir
      PROVE  p \in old \cup {Dest}
  <2>1. \/ (Declare \/ Claim \/ Reclaim) /\ p = cur.path
        \/ Record /\ p = made
    BY <1>4 DEF Quiets, Notes, Makes, StartTask, Gate, MenusInstalled, PermitWrite, PickObsolete,
       BackupDescend, BackupReady, LogRollback, ParentsDone, RegisterMenu, Declare, Record, Claim,
       Unclaim, Reclaim, Fetched, MakeParent, MakeEntryDir, MakeLink, OpenFile, WriteFile, MoveAway,
       Enter, logs
  <2>2. fs' = fs
    BY <2>1 DEF Declare, Claim, Reclaim, Record
  <2>3. CASE Declare
    <3>1. cur \in Shaped /\ cur.do = "declare"
      BY <1>1, <2>3, Doing DEF Declare, Busy, Safe, Ready
    <3>2. cur.path \in OwnPaths
      BY <3>1 DEF Shaped, OwnPaths
    <3> QED
      BY <1>1, <1>4, <2>1, <2>3, <3>2, ScenarioAssumption DEF before, TypeInv, TypeOK, Declare, Record
  <2>4. CASE Claim
    <3>1. pc = "claim" /\ stack = <<>> /\ p = cur.path
      BY <1>1, <2>1, <2>4 DEF Claim, Record, TypeInv, Control, Busy, Nested, Between
    <3> QED
      BY <1>1, <1>4, <2>2, <3>1, FilePlaces DEF Cleared
  <2>5. CASE Reclaim
    <3>1. pc = "reclaim" /\ p = cur.path
      BY <2>1, <2>5 DEF Reclaim, Record
    <3> QED
      BY <1>1, <1>4, <2>2, <3>1, Kinds DEF Filled
  <2>6. CASE Record /\ p = made
    BY <1>4, <2>2, <2>6 DEF MadeKept, Record
  <2> QED
    BY <2>1, <2>3, <2>4, <2>5, <2>6
<1>5. DirsKept'
  <2>1. manifest' \subseteq Path
    BY <1>1, NextType DEF TypeInv, TypeOK
  <2> QED
    BY <1>2, <1>3, <1>4, <2>1 DEF DirsKept
<1>6. ASSUME pc' = "record", before[made'] = Dir, fs'[made'] = Dir
      PROVE  made' \in old \cup {Dest}
  <2>1. Makes
    BY <1>1, <1>6, QuietWhat DEF Notes, Declare, Record, Claim, Unclaim, Reclaim, Fetched, Goto
  <2>2. Lays \/ Links
    BY <1>1, <1>6, <2>1, AtWork DEF Opens, Fills, Stores
  <2>3. ~Links
    BY <1>6, Kinds DEF Links
  <2>4. made' \in Path /\ fs[made'] = Dir
    BY <1>3, <1>6, <2>2, <2>3 DEF Lays
  <2>5. pc = "mkdir" /\ made' = cur.path /\ cur.kind = "dir"
    BY <1>1, <2>1, <2>2, <2>3, <2>4, MakesHow, Kinds DEF Exists
  <2>6. pc \in Busy /\ cur.do \in {"install", "put"}
    BY <1>1, <2>5, Doing DEF Course, Busy, Route, Between, Nested, Writing, Task
  <2>7. cur \in Shaped
    BY <1>1, <2>6, Doing
  <2>8. CASE cur.do = "put"
    BY <2>5, <2>7, <2>8 DEF Shaped
  <2>9. CASE cur.do = "install"
    <3>1. cur \in Image(Scenarios[job].archive) \cup Image(Scenarios[job].control)
      BY <2>7, <2>9 DEF Shaped
    <3>2. Succeeds(Scenarios[job])
      BY <1>1 DEF Heirs, TypeInv, TypeOK
    <3> QED
      BY <1>6, <2>5, <3>1, <3>2 DEF Succeeds, before, old, oldDirs
  <2> QED
    BY <2>6, <2>8, <2>9
<1> QED
  BY <1>2, <1>5, <1>6 DEF MadeKept

\* A place from which something was moved away gets no directory, and no
\* download.
LEMMA NothingBuilt ==
  ASSUME Heirs, Sure, Sources, pc \in Busy, NEW i \in DOMAIN rollbacks, NEW p,
         \/ Lays /\ p = made'
         \/ cur.do = "fetch" /\ p = cur.path
  PROVE  rollbacks[i] # p
<1>1. TypeInv /\ Course /\ Safe /\ Sounds /\ Succeeds(Scenarios[job])
  BY DEF Sure, LogsInv, Heirs, TypeInv, TypeOK
<1>2. Under(rollbacks[i]) \/ (rollbacks[i] \in oldFiles /\ PastObsolete)
  BY DEF Sources
<1>3. /\ cur \in Shaped /\ cur \in Image(Plan) /\ step \in DOMAIN Plan /\ cur = Plan[step]
      /\ step \in 1 .. Len(Plan)
  BY <1>1, Doing
<1>4. CASE cur.do = "fetch" /\ p = cur.path
  <2>1. p \in Image(Downloads) /\ p \in OwnPaths /\ p \notin oldFiles
    BY <1>1, <1>3, <1>4, OwnPlaces DEF Shaped
  <2>2. ~Under(p)
    BY <1>1, <2>1, Town DEF Under, Laid
  <2> QED
    BY <1>2, <2>1, <2>2
<1>5. CASE Lays /\ p = made'
  <2>1. p \in Path /\ ~Under(p)
    BY <1>1, <1>5, DirPlaces
  <2>2. CASE stack # <<>>
    <3>1. p \in Hidden
      BY <1>5, <2>2 DEF Lays
    <3> QED
      BY <1>1, <3>1 DEF Safe, Backing
  <2>3. CASE stack = <<>> /\ PastObsolete
    <3>1. PICK k \in 1 .. step : k \in DOMAIN Plan /\ Plan[k].do = "obsolete"
      BY <2>3 DEF PastObsolete
    <3>2. cur.do # "obsolete" /\ cur.do \notin {"gate", "declare"}
      BY <1>1, <1>5, <2>3 DEF Lays, Course, Busy, Between, Route, Nested
    <3>3. k < step /\ step \in DOMAIN Plan
      BY <1>3, <3>1, <3>2
    <3>4. cur.do = "manifest" \/ cur \in Image(Scenarios[job].control)
      <4>1. /\ Scenarios[job].archive \in Seq(Entry) /\ Scenarios[job].control \in Seq(Entry)
            /\ Plan = Work(Scenarios[job].archive, Scenarios[job].control)
        BY <1>1, ScenarioAssumption DEF TypeInv, TypeOK, Plan
      <4>2. \A m, n \in DOMAIN Plan : m < n /\ Plan[m].do = "obsolete" =>
              Plan[n].do \in {"gate", "declare", "manifest"} \/ Plan[n] \in Image(Scenarios[job].control)
        BY <4>1, WorkAfter
      <4> QED
        BY <1>3, <3>1, <3>2, <3>3, <4>2
    <3>5. p \in LateRoads(Scenarios[job])
      <4>1. \/ p \in Above[cur.path]
            \/ p = cur.path /\ cur.kind = "dir"
        BY <1>5, <2>3 DEF Lays
      <4>2. CASE cur.do = "manifest"
        <5>1. cur.kind = "file" /\ cur.path \in Image(Manifests)
          BY <1>3, <4>2 DEF Shaped
        <5> QED
          BY <4>1, <5>1 DEF LateRoads
      <4>3. CASE cur \in Image(Scenarios[job].control)
        <5>1. cur.path \in {t.path : t \in Image(Scenarios[job].control)}
          BY <4>3
        <5>2. CASE p \in Above[cur.path]
          BY <5>1, <5>2 DEF LateRoads
        <5>3. CASE p = cur.path /\ cur.kind = "dir"
          <6>1. LateRoads(Scenarios[job]) =
                  (UNION {Above[q] : q \in {t.path : t \in Image(Scenarios[job].control)} \cup Image(Manifests)})
                    \cup {t.path : t \in {u \in Image(Scenarios[job].control) : u.kind = "dir"}}
            BY DEF LateRoads
          <6>2. \A v \in Image(Scenarios[job].control) : v.kind = "dir" =>
                  v.path \in {t.path : t \in {u \in Image(Scenarios[job].control) : u.kind = "dir"}}
            OBVIOUS
          <6>3. cur.path \in {t.path : t \in {u \in Image(Scenarios[job].control) : u.kind = "dir"}}
            BY <4>3, <5>3, <6>2, Zenon
          <6> QED
            BY <5>3, <6>1, <6>3, Zenon
        <5> QED
          BY <4>1, <5>2, <5>3
      <4> QED
        BY <3>4, <4>2, <4>3
    <3>6. p \notin oldFiles
      BY <1>1, <3>5 DEF Succeeds, oldFiles
    <3> QED
      BY <1>2, <2>1, <3>6
  <2> QED
    BY <1>2, <2>1, <2>2, <2>3
<1> QED
  BY <1>4, <1>5

\* What takes the place of something moved away is an object, and logged.
LEMMA NextVacated ==
  ASSUME Heirs, Sure, Standing, Quiets \/ Notes \/ Makes, pc \in Working, [Next]_vars,
         pc' \in Forward
  PROVE  Vacated'
<1>1. /\ TypeInv /\ Course /\ Safe /\ Sounds /\ Stored /\ Vacated /\ Sources
      /\ LogsInv /\ Filled
  BY DEF Sure, LogsInv, DiskInv, Standing, Heirs
<1>2. /\ Logged \subseteq Logged' /\ manifest' \subseteq Logged'
      /\ (pc \notin {"record", "reclaim"} => Logged = manifest)
  BY <1>1, LoggedGrows
<1>3. /\ DOMAIN rollbacks \subseteq DOMAIN Slot
      /\ \A i \in DOMAIN Slot : Slot[i] \in Path /\ Slot[i] \in Image(Slot)
      /\ \A i, j \in DOMAIN Slot : Slot[i] = Slot[j] => i = j
      /\ \A i \in DOMAIN rollbacks : rollbacks[i] \in Path /\ rollbacks[i] \notin Image(Slot)
  BY <1>1, Files DEF Safe, Backing, Hidden
<1>4. CASE (Quiets \/ Notes) /\ ~LogRollback
  <2>1. fs' = fs
    BY <1>1, <1>4, QuietWhat
  <2>2. rollbacks' = rollbacks
    BY <1>4 DEF Quiets, Notes, StartTask, Gate, MenusInstalled, PermitWrite, PickObsolete,
       BackupDescend, BackupReady, ParentsDone, RegisterMenu, Declare, Record, Claim, Unclaim,
       Reclaim, Fetched, logs
  <2> QED
    BY <1>1, <1>2, <2>1, <2>2 DEF Vacated, Held, Exists
<1>5. CASE LogRollback
  <2>1. fs' = fs /\ rollbacks' = Append(rollbacks, Top) /\ SlotsLeft
    BY <1>5 DEF LogRollback
  <2>4. rollbacks \in Seq(Path)
    BY <1>1 DEF TypeInv, TypeOK
  <2>2. PICK n \in Nat : /\ n = Len(rollbacks) /\ DOMAIN rollbacks = 1 .. n
                         /\ DOMAIN rollbacks' = 1 .. n + 1
                         /\ \A i \in 1 .. n : rollbacks'[i] = rollbacks[i]
    BY <2>1, <2>4
  <2>3. ~Exists(Slot[n + 1])
    BY <1>1, <2>1, <2>2, Files DEF SlotsLeft, Stored, SlotsFree
  <2> QED
    BY <1>1, <1>2, <2>1, <2>2, <2>3 DEF Vacated, Held, Exists
<1>6. CASE Makes
  <2>1. /\ Lays \/ Links \/ Opens \/ Fills \/ Stores
        /\ rollbacks' = rollbacks /\ pc \in Busy /\ cur' = cur
    BY <1>1, <1>6, AtWork, MakesHow
  <2>2. SUFFICES ASSUME NEW i \in DOMAIN rollbacks, Held(i)', Exists(rollbacks[i])'
                 PROVE  IsObject(fs'[rollbacks[i]]) /\ rollbacks[i] \in Logged'
    BY <2>1 DEF Vacated
  <2>3. CASE fs'[rollbacks[i]] = fs[rollbacks[i]] /\ Held(i)
    BY <1>1, <1>2, <2>1, <2>2, <2>3 DEF Vacated, Exists
  <2>4. CASE Lays
    <3>1. rollbacks[i] # made' /\ made' \in Path /\ made' \notin Image(Slot)
      BY <1>1, <2>1, <2>4, NothingBuilt, DirPlaces DEF OwnPaths
    <3> QED
      BY <1>3, <2>2, <2>3, <2>4, <3>1 DEF Lays, Elsewhere, Held, Exists
  <2>5. CASE Links \/ Opens \/ Fills
    <3>1. Elsewhere(cur.path) /\ cur.path \notin Image(Slot) /\ cur.path \in Path
      BY <1>1, <2>5, FilePlaces DEF Links, Opens, Fills
    <3>2. Held(i)
      BY <1>3, <2>1, <2>2, <3>1 DEF Elsewhere, Held, Exists
    <3>3. CASE rollbacks[i] # cur.path
      BY <1>3, <2>3, <3>1, <3>2, <3>3 DEF Elsewhere
    <3>4. CASE rollbacks[i] = cur.path
      <4>1. IsObject(fs'[cur.path])
        BY <2>5, Kinds DEF Links, Opens, Fills, IsObject
      <4>2. cur.path \in Logged'
        <5>1. CASE Links
          <6>1. pc' = "record" /\ made' = cur.path
            BY <5>1 DEF Links
          <6> QED
            BY <6>1 DEF Logged, Undone
        <5>2. CASE Opens
          <6>1. cur.do # "fetch"
            BY <1>1, <2>1, <2>2, <3>4, NothingBuilt
          <6>2. manifest' = manifest
            BY <1>1, <1>6, AtWork
          <6> QED
            BY <1>1, <1>2, <5>2, <6>1, <6>2 DEF Opens, LogsInv, Claimed
        <5>3. CASE Fills
          <6>1. Exists(cur.path)
            BY <1>1, <5>3, Kinds DEF Fills, Filled, Exists
          <6> QED
            BY <1>1, <1>2, <3>2, <3>4, <6>1 DEF Vacated
        <5> QED
          BY <2>5, <5>1, <5>2, <5>3
      <4> QED
        BY <3>4, <4>1, <4>2
    <3> QED
      BY <3>3, <3>4
  <2>6. CASE Stores
    <3>1. PICK s \in Image(Slot) :
            /\ s \in Path /\ Top # s /\ fs'[s] = fs[Top] /\ fs'[Top] = Absent
            /\ \A q \in Path : q # Top /\ q # s => fs'[q] = fs[q]
      BY <2>6 DEF Stores
    <3>2. rollbacks[i] # Top /\ rollbacks[i] # s
      BY <1>3, <2>1, <2>2, <3>1 DEF Exists
    <3>3. fs'[rollbacks[i]] = fs[rollbacks[i]]
      BY <1>3, <3>1, <3>2
    <3>4. CASE Held(i)
      BY <2>3, <3>3, <3>4
    <3>5. CASE ~Held(i)
      <4>1. /\ Len(rollbacks) \in DOMAIN rollbacks /\ rollbacks[Len(rollbacks)] = Top
            /\ fs' = Moved(Top, Slot[Len(rollbacks)]) /\ fs[Slot[Len(rollbacks)]] = Absent
            /\ Exists(Top) /\ pc = "move"
        BY <1>1, <1>6, <2>6, MakesHow DEF Stores
      <4>2. i # Len(rollbacks) /\ Slot[i] # Slot[Len(rollbacks)]
        BY <1>3, <3>2, <4>1
      <4>3. Top \in Path /\ Top \notin Image(Slot)
        BY <4>1, TopIsOld
      <4>4. fs'[Slot[i]] = fs[Slot[i]]
        BY <1>1, <1>3, <4>1, <4>2, <4>3, MovedValue DEF TypeInv, TypeOK
      <4> QED
        BY <2>1, <2>2, <3>5, <4>4 DEF Held, Exists
    <3> QED
      BY <3>4, <3>5
  <2> QED
    BY <2>1, <2>4, <2>5, <2>6
<1> QED
  BY <1>4, <1>5, <1>6

\* What is moved away to be replaced is replaced, before the task is over.
LEMMA NextReplaced ==
  ASSUME Sounds, Sure, Sources, Replaced, Quiets \/ Notes \/ Makes, pc \in Working, [Next]_vars,
         pc' \in Forward
  PROVE  Replaced'
<1>1. /\ TypeInv /\ Course /\ Safe /\ Leaving /\ stack \in Seq(Path) /\ rollbacks \in Seq(Path)
  BY DEF Sure, LogsInv, DiskInv, TypeInv, TypeOK
<1>2. /\ ~StartTask => step' = step /\ cur' = cur /\ pc \in Busy
      /\ StartTask => pc = "task"
  BY SameTask
<1>3. Dropped' = Dropped /\ Logged \subseteq Logged' /\ manifest' \subseteq Logged'
  <2>1. oldFiles' = oldFiles /\ Written' = Written
    BY JobFixed, SameTask DEF Written
  <2> QED
    BY <1>1, <2>1, LoggedGrows DEF Dropped
<1>4. ASSUME pc \in Replacing, cur.do = "install", cur.kind # "dir"
      PROVE  (pc' \in Replacing /\ cur' = cur) \/ cur.path \in Logged'
  <2>1. pc \in Busy /\ pc # "task" /\ cur' = cur /\ ~StartTask
    BY <1>2, <1>4 DEF Replacing, Nested, Between, Busy
  <2>2. CASE Quiets
    <3>1. CASE ParentsDone
      BY <1>4, <2>1, <3>1 DEF ParentsDone, Create, Goto, Replacing, Nested, Between, Course,
         Busy, Shaped, Task
    <3>2. CASE BackupDescend \/ BackupReady \/ LogRollback
      BY <2>1, <3>2 DEF BackupDescend, BackupReady, LogRollback, Goto, Replacing, Nested, Between, ctl
    <3> QED
      BY <1>4, <2>1, <2>2, <3>1, <3>2 DEF Quiets, Gate, MenusInstalled, PermitWrite, PickObsolete,
         RegisterMenu, Replacing, Nested, Between
  <2>3. CASE Notes
    <3>1. Record \/ Claim
      BY <1>4, <2>3 DEF Notes, Declare, Unclaim, Reclaim, Fetched, Replacing, Nested, Between
    <3>2. CASE Record
      BY <1>3, <2>1, <3>2 DEF Record, Enter, Goto, Replacing, Between
    <3>3. CASE Claim
      BY <1>3, <3>3 DEF Claim, Enter
    <3> QED
      BY <3>1, <3>2, <3>3
  <2>4. CASE Makes
    <3>1. Lays \/ Links \/ Opens \/ Fills \/ Stores
      BY <1>1, <2>4, AtWork
    <3>2. CASE Lays \/ Links
      BY <2>1, <3>2 DEF Lays, Links, Replacing, Between
    <3>3. ~Opens /\ ~Fills
      BY <1>4 DEF Opens, Fills, Replacing, Nested, Between
    <3>4. CASE Stores
      <4>1. MoveAway
        BY <2>4, <3>4 DEF Stores, Makes, MakeParent, MakeEntryDir, MakeLink, OpenFile, WriteFile
      <4>2. pc' \in {"backup", "parents"}
        BY <1>4, <3>4, <4>1 DEF MoveAway, Stores, Goto, Fatal
      <4> QED
        BY <2>1, <4>2 DEF Replacing, Nested, Between
    <3> QED
      BY <3>1, <3>2, <3>3, <3>4
  <2> QED
    BY <2>1, <2>2, <2>3, <2>4
<1>5. ASSUME NEW i \in DOMAIN rollbacks
      PROVE  \/ rollbacks[i] \in Dropped' \cup Logged'
             \/ /\ pc' \in Replacing /\ rollbacks[i] = cur'.path
                /\ cur'.do = "install" /\ cur'.kind # "dir"
  BY <1>3, <1>4 DEF Replaced
<1>6. \A i \in DOMAIN rollbacks' :
        \/ rollbacks'[i] \in Dropped' \cup Logged'
        \/ /\ pc' \in Replacing /\ rollbacks'[i] = cur'.path
           /\ cur'.do = "install" /\ cur'.kind # "dir"
  <2>1. CASE LogRollback
    <3>1. /\ rollbacks' = Append(rollbacks, Top) /\ pc = "log" /\ stack # <<>> /\ ~StartTask
          /\ pc' = "move"
      BY <1>1, <2>1 DEF LogRollback, TypeInv, Control, Nested, ctl, StartTask, Goto
    <3>2. Len(stack) \in DOMAIN stack /\ Top = stack[Len(stack)] /\ pc \in Busy /\ cur' = cur
      BY <1>1, <1>2, <3>1 DEF Top
    <3>3. Top \in Dropped \/ (Top = cur.path /\ cur.do = "install" /\ cur.kind # "dir")
      BY <1>1, <3>1, <3>2 DEF Replaced, Course
    <3>4. \A i \in DOMAIN rollbacks' : (i \in DOMAIN rollbacks /\ rollbacks'[i] = rollbacks[i]) \/ rollbacks'[i] = Top
      BY <1>1, <3>1
    <3> QED
      BY <1>3, <1>5, <3>1, <3>2, <3>3, <3>4 DEF Replacing, Nested
  <2>2. CASE ~LogRollback
    <3>1. rollbacks' = rollbacks
      BY <2>2 DEF Quiets, Notes, Makes, StartTask, Gate, MenusInstalled, PermitWrite, PickObsolete,
         BackupDescend, BackupReady, ParentsDone, RegisterMenu, Declare, Record, Claim, Unclaim,
         Reclaim, Fetched, MakeParent, MakeEntryDir, MakeLink, OpenFile, WriteFile, MoveAway, logs
    <3> QED
      BY <1>5, <3>1
  <2> QED
    BY <2>1, <2>2
<1>7. ASSUME pc' \in Busy, NEW i \in DOMAIN stack'
      PROVE  stack'[i] \in Dropped \/ (stack'[i] = cur'.path /\ cur'.do = "install")
  <2>1. CASE stack' = stack /\ (StartTask => stack = <<>>)
    BY <1>2, <1>7, <2>1 DEF Replaced
  <2>2. CASE PermitWrite /\ stack' = <<cur.path>> /\ pc = "permit" /\ cur.kind # "dir"
    <3>1. cur.do = "install" /\ ~StartTask
      BY <1>1, <2>2 DEF Safe, Ready, StartTask
    <3> QED
      BY <1>2, <1>7, <2>2, <3>1
  <2>3. CASE PickObsolete /\ pc = "obsolete" /\ \E p \in Obsolete : stack' = <<p>>
    BY <1>7, <2>3 DEF Obsolete, Dropped
  <2>4. CASE /\ BackupDescend /\ pc = "backup" /\ stack # <<>> /\ fs[Top] = Dir
             /\ \E c \in Children(Top) : stack' = Append(stack, c)
    <3>1. PICK c \in Children(Top) : stack' = Append(stack, c)
      BY <2>4
    <3>2. ~StartTask /\ pc \in Busy
      BY <2>4 DEF StartTask, Busy
    <3>3. Len(stack) \in DOMAIN stack /\ Top = stack[Len(stack)] /\ Top \in Path
      BY <1>1, <2>4 DEF Top
    <3>4. cur.do = "install" /\ cur.kind # "dir" /\ cur \in Image(Plan)
      BY <1>1, <2>4, <3>2, <3>3, Doing DEF Leaving, Course
    <3>5. c \in Path /\ Above[c] = Above[Top] \cup {Top}
      BY <3>1, <3>3, TreeAssumption DEF Children
    <3>6. Under(Top)
      BY <3>2, <3>3, <3>4 DEF Sources
    <3>7. c \in Dropped
      BY <3>5, <3>6 DEF Under, Dropped
    <3>8. stack'[i] = c \/ (i \in DOMAIN stack /\ stack'[i] = stack[i])
      BY <1>1, <1>7, <3>1, <3>5
    <3> QED
      BY <1>2, <3>2, <3>7, <3>8 DEF Replaced
  <2>5. CASE MoveAway /\ pc = "move" /\ stack' = Pop /\ stack # <<>>
    <3>1. i \in DOMAIN stack /\ stack'[i] = stack[i]
      BY <1>1, <1>7, <2>5 DEF Pop
    <3>2. ~StartTask /\ pc \in Busy
      BY <2>5 DEF StartTask, Busy
    <3> QED
      BY <1>2, <3>1, <3>2 DEF Replaced
  <2> QED
    BY <1>1, <2>1, <2>2, <2>3, <2>4, <2>5, StackSteps
<1> QED
  BY <1>3, <1>6, <1>7 DEF Replaced

\* As long as nothing is reverted, every step keeps what a revert will need.
LEMMA NextStanding ==
  ASSUME Heirs, pc \in Working => Sure, Standing, OwnFiles, [Next]_vars, fate' = "open", pc' \in Ahead
  PROVE  Standing'
<1>1. /\ pc' \in Forward
      /\ \/ UNCHANGED vars
         \/ pc \in Working /\ (Quiets \/ Notes \/ Makes)
         \/ /\ pc = "task" /\ pc' = "show"
            /\ UNCHANGED <<job, fs, manifest, seen, rollbacks, downloads, step, stack, made>>
  BY AheadSteps
<1>2. CASE UNCHANGED vars
  BY <1>2 DEF Standing, Stored, SlotsFree, HeldAre, OneEach, Rooted, Roofs, Roof, Held, Exists, ParentOK,
     vars, Vacated, Sources, Replaced, Dropped, TopEmptied, Cleared, DirsGone, DirsKept, MadeKept, Logged, Under, Written,
     PastObsolete, Plan, cur, before, old, oldFiles, oldDirs, Children, Top
<1>3. CASE pc \in Working /\ (Quiets \/ Notes \/ Makes)
  <2>1. Sounds /\ Sure /\ Sources /\ Replaced /\ TopEmptied /\ Cleared /\ DirsGone /\ DirsKept /\ MadeKept
    BY <1>3 DEF Heirs, Standing
  <2>2. Stored' /\ Vacated'
    BY <1>1, <1>3, <2>1, NextStored, NextVacated
  <2>3. Sources' /\ Replaced' /\ TopEmptied' /\ Cleared'
    BY <1>1, <1>3, <2>1, NextSources, NextReplaced, NextTopEmptied, NextCleared
  <2>4. DirsGone' /\ DirsKept' /\ MadeKept'
    BY <1>1, <1>3, <2>1, NextDirsGone, NextDirsKept
  <2> QED
    BY <2>2, <2>3, <2>4 DEF Standing
<1>4. CASE /\ pc = "task" /\ pc' = "show"
           /\ UNCHANGED <<job, fs, manifest, seen, rollbacks, downloads, step, stack, made>>
  <2>1. Stored'
    BY <1>4, SameStored DEF Standing
  <2>2. Logged' = Logged
    BY <1>4 DEF Logged, Undone
  <2>3. Vacated'
    BY <1>4, <2>2 DEF Standing, Vacated, Held, Exists
  <2> QED
    BY <1>4, <2>1, <2>2, <2>3 DEF Standing, Sources, Replaced, Dropped, TopEmptied, Cleared, DirsGone,
       DirsKept, MadeKept, Under, Written, PastObsolete, Plan, before, old, oldFiles, oldDirs, Between,
       Busy, Replacing, Nested
<1> QED
  BY <1>1, <1>2, <1>3, <1>4

-----------------------------------------------------------------------------
(* The revert: the deletions.                                              *)

\* As long as tasks are done, every object the run has put at a protected path is
\* in the manifest.
LEMMA WorkLogged ==
  ASSUME Sounds, Sure, pc \in Forward
  PROVE  /\ AllLogged /\ downloads \subseteq Image(Downloads)
         /\ pc \notin {"record", "reclaim"} => Logged = manifest
<1>1. /\ TypeInv /\ Course /\ Safe /\ Logging /\ Manifested
  BY DEF Sure, LogsInv, DiskInv
<1>2. /\ Logged = manifest \cup (IF pc = "reclaim" THEN {cur.path} ELSE {})
                           \cup (IF pc = "record" THEN {made} ELSE {})
  BY DEF Logged, Undone, Forward, Working, Cleaning, Busy
<1>3. downloads \subseteq Image(Downloads) /\ Image(Downloads) \subseteq OwnPaths
  BY <1>1 DEF Manifested, OwnPaths
<1>4. ASSUME NEW p \in Protected, fs[p].kind \in {"new", "partial"}
      PROVE  p \in Logged
  <2>1. p \in Path /\ p \notin OwnPaths
    BY DEF Protected
  <2>2. p \in manifest \/ InHand(p)
    BY <1>1, <1>3, <1>4, <2>1 DEF Logging
  <2>3. CASE InHand(p)
    <3>1. CASE p = made /\ pc = "record"
      BY <1>2, <3>1
    <3>2. CASE p = cur.path /\ pc = "reclaim"
      BY <1>2, <3>2
    <3>3. CASE p = cur.path /\ (pc = "fetched" \/ (pc = "write" /\ cur.do = "fetch"))
      <4>1. pc \in Busy /\ cur.do = "fetch"
        BY <1>1, <3>3 DEF Safe, Ready, Busy
      <4>2. cur.path \in Image(Downloads)
        BY <1>1, <4>1, Doing DEF Shaped
      <4> QED
        BY <1>3, <2>1, <3>3, <4>2
    <3> QED
      BY <2>3, <3>1, <3>2, <3>3 DEF InHand
  <2> QED
    BY <1>2, <2>2, <2>3
<1> QED
  BY <1>2, <1>3, <1>4 DEF AllLogged

\* What is only deleted, and no rollback file, leaves the rest as it should be.
LEMMA LessSpared ==
  ASSUME TypeInv, Vacated, DirsKept, NewPlaces, OwnFiles, AllLogged,
         UNCHANGED <<job, manifest, rollbacks>>, Logged' = Logged,
         \A q \in Path : fs'[q] = fs[q] \/ (fs'[q] = Absent /\ q \notin Image(Slot))
  PROVE  Vacated' /\ DirsKept' /\ NewPlaces' /\ OwnFiles' /\ AllLogged'
<1>1. before' = before /\ old' = old /\ Written' = Written
  BY Fixed DEF Written
<1>2. Absent.kind = "absent" /\ Absent # Dir
  BY Kinds
<1>3. \A i \in DOMAIN rollbacks : i \in DOMAIN Slot /\ rollbacks[i] \in Path
  BY Files
<1>4. \A i \in DOMAIN Slot : fs'[Slot[i]] = fs[Slot[i]]
  BY Files
<1>5. ASSUME NEW i \in DOMAIN rollbacks, Held(i)', Exists(rollbacks[i])'
      PROVE  IsObject(fs'[rollbacks[i]]) /\ rollbacks[i] \in Logged
  <2>1. Held(i)
    BY <1>3, <1>4, <1>5 DEF Held, Exists
  <2>2. fs'[rollbacks[i]] = fs[rollbacks[i]] /\ Exists(rollbacks[i])
    BY <1>3, <1>5 DEF Exists
  <2> QED
    BY <2>1, <2>2 DEF Vacated
<1>6. Vacated'
  BY <1>5 DEF Vacated
<1>7. manifest \subseteq Path /\ OwnPaths \subseteq Path /\ Protected \subseteq Path
  BY SequenceAssumption DEF TypeInv, TypeOK, OwnPaths, Image, Protected
<1>8. DirsKept'
  BY <1>1, <1>2, <1>7 DEF DirsKept
<1>9. NewPlaces' /\ OwnFiles' /\ AllLogged'
  BY <1>1, <1>2, <1>7 DEF NewPlaces, OwnFiles, AllLogged
<1> QED
  BY <1>6, <1>8, <1>9

\* A fatal error starts a revert with everything in its place.
LEMMA Falls ==
  ASSUME Faults = {}, Sounds, Sure, Standing, Built, pc \in Working, [Next]_vars,
         pc' \notin Forward
  PROVE  pc' = "revert" /\ Sparing'
<1>1. /\ TypeInv /\ Course /\ Safe /\ Filled /\ Stored /\ Vacated /\ DirsKept /\ Cleared
      /\ NewPlaces /\ OwnFiles
  BY DEF Sure, LogsInv, DiskInv, Standing, Built
<1>2. /\ pc' = "revert" /\ pc \notin {"record", "reclaim"}
      /\ UNCHANGED <<job, manifest, seen, rollbacks, downloads, fate, step>>
      /\ \/ fs' = fs
         \/ /\ pc \in {"open", "write"} /\ Removable(cur.path)
            /\ fs' = [fs EXCEPT ![cur.path] = Absent]
  BY <1>1, FatalSteps
<1>3. AllLogged /\ downloads \subseteq Image(Downloads) /\ Logged = manifest
  BY <1>2, WorkLogged DEF Forward
<1>4. Logged' = Logged
  BY <1>2, <1>3 DEF Logged, Undone
<1>5. Doomed'
  BY <1>2 DEF Doomed
<1>6. CASE fs' = fs
  <2>1. Stored'
    BY <1>1, <1>2, <1>6, SameStored
  <2>2. Vacated' /\ DirsKept' /\ NewPlaces' /\ OwnFiles' /\ AllLogged'
    BY <1>1, <1>2, <1>3, <1>4, <1>6, LessSpared
  <2> QED
    BY <1>2, <1>3, <1>5, <2>1, <2>2 DEF Sparing
<1>7. CASE /\ pc \in {"open", "write"} /\ Removable(cur.path)
           /\ fs' = [fs EXCEPT ![cur.path] = Absent]
  <2>1. PICK a : a = cur.path
    OBVIOUS
  <2>2. a \in Path /\ a \notin Image(Slot) /\ cur.kind # "dir"
    BY <1>1, <1>7, <2>1, FilePlaces
  <2>3. fs'[a] = Absent /\ Elsewhere(a) /\ Removable(a)
    BY <1>1, <1>7, <2>1, <2>2 DEF Elsewhere, TypeInv, TypeOK
  <2>4. fs[a] # Dir
    <3>1. CASE pc = "open"
      <4>1. stack = <<>>
        BY <1>1, <3>1 DEF TypeInv, Control, Busy, Nested, Between
      <4> QED
        BY <1>1, <2>1, <2>2, <3>1, <4>1 DEF Cleared
    <3>2. CASE pc = "write"
      BY <1>1, <2>1, <3>2, Kinds DEF Filled
    <3> QED
      BY <1>7, <3>1, <3>2
  <2>5. Stored'
    BY <1>1, <1>2, <2>2, <2>3, <2>4, PutStored
  <2>6. Vacated' /\ DirsKept' /\ NewPlaces' /\ OwnFiles' /\ AllLogged'
    BY <1>1, <1>2, <1>3, <1>4, <2>2, <2>3, LessSpared DEF Elsewhere
  <2> QED
    BY <1>2, <1>3, <1>5, <2>5, <2>6 DEF Sparing
<1> QED
  BY <1>2, <1>6, <1>7

\* As long as a rollback file holds something the destination is not empty, and
\* the directories above it are none that were moved away.
LEMMA HeldInDest ==
  ASSUME TypeInv, Stored, Safe, NEW i \in DOMAIN rollbacks, Held(i)
  PROVE  /\ Children(Dest) # {} /\ rollbacks[i] \notin Above[Dest]
         /\ rollbacks[i] \in Path /\ rollbacks[i] \notin Image(Slot)
<1>1. i \in DOMAIN Slot /\ Slot[i] \in Path /\ Slot[i] \in Image(Slot) /\ Exists(Slot[i])
      /\ rollbacks[i] \in Path
  BY Files DEF Held
<1>2. /\ Root \notin Path /\ RollbackDir \in Path /\ ScratchDir \in Path /\ MetaDir \in Path
      /\ Dest \in Path /\ Dir # Absent
  BY TreeAssumption, Kinds DEF ScratchDirs
<1>3. fs[RollbackDir] = Dir
  BY <1>1, <1>2, LayoutAssumption DEF Stored, Rooted, ParentOK
<1>4. fs[ScratchDir] = Dir
  BY <1>2, <1>3, LayoutAssumption DEF Stored, Rooted, ParentOK, Exists
<1>5. fs[MetaDir] = Dir
  BY <1>2, <1>4, LayoutAssumption DEF Stored, Rooted, ParentOK, Exists
<1>6. MetaDir \in Children(Dest)
  BY <1>2, <1>5, LayoutAssumption DEF Children, Exists
<1>7. Above[Dest] \subseteq Hidden
  <2>1. Dest \in Above[Slot[i]]
    BY <1>1, Below
  <2>2. Above[Dest] \subseteq Above[Slot[i]]
    BY <1>1, <2>1, TreeAssumption
  <2> QED
    BY <1>1, <2>2 DEF Hidden
<1>8. rollbacks[i] \notin Hidden
  BY DEF Safe, Backing
<1> QED
  BY <1>1, <1>6, <1>7, <1>8 DEF Hidden

\* Nothing is taken or torn when nothing is injected.
LEMMA AllOwed ==
  ASSUME Faults = {}, Sounds, TypeInv
  PROVE  Owed = Protected /\ Taken = {} /\ torn = {}
BY NothingTaken DEF Owed, TypeInv, Control

\* The manifest lists none of the user's links.
LEMMA CondemnedIs ==
  ASSUME Faults = {}, Sounds, TypeInv, Safe, pc \notin Undoing
  PROVE  Condemned = manifest \ {p \in old : fs[p] = Dir}
<1>1. ASSUME NEW p \in manifest, NEW l \in links, fs[p] = Prior(l)
      PROVE  FALSE
  <2>1. Needed(p)
    BY <1>1, AllOwed, LinksAreProtected, Kinds DEF Needed
  <2> QED
    BY <2>1 DEF Safe, Expendable
<1> QED
  BY <1>1 DEF Condemned, IsDirectory

\* No directory is deleted that a rollback file will need: those that were there
\* are not in the list.
LEMMA NextSparing ==
  ASSUME Faults = {}, Sounds, TypeInv, Safe, Queues, Sparing, pc \in Deleting, [Next]_vars,
         pc' \in Deleting
  PROVE  Sparing'
<1>1. /\ Stored /\ Vacated /\ DirsKept /\ NewPlaces /\ OwnFiles /\ AllLogged
      /\ downloads \subseteq Image(Downloads) /\ Doomed
  BY DEF Sparing
<1>2. /\ UNCHANGED <<job, manifest, seen, rollbacks, downloads, fate, step, stack, made>>
      /\ \/ fs' = fs /\ pc' \in {pc, "exit22"} /\ (pc # "revert" => rest' = rest)
         \/ fs' = fs /\ pc = "revert" /\ pc' = "rmdownloads" /\ rest' = downloads
         \/ fs' = fs /\ pc = "rmdownloads" /\ pc' = "rmfiles" /\ rest' = Condemned
         \/ fs' = fs /\ pc = "rmfiles" /\ pc' = "rollback" /\ rest = {}
         \/ \E a \in rest : /\ pc \in {"rmdownloads", "rmfiles"} /\ pc' = pc
                            /\ rest' = rest \ {a} /\ fs' = Deleted(a)
  BY EarlySteps DEF Early, Deleting
<1>3. Logged' = Logged /\ Logged = manifest
  BY <1>2 DEF Logged, Undone, Deleting
<1>4. before' = before /\ old' = old
  BY <1>2, Fixed
<1>5. CASE fs' = fs
  <2>1. Stored'
    BY <1>1, <1>2, <1>5, SameStored
  <2>2. Vacated' /\ DirsKept' /\ NewPlaces' /\ OwnFiles' /\ AllLogged'
    BY <1>1, <1>2, <1>3, <1>5, LessSpared
  <2>3. Doomed'
    <3> SUFFICES ASSUME pc' = "rmfiles"
                 PROVE  /\ \A p \in manifest : IsObject(fs[p]) => p \in rest' \cup Above[Dest]
                        /\ \A p \in rest' : fs[p] = Dir => p \notin old
      BY <1>2, <1>4, <1>5 DEF Doomed
    <3>1. CASE pc = "rmdownloads"
      <4>1. rest' = manifest \ {p \in old : fs[p] = Dir}
        <5>1. CASE rest' = Condemned
          BY <5>1, CondemnedIs DEF Deleting, Undoing, Ended
        <5>2. CASE \E a \in rest : pc' = pc
          BY <3>1, <5>2
        <5> QED
          BY <1>2, <3>1, <5>1, <5>2
      <4> QED
        BY <4>1, Kinds DEF IsObject
    <3>2. CASE pc = "rmfiles"
      <4>1. CASE rest' = rest
        BY <1>1, <3>2, <4>1 DEF Doomed
      <4>2. CASE \E a \in rest : rest' = rest \ {a} /\ fs' = Deleted(a)
        <5>1. PICK a \in rest : rest' = rest \ {a} /\ fs' = Deleted(a)
          BY <4>2
        <5>2. IsObject(fs[a]) => a \in Above[Dest]
          <6> SUFFICES ASSUME IsObject(fs[a]), a \notin Above[Dest] PROVE FALSE
            OBVIOUS
          <6>1. fs' = [fs EXCEPT ![a] = Absent] /\ a \in Path
            BY <5>1 DEF Deleted, Removable, TypeInv, TypeOK
          <6>2. fs[a] = Absent
            BY <1>5, <6>1 DEF TypeInv, TypeOK
          <6> QED
            BY <6>2, Kinds DEF IsObject
        <5> QED
          BY <1>1, <3>2, <5>1, <5>2 DEF Doomed
      <4> QED
        BY <1>2, <3>2, <4>1, <4>2
    <3>3. pc # "revert"
      BY <1>2
    <3> QED
      BY <3>1, <3>2, <3>3 DEF Deleting
  <2> QED
    BY <1>1, <1>2, <2>1, <2>2, <2>3 DEF Sparing
<1>6. CASE fs' # fs
  <2>1. PICK a \in rest : /\ pc \in {"rmdownloads", "rmfiles"} /\ pc' = pc
                          /\ rest' = rest \ {a} /\ fs' = Deleted(a)
    BY <1>2, <1>6
  <2>2. a \notin Above[Dest] /\ Removable(a) /\ fs' = [fs EXCEPT ![a] = Absent] /\ a \in Path
    BY <1>6, <2>1 DEF Deleted, TypeInv, TypeOK
  <2>3. fs'[a] = Absent /\ Elsewhere(a)
    BY <2>2 DEF Elsewhere, TypeInv, TypeOK
  <2>4. a \notin Image(Slot) /\ (pc = "rmdownloads" => fs[a] # Dir) /\ (pc = "rmfiles" => a \in manifest)
    <3>1. CASE pc = "rmdownloads"
      <4>1. a \in Image(Downloads)
        BY <1>1, <2>1, <3>1 DEF Queues
      <4>2. a \in OwnPaths /\ a \notin Image(Slot)
        BY <4>1, OwnPlaces
      <4> QED
        BY <1>1, <3>1, <4>2 DEF OwnFiles
    <3>2. CASE pc = "rmfiles"
      BY <2>1, <3>2 DEF Queues, Safe, Expendable
    <3> QED
      BY <2>1, <3>1, <3>2
  <2>5. ASSUME fs[a] = Dir, NEW i \in DOMAIN rollbacks, Held(i), Parent[rollbacks[i]] = a
        PROVE  FALSE
    <3>1. pc = "rmfiles" /\ a \in manifest
      BY <2>1, <2>4, <2>5
    <3>2. rollbacks[i] \in Path /\ Children(Dest) # {}
      BY <1>1, <2>5, HeldInDest
    <3>3. before[rollbacks[i]] # Absent
      BY <1>1, <2>5 DEF Stored, HeldAre, Held, Exists
    <3>4. a # Root
      BY <2>2, TreeAssumption
    <3>5. before[a] = Dir
      BY <2>5, <3>2, <3>3, <3>4, ParentBefore
    <3>6. a \in old \cup {Dest}
      BY <1>1, <2>5, <3>1, <3>5 DEF DirsKept
    <3>7. a \notin old
      BY <1>1, <2>1, <2>5, <3>1 DEF Doomed
    <3>8. Children(a) = {}
      BY <2>2, <2>5, Kinds DEF Removable, IsObject
    <3> QED
      BY <3>2, <3>6, <3>7, <3>8
  <2>6. Stored'
    BY <1>1, <1>2, <2>2, <2>3, <2>4, <2>5, PutStored
  <2>7. Vacated' /\ DirsKept' /\ NewPlaces' /\ OwnFiles' /\ AllLogged'
    BY <1>1, <1>2, <1>3, <2>3, <2>4, LessSpared DEF Elsewhere
  <2>8. Doomed'
    <3> SUFFICES ASSUME pc = "rmfiles"
                 PROVE  /\ \A p \in manifest : IsObject(fs'[p]) => p \in rest' \cup Above[Dest]
                        /\ \A p \in rest' : fs'[p] = Dir => p \notin old
      BY <1>2, <1>4, <2>1 DEF Doomed
    <3>1. manifest \subseteq Path /\ rest \subseteq Path
      BY DEF TypeInv, TypeOK
    <3>2. Absent # Dir /\ ~IsObject(Absent)
      BY Kinds DEF IsObject
    <3> QED
      BY <1>1, <2>1, <2>3, <3>1, <3>2 DEF Doomed, Elsewhere
  <2> QED
    BY <1>1, <1>2, <2>6, <2>7, <2>8 DEF Sparing
<1> QED
  BY <1>5, <1>6

\* When the deletions are over nothing is left of what the run has put, and
\* nothing is in the way of what is restored.
LEMMA Vacates ==
  ASSUME Faults = {}, Sounds, TypeInv, Safe, Sparing, pc \in Deleting, [Next]_vars,
         pc' = "rollback"
  PROVE  Stored' /\ Vacant' /\ AllLogged'
<1>1. /\ Stored /\ Vacated /\ NewPlaces /\ AllLogged /\ Doomed
  BY DEF Sparing
<1>2. /\ UNCHANGED <<job, manifest, rollbacks, fs>> /\ pc = "rmfiles" /\ rest = {}
  BY EarlySteps DEF Early, Deleting
<1>3. Logged = manifest
  BY <1>2 DEF Logged, Undone
<1>4. Stored'
  BY <1>1, <1>2, SameStored
<1>5. Vacant'
  <2>1. ASSUME NEW i \in DOMAIN rollbacks, Held(i), Exists(rollbacks[i])
        PROVE  FALSE
    <3>1. rollbacks[i] \notin Above[Dest]
      BY <1>1, <2>1, HeldInDest
    <3>2. IsObject(fs[rollbacks[i]]) /\ rollbacks[i] \in manifest
      BY <1>1, <1>3, <2>1 DEF Vacated
    <3> QED
      BY <1>1, <1>2, <3>1, <3>2 DEF Doomed
  <2> QED
    BY <1>2, <2>1 DEF Vacant, Held, Exists
<1>6. \A p \in Protected : fs[p].kind \notin {"new", "partial"}
  <2> SUFFICES ASSUME NEW p \in Protected, fs[p].kind \in {"new", "partial"} PROVE FALSE
    OBVIOUS
  <2>1. p \in Path /\ p \notin OwnPaths
    BY DEF Protected
  <2>2. p \in manifest /\ IsObject(fs[p])
    BY <1>1, <1>3 DEF AllLogged, IsObject
  <2>3. p \in Above[Dest]
    BY <1>1, <1>2, <2>2 DEF Doomed
  <2>4. p \in Streets
    <3>1. DestTask \in Image(Plan) /\ DestTask.path = Dest
      BY PlanShape DEF DestTask
    <3> QED
      BY <2>3, <3>1, Town
  <2>5. p \in Written
    BY <1>1, <2>1 DEF NewPlaces
  <2> QED
    BY <2>4, <2>5, Town
<1> QED
  BY <1>2, <1>4, <1>5, <1>6 DEF AllLogged

-----------------------------------------------------------------------------
(* What a revert would leave. *)

\* A path whose old object is in a rollback file gets it back.
LEMMA HolderView ==
  ASSUME TypeInv, Stored, NEW i \in DOMAIN rollbacks, Held(i)
  PROVE  RevertView(rollbacks[i]) = before[rollbacks[i]]
<1> DEFINE p == rollbacks[i]
<1>1. DOMAIN rollbacks = 1 .. Len(rollbacks) /\ Len(rollbacks) \in Nat
  BY Files
<1>2. Holders(p) = {i}
  <2>1. \A j \in Holders(p) : j = i
    BY <1>1 DEF Holders, Held, Stored, OneEach
  <2>2. i \in Holders(p)
    BY <1>1 DEF Holders, Held
  <2> QED
    BY <2>1, <2>2
<1> HIDE DEF p
<1>3. (CHOOSE k \in Holders(p) : \A j \in Holders(p) : k <= j) = i
  BY <1>1, <1>2
<1>4. \E k \in Holders(p) : \A j \in Holders(p) : k <= j
  BY <1>1, <1>2
<1>5. RevertView(p) = fs[Slot[i]]
  BY <1>3, <1>4 DEF RevertView
<1> QED
  BY <1>5 DEF p, Stored, HeldAre

\* Any other path loses what the logs list.
LEMMA OtherView ==
  ASSUME TypeInv, NEW p, \A i \in DOMAIN rollbacks : Held(i) => rollbacks[i] # p
  PROVE  RevertView(p) = IF p \in Logged THEN Absent ELSE fs[p]
<1>1. Holders(p) = {}
  BY Files DEF Holders, Held
<1> QED
  BY <1>1 DEF RevertView

\* What a revert would leave is what was there, as long as the rollback files
\* hold it and what the run has put is logged.
LEMMA ViewsAreBefore ==
  ASSUME Faults = {}, Sounds, TypeInv, Safe, Homes, Stored, AllLogged,
         pc \notin Undoing \/ pc = "rollback"
  PROVE  Views
<1> SUFFICES ASSUME NEW p \in Protected
             PROVE  ObjectOf(RevertView(p)) = ObjectOf(before[p])
  BY DEF Views, Viewed, Undoing, Ended
<1>1. /\ p \in Path /\ p \notin OwnPaths /\ p \notin Image(Slot)
      /\ before[p] \in {Absent, Dir, Prior(p)} /\ fs[p] \in Node
  BY Before DEF Protected, OwnPaths, TypeInv, TypeOK
<1>2. CASE \E i \in DOMAIN rollbacks : Held(i) /\ rollbacks[i] = p
  BY <1>2, HolderView
<1>3. CASE \A i \in DOMAIN rollbacks : Held(i) => rollbacks[i] # p
  <2>1. RevertView(p) = IF p \in Logged THEN Absent ELSE fs[p]
    BY <1>3, OtherView
  <2>2. ASSUME IsObject(before[p]) PROVE fs[p] = before[p] /\ before[p] = Prior(p)
    <3>1. before[p] = Prior(p)
      BY <1>1, <2>2, Before
    <3>2. CASE \E i \in DOMAIN Slot : fs[Slot[i]] = before[p]
      <4>1. PICK i \in DOMAIN Slot : fs[Slot[i]] = before[p]
        BY <3>2
      <4>2. Exists(Slot[i])
        BY <3>1, <4>1, Kinds DEF Exists
      <4>3. i \in DOMAIN rollbacks /\ Held(i)
        BY <4>1, <4>2 DEF Stored, SlotsFree, Held
      <4>4. before[rollbacks[i]] = Prior(p) /\ rollbacks[i] \in Path
        BY <3>1, <4>1, <4>3, Files DEF Stored, HeldAre
      <4>5. rollbacks[i] = p
        BY <4>4, Before, Kinds
      <4> QED
        BY <1>3, <4>3, <4>5
    <3> QED
      BY <2>2, <3>1, <3>2, AllOwed DEF Safe, Saved
  <2>3. ASSUME fs[p].kind = "prior" PROVE fs[p] = before[p]
    BY <1>1, <2>3 DEF Homes
  <2>4. CASE p \in Logged
    <3>1. ~Needed(p)
      BY <2>4 DEF Logged, Undone, Undoing, Safe, Expendable, Ready
    <3>2. ~IsObject(before[p])
      BY <2>2, <3>1, Kinds, AllOwed DEF Needed
    <3> QED
      BY <2>1, <2>4, <3>2, Kinds DEF ObjectOf, IsObject
  <2>5. CASE p \notin Logged
    <3>1. fs[p].kind \notin {"new", "partial"}
      BY <2>5 DEF AllLogged
    <3>2. IsObject(fs[p]) => fs[p] = before[p]
      BY <2>3, <3>1 DEF IsObject
    <3> QED
      BY <2>1, <2>2, <2>5, <3>2 DEF ObjectOf
  <2> QED
    BY <2>4, <2>5
<1> QED
  BY <1>2, <1>3

-----------------------------------------------------------------------------
(* The revert: what is restored.                                           *)

\* Where nothing fails, a step that restores is one of these.
LEMMA UndoSteps ==
  ASSUME Faults = {}, pc \in {"rollback", "rmscratch"}, [Next]_vars
  PROVE  UNCHANGED vars \/ Rollback \/ RevertScratch
<1> USE DEF Goto, Fatal, logs, menuv, ctl
<1>1. ~(Install \/ Cleanup \/ Signal \/ Kill \/ Ending)
  BY DEF Install, StartTask, Gate, MenusInstalled, Declare, PermitWrite, PickObsolete,
         BackupDescend, BackupReady, LogRollback, MoveAway, MakeParent, ParentsDone, MakeEntryDir,
         MakeLink, Record, Claim, OpenFile, WriteFile, Unclaim, Reclaim, Fetched, RegisterMenu,
         Cleanup, FinishStages, DropSlots, DropDownloads, DropScratch, DropDirs, Forget, Sweep,
         Show, Signal, Kill, Ending, Ended
<1>2. ~(RevertMenus \/ RevertDownloads \/ RevertFiles)
  BY DEF RevertMenus, RevertDownloads, RevertFiles, Sweep
<1> QED
  BY <1>1, <1>2 DEF Next, Run, Revert

\* A rollback file that holds something is moved back; one that is empty is
\* passed over.
LEMMA Restored ==
  ASSUME Faults = {}, TypeInv, Safe, Stored, Vacant, Rollback, rollbacks # <<>>,
         NEW n, n = Len(rollbacks)
  PROVE  /\ n \in DOMAIN rollbacks /\ job' = job /\ pc' = pc
         /\ rollbacks' = SubSeq(rollbacks, 1, n - 1)
         /\ IF Held(n) THEN fs' = Moved(Slot[n], rollbacks[n]) /\ ParentOK(rollbacks[n])
            ELSE fs' = fs
<1>1. rollbacks \in Seq(Path) /\ n \in DOMAIN rollbacks /\ n # 0 /\ DOMAIN rollbacks = 1 .. n /\ n \in Nat
  BY DEF TypeInv, TypeOK
<1>2. /\ job' = job /\ pc' = pc /\ rollbacks' = SubSeq(rollbacks, 1, n - 1)
      /\ \/ CanMove(Slot[n], rollbacks[n]) /\ fs' = Moved(Slot[n], rollbacks[n])
         \/ ~CanMove(Slot[n], rollbacks[n]) /\ MoveFailed(Slot[n], rollbacks[n])
  BY <1>1 DEF Rollback
<1>3. CASE Held(n)
  <2>1. Exists(Slot[n]) /\ fs[rollbacks[n]] = Absent
    BY <1>3 DEF Held, Vacant, Exists
  <2>2. ParentOK(rollbacks[n])
    <3>1. Roof(n)
      BY <1>1, <1>3 DEF Stored, Roofs
    <3> QED
      BY <1>1, <3>1 DEF Roof, ParentOK
  <2>3. CanMove(Slot[n], rollbacks[n])
    BY <2>1, <2>2 DEF CanMove
  <2> QED
    BY <1>1, <1>2, <1>3, <2>2, <2>3
<1>4. CASE ~Held(n)
  BY <1>1, <1>2, <1>4 DEF Held, CanMove, MoveFailed
<1> QED
  BY <1>3, <1>4

\* What remains of the rollback files is as it should be.
LEMMA NextUndone ==
  ASSUME Faults = {}, TypeInv, Safe, Stored, Vacant, AllLogged, pc = "rollback", Rollback,
         rollbacks # <<>>
  PROVE  Stored' /\ Vacant' /\ AllLogged' /\ pc' = pc
<1>1. PICK n \in Nat : n = Len(rollbacks)
  BY Files
<1>2. /\ n \in DOMAIN rollbacks /\ job' = job /\ pc' = pc
      /\ rollbacks' = SubSeq(rollbacks, 1, n - 1)
      /\ IF Held(n) THEN fs' = Moved(Slot[n], rollbacks[n]) /\ ParentOK(rollbacks[n])
         ELSE fs' = fs
  BY <1>1, Restored
<1>3. /\ DOMAIN rollbacks = 1 .. n /\ DOMAIN rollbacks \subseteq DOMAIN Slot
      /\ \A i \in DOMAIN Slot : Slot[i] \in Path /\ Slot[i] \in Image(Slot)
      /\ \A i, j \in DOMAIN Slot : Slot[i] = Slot[j] => i = j
      /\ \A i \in DOMAIN rollbacks : rollbacks[i] \in Path /\ rollbacks[i] \notin Image(Slot)
  BY <1>1, Files DEF Safe, Backing, Hidden
<1>4. /\ DOMAIN rollbacks' = 1 .. (n - 1)
      /\ \A i \in 1 .. (n - 1) : rollbacks'[i] = rollbacks[i]
  <2>1. rollbacks \in Seq(Path) /\ n >= 1
    BY <1>2, <1>3 DEF TypeInv, TypeOK
  <2> QED
    BY <1>1, <1>2, <2>1
<1>5. before' = before
  BY <1>2, Fixed
<1>6. Logged = {} /\ Logged' = {}
  BY <1>2 DEF Logged, Undone
<1>7. CASE ~Held(n)
  <2>1. fs' = fs /\ ~Exists(Slot[n])
    BY <1>2, <1>7 DEF Held
  <2>2. \A i : Held(i)' => Held(i) /\ i \in 1 .. (n - 1) /\ rollbacks'[i] = rollbacks[i] /\ i \in DOMAIN rollbacks
    BY <1>3, <1>4, <2>1 DEF Held, Exists
  <2>3. SlotsFree'
    BY <1>3, <1>4, <2>1 DEF Stored, SlotsFree, Exists
  <2>4. HeldAre' /\ OneEach' /\ Vacant'
    BY <1>3, <1>4, <1>5, <2>1, <2>2 DEF Stored, HeldAre, OneEach, Vacant, Exists
  <2>5. Rooted'
    BY <2>1 DEF Stored, Rooted, Exists, ParentOK
  <2>6. Roofs'
    <3> SUFFICES ASSUME NEW i, Held(i), i \in 1 .. (n - 1), rollbacks'[i] = rollbacks[i], i \in DOMAIN rollbacks
                 PROVE  Roof(i)'
      BY <2>2 DEF Roofs
    <3>1. Roof(i)
      BY DEF Stored, Roofs
    <3>2. \A j \in DOMAIN rollbacks : Exists(Slot[j]) => j \in DOMAIN rollbacks' /\ rollbacks'[j] = rollbacks[j]
      BY <1>3, <1>4, <2>1
    <3> QED
      BY <2>1, <3>1, <3>2 DEF Roof, Exists
  <2> QED
    BY <1>2, <1>6, <2>1, <2>3, <2>4, <2>5, <2>6 DEF Stored, AllLogged
<1>8. CASE Held(n)
  <2>1. PICK h, t : h = Slot[n] /\ t = rollbacks[n]
    OBVIOUS
  <2>2. h \in Path /\ t \in Path /\ h \in Image(Slot) /\ t \notin Image(Slot) /\ h # t
    BY <1>2, <1>3, <2>1
  <2>3. /\ fs' = Moved(h, t) /\ ParentOK(t) /\ fs[t] = Absent /\ fs[h] = before[t]
    BY <1>2, <1>8, <2>1 DEF Vacant, Exists, Stored, HeldAre
  <2>4. /\ fs'[h] = Absent /\ fs'[t] = fs[h]
        /\ \A r \in Path : r # t /\ r # h => fs'[r] = fs[r]
    BY <2>2, <2>3, MovedValue DEF TypeInv, TypeOK
  <2>5. \A i \in DOMAIN Slot : i # n => fs'[Slot[i]] = fs[Slot[i]]
    BY <1>2, <1>3, <2>1, <2>2, <2>4
  <2>6. \A i : Held(i)' => /\ Held(i) /\ i \in 1 .. (n - 1) /\ rollbacks'[i] = rollbacks[i]
                           /\ i \in DOMAIN rollbacks /\ i # n
                           /\ fs'[Slot[i]] = fs[Slot[i]]
    BY <1>3, <1>4, <2>5 DEF Held, Exists
  <2>7. SlotsFree'
    <3>1. ASSUME NEW i \in DOMAIN Slot, i \notin 1 .. (n - 1)
          PROVE  fs'[Slot[i]] = Absent
      <4>1. CASE i = n
        BY <2>1, <2>4, <4>1
      <4>2. CASE i # n
        <5>1. i \notin DOMAIN rollbacks
          BY <1>3, <3>1, <4>2
        <5> QED
          BY <2>5, <3>1, <4>2, <5>1 DEF Stored, SlotsFree, Exists
      <4> QED
        BY <4>1, <4>2
    <3> QED
      BY <1>4, <3>1 DEF SlotsFree, Exists
  <2>8. HeldAre' /\ OneEach'
    BY <1>5, <2>6 DEF Stored, HeldAre, OneEach
  <2>9. \A i : Held(i)' => rollbacks[i] # t
    BY <1>2, <1>8, <2>1, <2>6 DEF Stored, OneEach
  <2>10. Vacant'
    <3> SUFFICES ASSUME NEW i, Held(i)'
                 PROVE  fs'[rollbacks'[i]] = Absent
      BY DEF Vacant, Exists
    <3>1. rollbacks'[i] = rollbacks[i] /\ rollbacks[i] \in Path /\ rollbacks[i] # t /\ rollbacks[i] # h
      BY <1>3, <2>2, <2>6, <2>9
    <3>2. fs[rollbacks[i]] = Absent
      BY <2>6 DEF Vacant, Exists
    <3> QED
      BY <2>4, <3>1, <3>2
  <2>11. \A q \in Path : Parent[q] # Root /\ fs[Parent[q]] = Dir => fs'[Parent[q]] = Dir
    <3> SUFFICES ASSUME NEW q \in Path, Parent[q] # Root, fs[Parent[q]] = Dir
                 PROVE  fs'[Parent[q]] = Dir
      OBVIOUS
    <3>1. Parent[q] \in Path /\ Parent[q] # h
      BY <2>2, ParentIs
    <3>2. Parent[q] # t
      BY <2>3, Kinds
    <3> QED
      BY <2>4, <3>1, <3>2
  <2>12. Rooted'
    <3> SUFFICES ASSUME NEW q \in Path, fs'[q] # Absent, Parent[q] # Root
                 PROVE  fs'[Parent[q]] = Dir
      BY DEF Rooted, Exists, ParentOK
    <3>1. CASE q = t
      BY <2>3, <2>11, <3>1 DEF ParentOK
    <3>2. CASE q # t
      BY <2>4, <2>11, <3>2 DEF Stored, Rooted, Exists, ParentOK
    <3> QED
      BY <3>1, <3>2
  <2>13. Roofs'
    <3> SUFFICES ASSUME NEW i, Held(i)'
                 PROVE  Roof(i)'
      BY DEF Roofs
    <3>1. Roof(i) /\ rollbacks'[i] = rollbacks[i] /\ rollbacks[i] \in Path
      BY <1>3, <2>6 DEF Stored, Roofs
    <3>2. CASE Parent[rollbacks[i]] # Root /\ fs[Parent[rollbacks[i]]] = Dir
      BY <2>11, <3>1, <3>2 DEF Roof
    <3>3. CASE \E j \in DOMAIN rollbacks : /\ j > i /\ rollbacks[j] = Parent[rollbacks[i]]
                                           /\ Exists(Slot[j]) /\ fs[Slot[j]] = Dir
      <4>1. PICK j \in DOMAIN rollbacks : /\ j > i /\ rollbacks[j] = Parent[rollbacks[i]]
                                          /\ Exists(Slot[j]) /\ fs[Slot[j]] = Dir
        BY <3>3
      <4>2. CASE j = n
        BY <2>1, <2>4, <3>1, <4>1, <4>2 DEF Roof
      <4>3. CASE j # n
        <5>1. j \in DOMAIN rollbacks' /\ rollbacks'[j] = rollbacks[j] /\ fs'[Slot[j]] = fs[Slot[j]]
          BY <1>3, <1>4, <2>5, <4>1, <4>3
        <5> QED
          BY <3>1, <4>1, <5>1 DEF Roof, Exists
      <4> QED
        BY <4>2, <4>3
    <3> QED
      BY <3>1, <3>2, <3>3 DEF Roof
  <2>14. AllLogged'
    <3>1. before[t].kind \notin {"new", "partial"}
      BY <2>2, Before, Kinds
    <3>2. \A q \in Protected : q \in Path /\ q # h
      BY <2>2, ProtectedIsNoSlot
    <3> QED
      BY <1>6, <2>3, <2>4, <3>1, <3>2 DEF AllLogged
  <2> QED
    BY <1>2, <2>7, <2>8, <2>10, <2>12, <2>13, <2>14 DEF Stored
<1> QED
  BY <1>7, <1>8

-----------------------------------------------------------------------------
(* The atomic installation: the invariant. *)

\* As long as the run is undecided a revert would leave what was there.
LEMMA AlwaysViews ==
  ASSUME Faults = {}, Heirs, AtomicInv, fate = "open"
  PROVE  /\ Views
         /\ pc \in Ahead => Sure
<1>1. /\ Sounds /\ TypeInv /\ Homes /\ Queues /\ (pc \notin Ended => Safe)
  BY DEF Heirs, AtomicInv, CleanInv, Base, SafeInv, NeverInv
<1>2. ASSUME pc \in Ahead
      PROVE  Sure /\ Stored /\ AllLogged /\ pc \in Forward
  <2>1. pc \in Forward /\ pc \notin Ended
    BY <1>2 DEF Ahead, Forward, Working, Busy, Ended
  <2>2. Sure
    BY <1>1, <2>1 DEF AtomicInv, CleanInv, Clean, Sure
  <2> QED
    BY <1>1, <1>2, <2>1, <2>2, WorkLogged DEF AtomicInv, Standing
<1>3. CASE pc \in Ahead \cup Deleting \cup {"rollback"}
  <2>1. Stored /\ AllLogged
    BY <1>2, <1>3 DEF AtomicInv, Sparing
  <2>2. pc \notin Ended /\ (pc \notin Undoing \/ pc = "rollback")
    BY <1>3 DEF Ahead, Deleting, Undoing, Ended, Working, Busy
  <2> QED
    BY <1>1, <1>2, <2>1, <2>2, ViewsAreBefore
<1>4. CASE pc \in Halting
  <2>1. pc \notin Ahead
    BY <1>4 DEF Halting, Ahead, Working, Busy
  <2> QED
    BY <1>4, <2>1 DEF AtomicInv
<1> QED
  BY <1>3, <1>4 DEF AtomicInv

\* A run starts with everything in its place.
LEMMA InitAtomic ==
  ASSUME Heirs, Init
  PROVE  AtomicInv
<1>1. /\ CleanInv /\ TypeInv /\ pc = "task" /\ step = 0 /\ stack = <<>> /\ fs = before
      /\ manifest = {} /\ rollbacks = <<>> /\ downloads = {} /\ fate = "open"
  BY InitClean DEF Heirs, CleanInv, Base, Init
<1>2. /\ \A p \in Path : before[p] \in {Absent, Dir, Prior(p)}
      /\ \A p \in Image(Slot) : before[p] = Absent
      /\ \A p \in OwnPaths : before[p] # Dir
      /\ \A p \in Path : before[p] # Absent /\ Parent[p] # Root => before[Parent[p]] = Dir
  BY <1>1, ParentBefore, ScenarioAssumption DEF before, TypeInv, TypeOK
<1>3. Built
  BY <1>1, <1>2, Kinds DEF Built, NewPlaces, NewWhole, OwnFiles
<1>4. Stored
  <2>1. \A i : i \notin DOMAIN rollbacks
    BY <1>1
  <2>2. SlotsFree
    BY <1>1, <1>2, Files DEF SlotsFree, Exists
  <2>3. Rooted
    BY <1>1, <1>2 DEF Rooted, Exists, ParentOK
  <2> QED
    BY <2>1, <2>2, <2>3 DEF Stored, HeldAre, OneEach, Roofs
<1>5. Standing
  <2>1. \A i : i \notin DOMAIN rollbacks /\ i \notin DOMAIN stack
    BY <1>1
  <2>2. DirsGone /\ DirsKept /\ MadeKept
    BY <1>1 DEF DirsGone, DirsKept, MadeKept
  <2>3. TopEmptied /\ Cleared
    BY <1>1 DEF TopEmptied, Cleared, Between
  <2> QED
    BY <1>4, <2>1, <2>2, <2>3 DEF Standing, Vacated, Sources, Replaced
<1> QED
  BY <1>1, <1>3, <1>5 DEF AtomicInv, Decided, Ahead, Deleting, Halting, Working, Busy

\* Once it is decided, or over, nothing is installed or reverted any more.
LEMMA LateSteps ==
  ASSUME Faults = {}, pc \in Cleaning \cup {"show", "done"}
  PROVE  ~(Install \/ Revert \/ Signal \/ Kill)
BY DEF Cleaning, Install, StartTask, Gate, MenusInstalled, Declare, PermitWrite,
   PickObsolete, BackupDescend, BackupReady, LogRollback, MoveAway, MakeParent, ParentsDone,
   MakeEntryDir, MakeLink, Record, Claim, OpenFile, WriteFile, Unclaim, Reclaim, Fetched,
   RegisterMenu, Revert, RevertMenus, RevertDownloads, RevertFiles, Rollback, RevertScratch,
   Sweep, Signal, Kill

\* Once it is decided a run goes to its end.
LEMMA NextDecided ==
  ASSUME Faults = {}, TypeInv, SafeInv, Committed, Decided, [Next]_vars
  PROVE  Decided'
<1> SUFFICES ASSUME fate' # "open"
             PROVE  pc' \in Cleaning \cup {"show", "done"}
  BY DEF Decided
<1>1. /\ pc \notin Busy
      /\ fate = "open" => \/ pc = "task" /\ FinishStages /\ rollbacks' = <<>>
                          \/ pc = "show" /\ Show
  BY WhenGivenUp
<1>2. CASE fate = "open"
  <2>1. CASE FinishStages
    BY <1>2, <2>1 DEF FinishStages, Goto, Cleaning
  <2>2. CASE Show
    BY <2>2 DEF Show, Goto
  <2> QED
    BY <1>1, <1>2, <2>1, <2>2
<1>3. CASE fate # "open"
  <2>1. pc \in Cleaning \cup {"show", "done"}
    BY <1>3 DEF Decided
  <2>2. ~(Install \/ Revert \/ Signal \/ Kill)
    BY <2>1, LateSteps
  <2>3. CASE Cleanup
    BY <2>1, <2>3 DEF Cleanup, FinishStages, DropSlots, DropDownloads, DropScratch, DropDirs,
       Forget, Show, Sweep, Goto, Cleaning
  <2>4. CASE Ending \/ UNCHANGED vars
    BY <2>1, <2>4 DEF Ending, vars
  <2> QED
    BY <2>2, <2>3, <2>4 DEF Next, Run
<1> QED
  BY <1>2, <1>3

\* The steps of a run that stays undecided.
LEMMA OpenSteps ==
  ASSUME Faults = {}, TypeInv, SafeInv', [Next]_vars, fate = "open", fate' = "open",
         pc \in Ahead \cup Deleting \cup {"rollback"} \cup Halting
  PROVE  \/ UNCHANGED vars
         \/ pc \in Ahead /\ pc' \in Ahead
         \/ pc \in Working /\ pc' \notin Forward
         \/ pc \in Deleting /\ pc' \in Deleting
         \/ pc \in Deleting /\ pc' = "rollback"
         \/ pc \in Deleting /\ pc' = "exit22" /\ fs' = fs
         \/ pc = "rollback" /\ Rollback
         \/ pc = "rmscratch" /\ RevertScratch
<1>1. CASE pc \in Ahead
  <2>1. pc' \notin Cleaning
    BY DEF SafeInv, Safe, Expendable, Cleaning, Ended
  <2>2. CASE pc' \in Forward
    BY <1>1, <2>1, <2>2 DEF Forward, Ahead
  <2>3. CASE pc' \notin Forward /\ pc \in Working
    BY <2>3
  <2>4. CASE pc = "show"
    <3>1. ~(Install \/ Revert \/ Signal \/ Kill)
      BY <2>4, LateSteps
    <3>2. ~Cleanup
      BY <2>4 DEF Cleanup, FinishStages, DropSlots, DropDownloads, DropScratch, DropDirs,
         Forget, Show, Sweep
    <3> QED
      BY <3>1, <3>2 DEF Next, Run, Ending
  <2> QED
    BY <1>1, <2>2, <2>3, <2>4 DEF Ahead
<1>2. CASE pc \in Deleting
  <2>1. pc \in Early
    BY <1>2 DEF Early, Deleting
  <2>2. \/ fs' = fs /\ pc' \in {pc, "exit22"}
        \/ pc' \in {"rmdownloads", "rmfiles", "rollback"}
        \/ pc' = pc
    BY <2>1, EarlySteps
  <2> QED
    BY <1>2, <2>2 DEF Deleting
<1>3. CASE pc \in {"rollback", "rmscratch"}
  <2>1. pc = "rollback" => ~RevertScratch
    BY DEF RevertScratch, Sweep
  <2>2. pc = "rmscratch" => ~Rollback
    BY DEF Rollback
  <2> QED
    BY <1>3, <2>1, <2>2, UndoSteps
<1>4. CASE pc \in {"exit22", "exit23"}
  BY <1>4, EndStays DEF Ended
<1> QED
  BY <1>1, <1>2, <1>3, <1>4 DEF Halting

\* With no rollback left to undo, a revert leaves what there is.
LEMMA PlainView ==
  ASSUME pc \in {"rmscratch", "exit23"}, rollbacks = <<>>
  PROVE  \A p : Viewed(p) = fs[p]
<1>1. Logged = {} /\ 1 .. Len(rollbacks) = {}
  BY DEF Logged, Undone
<1>2. \A p : Holders(p) = {}
  BY <1>1 DEF Holders
<1> QED
  BY <1>1, <1>2 DEF Viewed, RevertView

\* The same after a step.
LEMMA PlainViewNext ==
  ASSUME pc' \in {"rmscratch", "exit23"}, rollbacks' = <<>>
  PROVE  \A p : Viewed(p)' = fs'[p]
<1>1. Logged' = {} /\ 1 .. Len(rollbacks') = {}
  BY DEF Logged, Undone
<1>2. \A p : Holders(p)' = {}
  BY <1>1 DEF Holders
<1> QED
  BY <1>1, <1>2 DEF Viewed, RevertView

\* A revert that stops at a menu item leaves the logs and the disk.
LEMMA NextStopped ==
  ASSUME Views, pc \in Deleting, pc' = "exit22", UNCHANGED <<job, fs, manifest, rollbacks>>
  PROVE  Views'
<1>1. Logged' = Logged
  BY DEF Logged, Undone, Deleting
<1>2. \A p : Viewed(p)' = Viewed(p)
  BY <1>1 DEF Viewed, RevertView, Holders, Exists, Deleting
<1>3. before' = before
  BY Fixed
<1> QED
  BY <1>2, <1>3 DEF Views

\* After the last restore the scratch directories go, and no object with them.
LEMMA NextScratch ==
  ASSUME Faults = {}, TypeInv, Queues, Views, rollbacks = <<>>, [Next]_vars,
         \/ pc = "rollback" /\ Rollback
         \/ pc = "rmscratch" /\ RevertScratch
  PROVE  Views' /\ pc' \in {"rmscratch", "exit23"} /\ rollbacks' = <<>>
<1>1. job' = job /\ before' = before
  BY JobFixed, Fixed
<1>2. ASSUME pc = "rollback", Rollback
      PROVE  Views' /\ pc' = "rmscratch" /\ rollbacks' = <<>>
  <2>1. pc' = "rmscratch" /\ rollbacks' = <<>> /\ fs' = fs
    BY <1>2 DEF Rollback, Goto
  <2>2. \A p : Viewed(p) = fs[p]
    <3>1. Logged = {} /\ 1 .. Len(rollbacks) = {}
      BY <1>2 DEF Logged, Undone
    <3>2. \A p : Holders(p) = {}
      BY <3>1 DEF Holders
    <3> QED
      BY <1>2, <3>1, <3>2 DEF Viewed, RevertView
  <2>3. \A p : Viewed(p)' = fs[p]
    BY <2>1, PlainViewNext
  <2> QED
    BY <1>1, <2>1, <2>2, <2>3 DEF Views
<1>3. ASSUME pc = "rmscratch", RevertScratch
      PROVE  Views' /\ pc' \in {"rmscratch", "exit23"} /\ rollbacks' = <<>>
  <2>1. pc' \in {"rmscratch", "exit23"} /\ rollbacks' = <<>>
    BY <1>3 DEF RevertScratch, Sweep, Goto, logs
  <2>2. \/ fs' = fs
        \/ \E a \in ScratchDirs : fs' = Deleted(a)
    BY <1>3 DEF RevertScratch, Sweep, Queues, TryDelete, Latest
  <2>3. \A a \in ScratchDirs : ObjectOf(before[a]) = Absent
    BY Before DEF ObjectOf, IsObject, Absent, Dir
  <2>4. \A p \in Protected : ObjectOf(fs[p]) = ObjectOf(before[p])
    BY <1>3, PlainView DEF Views
  <2>5. \A p \in Protected : ObjectOf(fs'[p]) = ObjectOf(before[p])
    <3>1. ASSUME NEW a \in ScratchDirs, fs' = Deleted(a), NEW p \in Protected
          PROVE  ObjectOf(fs'[p]) = ObjectOf(before[p])
      <4>1. fs'[p] = fs[p] \/ (p = a /\ fs'[p] = Absent)
        BY <3>1 DEF Deleted, TypeInv, TypeOK, Protected
      <4> QED
        BY <2>3, <2>4, <3>1, <4>1 DEF ObjectOf
    <3> QED
      BY <2>2, <2>4, <3>1
  <2>6. \A p : Viewed(p)' = fs'[p]
    BY <2>1, PlainViewNext
  <2>7. \A p : ObjectOf(Viewed(p))' = ObjectOf(fs'[p])
    BY <2>6 DEF ObjectOf
  <2>8. \A p : ObjectOf(before[p])' = ObjectOf(before[p])
    BY <1>1 DEF ObjectOf
  <2> QED
    BY <2>1, <2>5, <2>7, <2>8 DEF Views
<1> QED
  BY <1>2, <1>3

\* Nothing changes when nothing changes.
LEMMA SameAgain ==
  ASSUME UNCHANGED vars
  PROVE  /\ Stored' = Stored /\ Logged' = Logged
         /\ Vacated' = Vacated /\ AllLogged' = AllLogged /\ Vacant' = Vacant
         /\ DirsKept' = DirsKept
         /\ Standing' = Standing /\ Sparing' = Sparing /\ Views' = Views
<1>1. /\ UNCHANGED <<job, fs, manifest, rollbacks, downloads, step, stack, made, rest, pc>>
      /\ before' = before /\ oldFiles' = oldFiles /\ oldDirs' = oldDirs /\ old' = old
      /\ Plan' = Plan /\ cur' = cur /\ Written' = Written
  BY DEF vars, before, oldFiles, oldDirs, old, Plan, cur, Written
<1>2. Stored' = Stored /\ Logged' = Logged
  BY <1>1 DEF Stored, SlotsFree, HeldAre, OneEach, Rooted, Roofs, Roof, Held, Exists, ParentOK,
     Logged
<1>3. /\ Vacated' = Vacated /\ AllLogged' = AllLogged /\ Vacant' = Vacant
      /\ DirsKept' = DirsKept
  BY <1>1, <1>2 DEF Vacated, AllLogged, Vacant, DirsKept, Held, Exists
<1>4. Sources' = Sources /\ Replaced' = Replaced /\ DirsGone' = DirsGone
  BY <1>1, <1>2 DEF Sources, Replaced, DirsGone, Under, PastObsolete, Dropped
<1>5. TopEmptied' = TopEmptied /\ Cleared' = Cleared /\ MadeKept' = MadeKept
  BY <1>1 DEF TopEmptied, Cleared, MadeKept, Top, Children, Exists
<1>6. NewPlaces' = NewPlaces /\ OwnFiles' = OwnFiles /\ Doomed' = Doomed
  BY <1>1 DEF NewPlaces, OwnFiles, Doomed
<1>7. Views' = Views
  BY <1>1, <1>2 DEF Views, Viewed, RevertView, Holders, Exists
<1> QED
  BY <1>1, <1>2, <1>3, <1>4, <1>5, <1>6, <1>7 DEF Standing, Sparing

\* All of it holds after every step of a run in which nothing is injected.
LEMMA NextAtomic ==
  ASSUME Faults = {}, Heirs, AtomicInv, [Next]_vars
  PROVE  AtomicInv'
<1>1. /\ Sounds /\ TypeInv /\ SafeInv /\ Committed /\ Homes /\ Queues
      /\ "delete" \notin Faults /\ CleanInv /\ Decided
      /\ pc \in Working => fate = "open"
  BY DEF Heirs, AtomicInv, CleanInv, Base, NeverInv, Committed, Working
<1>2. CleanInv'
  BY <1>1, NextClean
<1>3. SafeInv' /\ TypeInv'
  BY <1>2 DEF CleanInv, Base
<1>4. Decided'
  BY <1>1, NextDecided
<1>5. ASSUME pc \in Forward
      PROVE  fate = "open" => Sure
  <2>1. pc \notin Ended
    BY <1>5 DEF Forward, Working, Busy, Cleaning, Ended
  <2> QED
    BY <1>1, <1>5, <2>1 DEF CleanInv, Clean, Sure, SafeInv
<1>6. pc' \in Forward => Built'
  <2> SUFFICES ASSUME pc' \in Forward PROVE Built'
    OBVIOUS
  <2>1. pc \in Forward
    BY ForwardSteps
  <2>2. Built /\ Course
    BY <1>1, <2>1 DEF AtomicInv, CleanInv, Clean, LogsInv
  <2> QED
    BY <1>1, <1>5, <2>1, <2>2, NextBuilt
<1>7. ASSUME fate' = "open"
      PROVE  /\ pc' \in Ahead \cup Deleting \cup {"rollback"} \cup Halting
             /\ (pc \in Ahead => Standing)'
             /\ (pc \in Deleting => Sparing)'
             /\ (pc = "rollback" => Stored /\ Vacant /\ AllLogged)'
             /\ (pc \in {"rmscratch", "exit23"} => rollbacks = <<>>)'
             /\ (pc \in Halting => Views)'
  <2>1. fate = "open" /\ (pc \in Working \cup Ahead \cup Deleting \cup {"rollback"} => Safe)
    <3>1. fate = "open" /\ (pc \notin Ended => Safe)
      BY <1>1, <1>7, FateStays DEF SafeInv
    <3> QED
      BY <3>1 DEF Working, Busy, Ahead, Deleting, Ended
  <2>2. /\ pc \in Ahead \cup Deleting \cup {"rollback"} \cup Halting
        /\ pc \in Ahead => Standing
        /\ pc \in Deleting => Sparing
        /\ pc = "rollback" => Stored /\ Vacant /\ AllLogged
        /\ pc \in {"rmscratch", "exit23"} => rollbacks = <<>>
        /\ Views
    BY <2>1, AlwaysViews DEF AtomicInv
  <2>3. CASE UNCHANGED vars
    <3>1. Stored' = Stored /\ Logged' = Logged
      BY <2>3, SameAgain
    <3>2. Vacated' = Vacated /\ AllLogged' = AllLogged /\ Vacant' = Vacant /\ DirsKept' = DirsKept
      BY <2>3, SameAgain
    <3>3. Standing' = Standing /\ Sparing' = Sparing /\ Views' = Views
      BY <2>3, SameAgain
    <3> QED
      BY <2>2, <2>3, <3>1, <3>2, <3>3 DEF vars
  <2>4. CASE pc \in Ahead /\ pc' \in Ahead
    <3>1. pc \in Forward
      BY <2>4 DEF Ahead, Forward
    <3>2. Standing'
      BY <1>1, <1>5, <1>7, <2>1, <2>2, <2>4, <3>1, NextStanding DEF AtomicInv, Built
    <3>3. pc' \notin Deleting \cup {"rollback"} \cup Halting
      BY <2>4 DEF Ahead, Deleting, Halting, Working, Busy
    <3> QED
      BY <2>4, <3>2, <3>3 DEF Deleting, Halting
  <2>5. CASE pc \in Working /\ pc' \notin Forward
    <3>1. pc \in Forward /\ pc \in Ahead
      BY <2>5 DEF Ahead, Forward
    <3>2. pc' = "revert" /\ Sparing'
      BY <1>1, <1>5, <2>1, <2>2, <2>5, <3>1, Falls DEF AtomicInv
    <3> QED
      BY <3>2 DEF Ahead, Deleting, Halting, Working, Busy
  <2>6. CASE pc \in Deleting /\ pc' \in Deleting
    <3>1. Sparing'
      BY <1>1, <2>1, <2>2, <2>6, NextSparing
    <3> QED
      BY <2>6, <3>1 DEF Ahead, Deleting, Halting, Working, Busy
  <2>7. CASE pc \in Deleting /\ pc' = "rollback"
    <3>1. Stored' /\ Vacant' /\ AllLogged'
      BY <1>1, <2>1, <2>2, <2>7, Vacates
    <3> QED
      BY <2>7, <3>1 DEF Ahead, Deleting, Halting, Working, Busy
  <2>8. CASE pc \in Deleting /\ pc' = "exit22" /\ fs' = fs
    <3>1. pc \in Early
      BY <2>8 DEF Deleting, Early
    <3>2. UNCHANGED <<job, manifest, rollbacks>>
      BY <1>1, <3>1, EarlySteps
    <3>3. Views'
      BY <2>2, <2>8, <3>2, NextStopped
    <3> QED
      BY <2>8, <3>3 DEF Ahead, Deleting, Halting, Working, Busy
  <2>9. CASE pc = "rollback" /\ Rollback /\ rollbacks # <<>>
    <3>1. Stored' /\ Vacant' /\ AllLogged' /\ pc' = pc
      BY <1>1, <2>1, <2>2, <2>9, NextUndone
    <3> QED
      BY <2>9, <3>1 DEF Ahead, Deleting, Halting, Working, Busy
  <2>10. CASE \/ pc = "rollback" /\ Rollback /\ rollbacks = <<>>
              \/ pc = "rmscratch" /\ RevertScratch
    <3>1. Views' /\ pc' \in {"rmscratch", "exit23"} /\ rollbacks' = <<>>
      BY <1>1, <2>2, <2>10, NextScratch
    <3> QED
      BY <3>1 DEF Ahead, Deleting, Halting, Working, Busy
  <2> QED
    BY <1>1, <1>3, <1>7, <2>1, <2>2, <2>3, <2>4, <2>5, <2>6, <2>7, <2>8, <2>9, <2>10, OpenSteps
<1> QED
  BY <1>2, <1>4, <1>6, <1>7 DEF AtomicInv

-----------------------------------------------------------------------------
(* The refinement. *)

\* What the run counts as having at p.
Counts(p) == ObjectOf(IF fate # "open" \/ pc = "exit23" THEN fs[p] ELSE RevertView(p))

\* As long as nothing is decided that is what was there.
LEMMA CountsAsBefore ==
  ASSUME Views, fate = "open"
  PROVE  \A p \in Protected : Counts(p) = ObjectOf(before[p])
BY DEF Counts, Views, Viewed, ObjectOf

\* The same after a step.
LEMMA CountsAsBeforeNext ==
  ASSUME Views', fate' = "open", job' = job
  PROVE  \A p \in Protected : Counts(p)' = ObjectOf(before[p])
<1>1. before' = before
  BY Fixed
<1>2. \A p \in Protected : ObjectOf(Viewed(p))' = ObjectOf(before'[p])
  BY DEF Views, ObjectOf
<1>3. \A p : Counts(p)' = ObjectOf(Viewed(p))'
  BY DEF Counts, Viewed, ObjectOf
<1> QED
  BY <1>1, <1>2, <1>3 DEF ObjectOf

\* An object at a protected path is the one that was there before the run, or the
\* package's, whole.
LEMMA ObjectsAre ==
  ASSUME TypeInv, Homes, Built, pc # "write", NEW p \in Protected, IsObject(fs[p])
  PROVE  fs[p] = before[p] \/ (p \in Written /\ fs[p] = New(p))
<1>1. fs[p].kind \in {"prior", "partial", "new"} /\ p \in Path /\ p \notin OwnPaths
  BY DEF IsObject, Protected
<1>2. p \notin Image(Slot)
  BY <1>1 DEF OwnPaths
<1>3. CASE fs[p].kind = "prior"
  BY <1>1, <1>2, <1>3 DEF Homes
<1>4. CASE fs[p].kind \in {"new", "partial"}
  BY <1>1, <1>4 DEF Built, NewPlaces, NewWhole
<1> QED
  BY <1>1, <1>3, <1>4

\* When the last task is done, an object that is no longer there is one that the
\* package was to drop.
LEMMA GoneIsDropped ==
  ASSUME Sure, Standing, pc \in {"task", "show"}, step = Len(Plan),
         NEW p \in Protected, IsObject(before[p]), ~IsObject(fs[p])
  PROVE  p \in Dropped
<1>1. TypeInv /\ Safe /\ Homes /\ Proper /\ Listed
  BY DEF Sure, DiskInv
<1>2. p \in Path /\ before[p] = Prior(p) /\ p \notin ScratchDirs
  BY <1>1, ScenarioAssumption
     DEF TypeInv, TypeOK, before, Protected, IsObject, Absent, Dir
<1>3. PICK i \in DOMAIN Slot : fs[Slot[i]] = before[p]
  BY DEF Sure, Safe, Saved, LogsInv, Course, Owed
<1>4. i \in DOMAIN rollbacks /\ Held(i) /\ rollbacks[i] = p
  <2>1. fs[Slot[i]].kind = "prior" /\ fs[Slot[i]].of = p /\ Exists(Slot[i])
    BY <1>2, <1>3 DEF Prior, Exists, Absent
  <2>2. i \in DOMAIN rollbacks
    BY <2>1 DEF Standing, Stored, SlotsFree
  <2> QED
    BY <1>1, <2>1, <2>2 DEF Homes, Held
<1>5. SUFFICES ASSUME p \notin Dropped
               PROVE  FALSE
  OBVIOUS
<1>6. p \in manifest
  <2>1. Logged = manifest
    BY DEF Logged, Undone
  <2>2. pc \notin Replacing
    BY DEF Replacing, Nested, Between
  <2> QED
    BY <1>4, <1>5, <2>1, <2>2 DEF Standing, Replaced
<1>7. Exists(p)
  <2>1. step \in Nat /\ Plan \in Seq(PlanTask)
    BY <1>1, PlanType DEF TypeInv, TypeOK
  <2>2. ~Pending(p)
    BY <2>1 DEF Pending, Between
  <2> QED
    BY <1>1, <1>2, <1>6, <2>2 DEF Listed
<1> QED
  BY <1>4, <1>7 DEF Standing, Vacated

\* The step that decides for the installation is the one that commits.
LEMMA Commits ==
  ASSUME Faults = {}, Heirs, AtomicInv, [Next]_vars, fate = "open", fate' # "open"
  PROVE  /\ pc \in {"task", "show"} /\ fs' = fs /\ job' = job
         /\ \A p \in Protected :
              \/ Counts(p)' = Counts(p)
              \/ p \in Written /\ Counts(p)' = New(p)
              \/ p \in Dropped /\ Counts(p)' = Absent
<1>1. /\ Sounds /\ SafeInv /\ Committed /\ Views
      /\ pc \in Ahead => Sure
  BY AlwaysViews DEF Heirs, AtomicInv, CleanInv, Base, NeverInv
<1>2. /\ job' = job
      /\ (pc = "task" /\ FinishStages) \/ (pc = "show" /\ Show)
  BY <1>1, WhenGivenUp, JobFixed
<1>3. pc \in {"task", "show"} /\ fs' = fs /\ step = Len(Plan)
  <2>1. pc = "show" => step = Len(Plan)
    BY DEF AtomicInv, CleanInv, Clean, Swept, Forward
  <2> QED
    BY <1>2, <2>1 DEF FinishStages, Show
<1>4. Sure /\ Standing /\ Built
  BY <1>1, <1>3 DEF AtomicInv, Ahead, Forward, Working
<1>5. \A p \in Protected : Counts(p)' = ObjectOf(fs[p])
  BY <1>3 DEF Counts, ObjectOf
<1>6. \A p \in Protected : Counts(p) = ObjectOf(before[p])
  BY <1>1, CountsAsBefore
<1>7. ASSUME NEW p \in Protected
      PROVE  \/ ObjectOf(fs[p]) = ObjectOf(before[p])
             \/ p \in Written /\ ObjectOf(fs[p]) = New(p)
             \/ p \in Dropped /\ ObjectOf(fs[p]) = Absent
  <2>1. CASE IsObject(fs[p])
    <3>1. fs[p] = before[p] \/ (p \in Written /\ fs[p] = New(p))
      BY <1>3, <1>4, <2>1, ObjectsAre DEF Sure
    <3> QED
      BY <2>1, <3>1 DEF ObjectOf
  <2>2. CASE ~IsObject(fs[p]) /\ ~IsObject(before[p])
    BY <2>2 DEF ObjectOf
  <2>3. CASE ~IsObject(fs[p]) /\ IsObject(before[p])
    BY <1>3, <1>4, <2>3, GoneIsDropped DEF ObjectOf
  <2> QED
    BY <2>1, <2>2, <2>3
<1> QED
  BY <1>2, <1>3, <1>5, <1>6, <1>7

\* Once it is decided, no object at a protected path changes.
LEMMA StaysInstalled ==
  ASSUME Faults = {}, Heirs, AtomicInv, [Next]_vars, fate # "open"
  PROVE  /\ fate' # "open" /\ job' = job
         /\ \A p \in Protected : Counts(p)' = Counts(p)
<1>1. /\ Sounds /\ TypeInv /\ Homes /\ Queues /\ Committed
      /\ pc \in Cleaning \cup {"show", "done"}
  BY DEF Heirs, AtomicInv, CleanInv, Base, NeverInv, Decided
<1>2. fate' # "open" /\ job' = job
  BY FateStays, JobFixed
<1>3. Cleans \/ fs' = fs
  <2>1. ~(Install \/ Revert \/ Signal \/ Kill)
    BY <1>1, LateSteps
  <2> QED
    BY <2>1 DEF Next, Run, Cleanup, Cleans, Show, Ending, vars
<1>4. ASSUME NEW p \in Protected, Cleans
      PROVE  ObjectOf(fs'[p]) = ObjectOf(fs[p])
  <2>1. p \in Path /\ p \notin OwnPaths
    BY DEF Protected
  <2>2. SUFFICES ASSUME fs'[p] = Absent, p \in rest, IsObject(fs[p]),
                        pc \in {"dropslots", "dropdownloads", "dropscratch", "dropdirs"}
                 PROVE  FALSE
    BY <1>1, <1>4, <2>1, CleansWhat DEF ObjectOf
  <2>3. /\ Built /\ Swept /\ Logging /\ Manifested
    BY <2>2 DEF AtomicInv, CleanInv, Clean, LogsInv, DiskInv, Forward, Cleaning
  <2>4. fs[p] = before[p] \/ (p \in Written /\ fs[p] = New(p))
    BY <1>1, <2>2, <2>3, ObjectsAre
  <2>5. pc \notin {"dropslots", "dropdownloads"}
    BY <1>1, <2>1, <2>2 DEF Queues, Committed, OwnPaths
  <2>6. CASE pc = "dropscratch"
    <3>1. p \in ScratchDirs
      BY <2>2, <2>6 DEF Queues, AtomicInv, CleanInv, Base, NeverInv
    <3>2. before[p] \in {Absent, Dir}
      BY <1>1, <3>1, ScenarioAssumption DEF TypeInv, TypeOK, before
    <3>3. p \notin Written
      BY <1>1, <3>1 DEF Sounds, Sound, Written, TypeInv, TypeOK
    <3> QED
      BY <2>2, <2>4, <3>2, <3>3 DEF IsObject, Absent, Dir
  <2>7. CASE pc = "dropdirs"
    <3>1. p \in oldDirs /\ p \notin manifest
      BY <1>1, <2>2, <2>3, <2>7 DEF Queues, Swept
    <3>2. ~IsObject(before[p])
      BY <1>1, <3>1 DEF Heirs, Succeeds, TypeInv, TypeOK, oldDirs, before
    <3>3. fs[p].kind = "new"
      BY <2>2, <2>4, <3>2 DEF New
    <3>4. p \notin downloads /\ ~InHand(p)
      BY <1>1, <2>1, <2>7 DEF Committed, InHand, AtomicInv
    <3> QED
      BY <2>1, <2>3, <3>1, <3>3, <3>4 DEF Logging
  <2> QED
    BY <2>2, <2>5, <2>6, <2>7
<1>5. \A p \in Protected : ObjectOf(fs'[p]) = ObjectOf(fs[p])
  BY <1>3, <1>4
<1>6. \A p : Counts(p) = ObjectOf(fs[p]) /\ Counts(p)' = ObjectOf(fs'[p])
  BY <1>2 DEF Counts, ObjectOf
<1> QED
  BY <1>2, <1>5, <1>6

\* What a revert would leave, as long as one can follow.
Foreseen == fate = "open" => Views

\* Every step is one of the atomic installation, or none that it knows of.
LEMMA AtomicStep ==
  ASSUME Faults = {}, Heirs, AtomicInv, Foreseen', [Next]_vars
  PROVE  [Atomic!Next]_<<Offer, Objects, Outcome>>
<1>1. /\ job' = job /\ Offer' = Offer /\ Offer.writes = Written /\ Offer.drops = Dropped
      /\ Protected' = Protected
  BY JobFixed DEF Offer, Dropped, Written, oldFiles, Protected, OwnPaths
<1>2. /\ Objects = [p \in Protected |-> Counts(p)] /\ Objects' = [p \in Protected |-> Counts(p)']
  BY DEF Objects, Counts
<1>3. CASE fate = "open" /\ fate' = "open"
  <2>1. Views /\ Views'
    BY <1>3, AlwaysViews DEF Foreseen
  <2>2. Objects' = Objects
    <3>1. \A p \in Protected : Counts(p)' = Counts(p)
      BY <1>1, <1>3, <2>1, CountsAsBefore, CountsAsBeforeNext
    <3> QED
      BY <1>2, <3>1
  <2>3. CASE Outcome = "reverted"
    <3>1. pc = "exit23"
      BY <1>3, <2>3 DEF Outcome
    <3>2. UNCHANGED vars
      BY <3>1, EndStays DEF Ended
    <3>3. Outcome' = Outcome
      BY <3>2 DEF Outcome, vars
    <3> QED
      BY <1>1, <2>2, <3>3
  <2>4. CASE Outcome # "reverted"
    <3>1. Outcome = "undecided" /\ Outcome' \in {"undecided", "reverted"}
      BY <1>3, <2>4 DEF Outcome
    <3>2. Outcome' = "reverted" => Atomic!Abort
      BY <1>1, <2>2, <3>1 DEF Atomic!Abort
    <3> QED
      BY <1>1, <2>2, <3>1, <3>2 DEF Atomic!Next
  <2> QED
    BY <2>3, <2>4
<1>4. CASE fate = "open" /\ fate' # "open"
  <2>1. /\ pc \in {"task", "show"}
        /\ \A p \in Protected :
             \/ Counts(p)' = Counts(p)
             \/ p \in Written /\ Counts(p)' = New(p)
             \/ p \in Dropped /\ Counts(p)' = Absent
    BY <1>4, Commits
  <2>2. Outcome = "undecided" /\ Outcome' = "installed"
    BY <1>4, <2>1 DEF Outcome
  <2>3. \A p \in Protected :
          \/ Objects'[p] = Objects[p]
          \/ p \in Offer.writes /\ Objects'[p] = [q \in Protected |-> New(q)][p]
          \/ p \in Offer.drops /\ Objects'[p] = Absent
    BY <1>1, <1>2, <2>1
  <2>4. Atomic!Commit
    BY <1>1, <2>2, <2>3 DEF Atomic!Commit
  <2> QED
    BY <2>4 DEF Atomic!Next
<1>5. CASE fate # "open"
  <2>1. fate' # "open" /\ \A p \in Protected : Counts(p)' = Counts(p)
    BY <1>5, StaysInstalled
  <2>2. Outcome' = Outcome
    BY <1>5, <2>1 DEF Outcome
  <2>3. Objects' = Objects
    BY <1>2, <2>1
  <2> QED
    BY <1>1, <2>2, <2>3
<1> QED
  BY <1>3, <1>4, <1>5

\* Every run in which nothing is injected, and no directory is delivered over a link
\* to one (Sound), is one atomic installation: at each protected path it keeps the object that was there, puts the package's whole or
\* drops an obsolete one, all of it when the last stage is reached, or ends a
\* revert with every object as it was (do_install, real_revertinstall).
THEOREM InstallsAtomically ==
  ASSUME Faults = {}, Heirs
  PROVE  Spec => ImplementsAtomic
<1>1. Init => AtomicInv
  BY InitAtomic
<1>2. AtomicInv /\ [Next]_vars => AtomicInv'
  BY NextAtomic
<1>3. Init => Atomic!Init
  BY DEF Init, Atomic!Init, Outcome
<1>4. AtomicInv => Foreseen
  BY AlwaysViews DEF Foreseen
<1>5. AtomicInv /\ Foreseen' /\ [Next]_vars => [Atomic!Next]_<<Offer, Objects, Outcome>>
  BY AtomicStep
<1> QED
  BY <1>1, <1>2, <1>3, <1>4, <1>5, PTL DEF Spec, ImplementsAtomic, Atomic!Spec

\* As long as nothing is injected a reverted run has put back every object that
\* was at a protected path, what backup_file() moved and what it did not: the
\* promise of the documentation, for packages that are Sound, which leaves out a
\* directory over a link to one, and succeed the previous version (backup_file,
\* do_rollbacks, real_revertinstall).
THEOREM RevertRestoresAll ==
  ASSUME Faults = {}, Heirs
  PROVE  Spec => []RevertRestores
<1>1. Init => AtomicInv
  BY InitAtomic
<1>2. AtomicInv /\ [Next]_vars => AtomicInv'
  BY NextAtomic
<1>3. AtomicInv => RevertRestores
  <2> SUFFICES ASSUME AtomicInv, pc = "exit23", fate = "open",
                      NEW p \in Protected, IsObject(before[p])
               PROVE  fs[p] = before[p]
    BY DEF RevertRestores
  <2>1. ObjectOf(fs[p]) = before[p]
    BY AlwaysViews DEF Views, Viewed, ObjectOf
  <2> QED
    BY <2>1 DEF ObjectOf, IsObject, Absent
<1> QED
  BY <1>1, <1>2, <1>3, PTL DEF Spec

-----------------------------------------------------------------------------
(* No debris.                                                              *)
(*                                                                         *)
(* What a revert has still to remove is on the list of the loop it is in,  *)
(* or is one of the directories of the rollback files, which go at the end *)
(* (Litter).                                                               *)

\* The new version builds on what the one before has left there.
Builders == Inland /\ \A s \in DOMAIN Scenarios : BuildsOn(Scenarios[s])

\* The directories a run has made are on the streets.
DirsMade == \A p \in Path \ Image(Slot) : fs[p] = Dir /\ before[p] # Dir => p \in Streets

\* What was not there before the run, the destination's parents aside.
Waste == {p \in Path \ Above[Dest] : Exists(p) /\ before[p] = Absent}

\* The destination, and what the revert removes after the last restore.
Chain == ScratchDirs \cup Image(Slot) \cup {Dest}
Last  == IF before[Dest] = Dir THEN Chain ELSE {}

\* What the manifest lists for deletion.
Sentenced == manifest \ {p \in old : fs[p] = Dir}

\* What is to be removed is on the list of a loop that is still to come.
Litter ==
  /\ pc = "revert"      => Waste \subseteq Sentenced \cup downloads \cup Last
  /\ pc = "rmdownloads" => Waste \subseteq Sentenced \cup rest \cup Last
  /\ pc = "rmfiles"     => Waste \subseteq rest \cup Last
  /\ pc = "rollback"    => Waste \subseteq Last
  /\ pc = "rmscratch"   => Waste \subseteq rest
  /\ pc = "exit23"      => Waste = {}

\* There is one way of being nothing, and one of being a directory.
Plain == \A p \in Path : /\ fs[p].kind = "absent" => fs[p] = Absent
                         /\ fs[p].kind = "dir" => fs[p] = Dir

\* The inductive invariant of the reverts that leave no debris.
DebrisInv ==
  /\ AtomicInv
  /\ pc \in Forward => DirsMade
  /\ fate = "open" => Plain /\ Litter

\* The chain from the destination to the rollback files.
LEMMA ChainIs ==
  /\ Chain \subseteq Path /\ Chain \cap Above[Dest] = {}
  /\ \A c \in Chain : Parent[c] \in Path => Parent[c] \in Chain \cup Above[Dest]
<1>1. Chain = {DownloadDir, RollbackDir, ScratchDir, MetaDir, Dest} \cup Image(Slot)
  BY DEF Chain, ScratchDirs
<1>2. Chain \subseteq Path
  BY Below, TreeAssumption DEF Chain, ScratchDirs
<1>3. Chain \cap Above[Dest] = {}
  BY <1>1, <1>2, Below, TreeAssumption
<1>4. ASSUME Parent[Dest] \in Path PROVE Parent[Dest] \in Above[Dest]
  BY <1>4, ParentIs, TreeAssumption DEF ScratchDirs
<1> QED
  BY <1>1, <1>2, <1>3, <1>4, LayoutAssumption

\* What changes nothing, or takes away, leaves nothing that it was not.
LEMMA LessPlain ==
  ASSUME Plain, \A q \in Path : fs'[q] = Absent \/ \E r \in Path : fs'[q] = fs[r]
  PROVE  Plain'
<1>1. Absent.kind = "absent" /\ Dir.kind = "dir"
  BY Kinds
<1> QED
  BY <1>1 DEF Plain

\* What is deleted is gone, and the rest is as it was.
LEMMA DeletedIs ==
  ASSUME TypeInv, NEW a \in Path, fs' = Deleted(a)
  PROVE  /\ \A q \in Path : fs'[q] = fs[q] \/ (q = a /\ fs'[q] = Absent)
         /\ a \notin Above[Dest] /\ Removable(a) => fs'[a] = Absent
BY DEF Deleted, TypeInv, TypeOK

\* What is in a directory that was not there was not there.
LEMMA WasteBelow ==
  ASSUME TypeInv, NEW a \in Waste, NEW c \in Children(a)
  PROVE  c \in Waste /\ Rank[a] < Rank[c] /\ Rank[a] \in Nat /\ Rank[c] \in Nat
<1>1. a \in Path /\ a \notin Above[Dest] /\ before[a] = Absent
  BY DEF Waste
<1>2. c \in Path /\ Parent[c] = a /\ Exists(c) /\ a # Root
  BY <1>1, TreeAssumption DEF Children
<1>3. a \in Above[c]
  BY <1>2, ParentIs
<1>4. c \notin Above[Dest]
  BY <1>1, <1>3, TreeAssumption DEF ScratchDirs
<1>5. before[c] = Absent
  BY <1>1, <1>2, ParentBefore, Kinds
<1>6. Rank[a] < Rank[c] /\ Rank[a] \in Nat /\ Rank[c] \in Nat
  BY <1>1, <1>2, <1>3, <1>4, TreeAssumption
<1> QED
  BY <1>2, <1>4, <1>5, <1>6 DEF Waste

\* A loop that goes from the last path to the first removes what is on its list
\* and was not there before, each directory after what is in it; but for what
\* stays for later, with the directories it is in.
LEMMA SweepWaste ==
  ASSUME TypeInv, Plain, job' = job, NEW R \in SUBSET Path, NEW K, NEW a \in Path, Latest(a, R),
         Waste \subseteq R \cup K, fs' = Deleted(a),
         \A c \in K : Parent[c] = a => a \in K \cup Above[Dest]
  PROVE  Waste' \subseteq (R \ {a}) \cup K
<1>1. before' = before
  BY Fixed
<1>2. /\ \A q \in Path : fs'[q] = fs[q] \/ (q = a /\ fs'[q] = Absent)
      /\ a \notin Above[Dest] /\ Removable(a) => fs'[a] = Absent
  BY DeletedIs
<1>3. Waste' \subseteq Waste
  BY <1>1, <1>2 DEF Waste, Exists
<1>4. CASE a \notin Waste \/ a \in K
  BY <1>3, <1>4
<1>5. CASE a \in Waste /\ a \notin K
  <2>1. a \notin Above[Dest] /\ fs[a] # Absent
    BY <1>5 DEF Waste, Exists
  <2>2. ASSUME NEW c \in Children(a) PROVE FALSE
    <3>1. c \in Waste /\ Rank[a] < Rank[c] /\ Rank[a] \in Nat /\ Rank[c] \in Nat
      BY <1>5, WasteBelow
    <3>2. c \notin R
      BY <3>1 DEF Latest
    <3>3. c \in K /\ Parent[c] = a
      BY <3>1, <3>2 DEF Children
    <3> QED
      BY <1>5, <2>1, <3>3
  <2>3. fs[a].kind \in {"absent", "dir", "prior", "partial", "new"}
    BY DEF TypeInv, TypeOK, Node
  <2>4. Removable(a)
    BY <2>1, <2>2, <2>3 DEF Removable, IsObject, Plain
  <2>5. a \notin Waste'
    BY <1>2, <2>1, <2>4 DEF Waste, Exists
  <2> QED
    BY <1>3, <2>5
<1> QED
  BY <1>4, <1>5

\* A directory is made where a street runs, and nowhere else.
LEMMA NextDirsMade ==
  ASSUME Sounds, TypeInv, pc \in Working => Sure, Course, DirsMade, [Next]_vars, pc' \in Forward
  PROVE  DirsMade'
<1>1. job' = job /\ before' = before /\ Streets' = Streets
  BY JobFixed, Fixed DEF Streets
<1>2. ASSUME \A q \in Path : fs'[q] = fs[q] \/ fs'[q] # Dir \/ q \in Streets \cup Image(Slot)
      PROVE  DirsMade'
  BY <1>1, <1>2 DEF DirsMade
<1>3. CASE UNCHANGED vars
  BY <1>2, <1>3 DEF vars
<1>4. CASE Quiets \/ Notes
  <2>1. fs' = fs
    BY <1>4, QuietWhat
  <2> QED
    BY <1>2, <2>1
<1>5. CASE Cleans
  <2>1. \A q \in Path : fs'[q] = fs[q] \/ fs'[q] = Absent
    BY <1>5, CleansWhat
  <2>2. Absent # Dir
    BY Kinds
  <2> QED
    BY <1>2, <2>1, <2>2
<1>6. CASE Makes
  <2>1. /\ Safe /\ pc \in Busy /\ cur' = cur
        /\ Lays \/ Links \/ Opens \/ Fills \/ Stores
    BY <1>6, AtWork DEF Sure
  <2>2. CASE Lays
    <3>1. made' \in Streets /\ Elsewhere(made')
      BY <2>1, <2>2, DirPlaces DEF Lays
    <3> QED
      BY <1>2, <3>1 DEF Elsewhere
  <2>3. CASE Links \/ Opens \/ Fills
    <3>1. Elsewhere(cur.path) /\ fs'[cur.path] \in {New(cur.path), Partial(cur.path)}
      BY <2>3 DEF Links, Opens, Fills
    <3>2. fs'[cur.path] # Dir
      BY <3>1, Kinds
    <3> QED
      BY <1>2, <3>1, <3>2 DEF Elsewhere
  <2>4. CASE Stores
    <3>1. PICK s \in Image(Slot) :
            /\ s \in Path /\ Top # s /\ fs'[s] = fs[Top] /\ fs'[Top] = Absent
            /\ \A q \in Path : q # Top /\ q # s => fs'[q] = fs[q]
      BY <2>4 DEF Stores
    <3>2. Absent # Dir
      BY Kinds
    <3> QED
      BY <1>2, <3>1, <3>2
  <2> QED
    BY <2>1, <2>2, <2>3, <2>4
<1> QED
  BY <1>3, <1>4, <1>5, <1>6, ForwardSteps

\* While a rollback file holds something, or there is a previous version, the
\* destination was there.
LEMMA DestWas ==
  ASSUME Builders, TypeInv, Safe, Stored,
         \/ old # {}
         \/ \E i \in DOMAIN rollbacks : Held(i)
  PROVE  before[Dest] = Dir /\ Last = Chain
<1>1. MetaDir \in Path /\ Dest \in Above[MetaDir] /\ Dest \in Path /\ Dir # Absent
  BY Below, TreeAssumption, Kinds DEF ScratchDirs
<1>2. CASE old # {}
  <2>1. before[MetaDir] = Dir
    BY <1>2 DEF Builders, BuildsOn, old, oldFiles, oldDirs, before, TypeInv, TypeOK
  <2> QED
    BY <1>1, <2>1, ParentBefore DEF Last
<1>3. CASE \E i \in DOMAIN rollbacks : Held(i)
  <2>1. PICK i \in DOMAIN rollbacks : Held(i)
    BY <1>3
  <2>2. rollbacks[i] \in Path /\ rollbacks[i] \notin Above[Dest] /\ rollbacks[i] \notin Hidden
    BY <2>1, HeldInDest DEF Safe, Backing
  <2>3. Dest \in Hidden
    <3>1. Slot[i] \in Image(Slot) /\ Dest \in Above[Slot[i]]
      BY <2>1, Files, Below DEF Held
    <3> QED
      BY <3>1 DEF Hidden
  <2>4. Dest \in Above[rollbacks[i]]
    BY <2>2, <2>3 DEF Builders, Inland
  <2>5. before[rollbacks[i]] # Absent
    BY <2>1 DEF Stored, HeldAre, Held, Exists
  <2> QED
    BY <2>2, <2>4, <2>5, ParentBefore DEF Last
<1> QED
  BY <1>2, <1>3

\* As long as tasks are done, what was not there is in a log, or goes with the
\* directories of the rollback files.
LEMMA WasteLogged ==
  ASSUME Builders, Sounds, Sure, Standing, DirsMade, pc \in Working,
         NEW p \in Waste, ~InHand(p)
  PROVE  p \in Sentenced \cup downloads \cup Last
<1>1. /\ TypeInv /\ Safe /\ Homes /\ Logging /\ DirsLogged /\ Proper /\ Stored
  BY DEF Sure, LogsInv, DiskInv, Standing
<1>2. p \in Path /\ p \notin Above[Dest] /\ fs[p] # Absent /\ before[p] = Absent
  BY DEF Waste, Exists
<1>3. fs[p].kind \in {"absent", "dir", "prior", "partial", "new"}
  BY <1>1, <1>2 DEF TypeInv, TypeOK, Node
<1>4. CASE p \in Image(Slot)
  <2>1. PICK i \in DOMAIN Slot : p = Slot[i]
    BY <1>4 DEF Image
  <2>2. i \in DOMAIN rollbacks /\ Held(i)
    BY <1>1, <1>2, <2>1 DEF Stored, SlotsFree, Held, Exists
  <2>3. Last = Chain
    BY <1>1, <2>2, DestWas
  <2> QED
    BY <1>4, <2>3 DEF Chain
<1>5. CASE p \notin Image(Slot) /\ fs[p].kind = "prior"
  BY <1>1, <1>2, <1>5, Kinds DEF Homes
<1>6. CASE p \notin Image(Slot) /\ fs[p].kind \in {"partial", "new"}
  <2>1. p \in manifest \cup downloads
    BY <1>1, <1>2, <1>6 DEF Logging
  <2>2. fs[p] # Dir
    BY <1>6, Kinds
  <2> QED
    BY <2>1, <2>2 DEF Sentenced
<1>7. CASE p \notin Image(Slot) /\ fs[p].kind = "dir"
  <2>1. fs[p] = Dir /\ before[p] # Dir
    BY <1>1, <1>2, <1>7, Kinds DEF Proper
  <2>2. p \in manifest /\ p \in Streets
    BY <1>1, <1>2, <1>7, <2>1 DEF DirsLogged, DirsMade, InHand
  <2>3. CASE p \notin old
    BY <2>2, <2>3 DEF Sentenced
  <2>4. CASE p \in old
    <3>1. p \in {ScratchDir, RollbackDir, DownloadDir}
      BY <1>1, <1>2, <2>2, <2>4
      DEF Builders, BuildsOn, old, oldFiles, oldDirs, before, Streets, TypeInv, TypeOK
    <3>2. Last = Chain
      BY <1>1, <2>4, DestWas
    <3> QED
      BY <3>1, <3>2 DEF Chain, ScratchDirs
  <2> QED
    BY <2>3, <2>4
<1>8. fs[p].kind # "absent"
  BY <1>1, <1>2 DEF Proper
<1> QED
  BY <1>3, <1>4, <1>5, <1>6, <1>7, <1>8

\* A fatal error starts a revert that knows of all of it.
LEMMA FallsLittered ==
  ASSUME Faults = {}, Builders, Sounds, Sure, Standing, DirsMade, pc \in Working, [Next]_vars,
         pc' \notin Forward
  PROVE  Plain' /\ Litter'
<1>1. /\ TypeInv /\ Course /\ Safe /\ Filled /\ Proper
  BY DEF Sure, LogsInv, DiskInv
<1>2. /\ pc' = "revert" /\ pc \notin {"record", "reclaim", "fetched"}
      /\ UNCHANGED <<job, manifest, seen, rollbacks, downloads, fate, step>>
      /\ \/ fs' = fs /\ pc # "write"
         \/ /\ pc \in {"open", "write"} /\ Removable(cur.path)
            /\ fs' = [fs EXCEPT ![cur.path] = Absent]
  BY <1>1, FatalSteps
<1>3. before' = before /\ old' = old /\ Last' = Last
  BY <1>2, Fixed DEF Last
<1>4. /\ \A q \in Path : fs'[q] = fs[q] \/ (q = cur.path /\ pc \in {"open", "write"} /\ fs'[q] = Absent)
      /\ pc = "write" /\ cur.path \in Path => fs'[cur.path] = Absent
  BY <1>1, <1>2 DEF TypeInv, TypeOK
<1>5. Plain'
  BY <1>1, <1>4, LessPlain DEF Proper, Plain
<1>6. Sentenced \subseteq Sentenced'
  <2>1. \A q \in Path : fs'[q] = Dir => fs[q] = Dir
    BY <1>4, Kinds
  <2> QED
    BY <1>1, <1>2, <1>3, <2>1 DEF Sentenced, TypeInv, TypeOK
<1>7. ASSUME NEW p \in Waste' PROVE p \in Sentenced' \cup downloads \cup Last
  <2>1. p \in Path /\ fs'[p] # Absent /\ p \in Waste
    BY <1>3, <1>4, <1>7 DEF Waste, Exists
  <2>2. ~InHand(p)
    BY <1>2, <1>4, <2>1 DEF InHand
  <2> QED
    BY <1>6, <2>1, <2>2, WasteLogged
<1> QED
  BY <1>2, <1>3, <1>5, <1>7 DEF Litter

\* A loop of the deletions takes from its list what it removes.
LEMMA NextLitter ==
  ASSUME Faults = {}, Sounds, TypeInv, Safe, Queues, Sparing, Plain, Litter,
         pc \in Deleting, [Next]_vars
  PROVE  Plain' /\ Litter'
<1>0. Condemned = Sentenced
  BY CondemnedIs DEF Sentenced, Deleting, Undoing, Ended
<1>1. /\ UNCHANGED <<job, manifest, downloads>>
      /\ \/ fs' = fs /\ pc' \in {pc, "exit22"} /\ (pc # "revert" => rest' = rest)
         \/ fs' = fs /\ pc = "revert" /\ pc' = "rmdownloads" /\ rest' = downloads
         \/ /\ fs' = fs /\ pc = "rmdownloads" /\ pc' = "rmfiles" /\ rest' = Sentenced
            /\ rest = {}
         \/ fs' = fs /\ pc = "rmfiles" /\ pc' = "rollback" /\ rest = {}
         \/ \E a \in rest : /\ pc \in {"rmdownloads", "rmfiles"} /\ pc' = pc
                            /\ Latest(a, rest) /\ rest' = rest \ {a} /\ fs' = Deleted(a)
  BY <1>0, EarlySteps DEF Early, Deleting
<1>2. before' = before /\ old' = old /\ Last' = Last
  BY <1>1, Fixed DEF Last
<1>3. CASE fs' = fs /\ ~(\E a \in rest : /\ pc \in {"rmdownloads", "rmfiles"} /\ pc' = pc
                            /\ Latest(a, rest) /\ rest' = rest \ {a} /\ fs' = Deleted(a))
  <2>1. Plain' /\ Waste' = Waste /\ Sentenced' = Sentenced
    BY <1>1, <1>2, <1>3 DEF Plain, Waste, Exists, Sentenced
  <2>2. CASE pc' \in {pc, "exit22"} /\ (pc # "revert" => rest' = rest)
    BY <1>1, <1>2, <2>1, <2>2 DEF Litter, Deleting
  <2>3. CASE pc = "revert" /\ pc' = "rmdownloads" /\ rest' = downloads
    BY <1>1, <1>2, <2>1, <2>3 DEF Litter
  <2>4. CASE pc = "rmdownloads" /\ pc' = "rmfiles" /\ rest' = Sentenced /\ rest = {}
    BY <1>1, <1>2, <2>1, <2>4 DEF Litter
  <2>5. CASE pc = "rmfiles" /\ pc' = "rollback" /\ rest = {}
    BY <1>1, <1>2, <2>1, <2>5 DEF Litter
  <2> QED
    BY <1>1, <1>3, <2>2, <2>3, <2>4, <2>5
<1>4. ASSUME NEW a \in rest, pc \in {"rmdownloads", "rmfiles"}, pc' = pc,
             Latest(a, rest), rest' = rest \ {a}, fs' = Deleted(a)
      PROVE  Plain' /\ Litter'
  <2>1. rest \in SUBSET Path /\ a \in Path
    BY DEF TypeInv, TypeOK
  <2>2. /\ \A q \in Path : fs'[q] = fs[q] \/ (q = a /\ fs'[q] = Absent)
        /\ a \notin Above[Dest] /\ Removable(a) => fs'[a] = Absent
    BY <1>4, <2>1, DeletedIs
  <2>3. Plain'
    BY <2>2, LessPlain
  <2>4. CASE pc = "rmfiles"
    <3>1. Waste \subseteq rest \cup Last
      BY <2>4 DEF Litter
    <3>2. \A c \in Last : Parent[c] = a => a \in Last \cup Above[Dest]
      BY <2>1, ChainIs DEF Last
    <3>3. Waste' \subseteq (rest \ {a}) \cup Last
      BY <1>1, <1>4, <2>1, <3>1, <3>2, SweepWaste
    <3> QED
      BY <1>2, <1>4, <2>3, <2>4, <3>3 DEF Litter
  <2>5. CASE pc = "rmdownloads"
    <3>1. Waste \subseteq Sentenced \cup rest \cup Last
      BY <2>5 DEF Litter
    <3>2. a \in Image(Downloads)
      BY <1>4, <2>5 DEF Queues, Sparing
    <3>3. a \notin Above[Dest] /\ fs[a] # Dir
      BY <3>2, Below, OwnPlaces DEF Sparing, OwnFiles
    <3>4. fs[a].kind \in {"absent", "dir", "prior", "partial", "new"}
      BY <2>1 DEF TypeInv, TypeOK, Node
    <3>5. fs[a] = Absent \/ Removable(a)
      BY <2>1, <3>3, <3>4 DEF Removable, IsObject, Plain
    <3>6. fs'[a] = Absent
      BY <2>1, <2>2, <3>3, <3>5
    <3>7. Waste' \subseteq Waste \ {a}
      BY <1>2, <2>2, <3>6 DEF Waste, Exists
    <3>8. Sentenced \subseteq Sentenced'
      <4>1. \A q \in Path : fs'[q] = Dir => fs[q] = Dir
        BY <2>2, Kinds
      <4> QED
        BY <1>1, <1>2, <4>1 DEF Sentenced, TypeInv, TypeOK
    <3> QED
      BY <1>2, <1>4, <2>3, <2>5, <3>1, <3>7, <3>8 DEF Litter
  <2> QED
    BY <1>4, <2>4, <2>5
<1> QED
  BY <1>1, <1>3, <1>4

\* What is restored was there, and empties a rollback file.
LEMMA NextRestored ==
  ASSUME Faults = {}, TypeInv, Safe, Stored, Vacant, Plain, Litter, pc = "rollback", Rollback,
         rollbacks # <<>>
  PROVE  Plain' /\ Litter'
<1>1. PICK n \in Nat : n = Len(rollbacks)
  BY Files
<1>2. /\ n \in DOMAIN rollbacks /\ job' = job /\ pc' = pc
      /\ IF Held(n) THEN fs' = Moved(Slot[n], rollbacks[n]) ELSE fs' = fs
  BY <1>1, Restored
<1>3. before' = before /\ Last' = Last
  BY <1>2, Fixed DEF Last
<1>4. CASE ~Held(n)
  BY <1>2, <1>3, <1>4 DEF Plain, Litter, Waste, Exists
<1>5. CASE Held(n)
  <2>1. Slot[n] \in Path /\ rollbacks[n] \in Path
    BY <1>2, Files
  <2>2. fs' = [fs EXCEPT ![rollbacks[n]] = fs[Slot[n]], ![Slot[n]] = Absent]
    BY <1>2, <1>5 DEF Moved
  <2>3. \A q \in Path : \/ fs'[q] = fs[q] \/ fs'[q] = Absent
                        \/ q = rollbacks[n] /\ fs'[q] = fs[Slot[n]]
    BY <2>1, <2>2 DEF TypeInv, TypeOK
  <2>4. Plain'
    BY <2>1, <2>3, LessPlain
  <2>5. before[rollbacks[n]] # Absent
    BY <1>2, <1>5 DEF Stored, HeldAre, Held, Exists
  <2>6. Waste' \subseteq Waste
    BY <1>3, <2>3, <2>5 DEF Waste, Exists
  <2> QED
    BY <1>2, <1>3, <2>4, <2>6 DEF Litter
<1> QED
  BY <1>4, <1>5

\* When everything is restored the directories of the rollback files are left, and
\* go last.
LEMMA NextSwabbed ==
  ASSUME Faults = {}, TypeInv, Queues, Plain, Litter, [Next]_vars,
         \/ pc = "rollback" /\ Rollback /\ rollbacks = <<>> /\ Stored
         \/ pc = "rmscratch" /\ RevertScratch
  PROVE  Plain' /\ Litter'
<1>1. job' = job /\ before' = before
  BY JobFixed, Fixed
<1>2. CASE pc = "rollback" /\ Rollback /\ rollbacks = <<>> /\ Stored
  <2>1. pc' = "rmscratch" /\ fs' = fs /\ rest' = ScratchDirs
    BY <1>2 DEF Rollback, Goto
  <2>2. Waste \subseteq ScratchDirs
    <3>1. Waste \subseteq Last /\ Dir # Absent
      BY <1>2, Kinds DEF Litter
    <3>2. \A p \in Image(Slot) : ~Exists(p)
      BY <1>2 DEF Stored, SlotsFree, Image
    <3>3. Waste \cap Image(Slot) = {}
      BY <3>2 DEF Waste
    <3>4. Waste = {} \/ Dest \notin Waste
      BY <3>1 DEF Last, Waste
    <3> QED
      BY <3>1, <3>3, <3>4 DEF Last, Chain
  <2> QED
    BY <1>1, <2>1, <2>2 DEF Plain, Litter, Waste, Exists
<1>3. CASE pc = "rmscratch" /\ RevertScratch
  <2>1. Waste \subseteq rest /\ rest \in SUBSET Path
    BY <1>3 DEF Litter, TypeInv, TypeOK
  <2>2. CASE pc' = "exit23" /\ fs' = fs /\ rest = {}
    BY <1>1, <2>1, <2>2 DEF Plain, Litter, Waste, Exists
  <2>3. CASE \E a \in rest : Latest(a, rest) /\ fs' = Deleted(a) /\ rest' = rest \ {a} /\ pc' = pc
    <3>1. PICK a \in rest : Latest(a, rest) /\ fs' = Deleted(a) /\ rest' = rest \ {a} /\ pc' = pc
      BY <2>3
    <3>2. Waste' \subseteq (rest \ {a}) \cup {}
      BY <1>1, <2>1, <3>1, SweepWaste
    <3>3. Plain'
      BY <2>1, <3>1, DeletedIs, LessPlain
    <3> QED
      BY <1>3, <3>1, <3>2, <3>3 DEF Litter
  <2> QED
    BY <1>3, <2>2, <2>3 DEF RevertScratch, Sweep, TryDelete, Latest, Goto
<1> QED
  BY <1>2, <1>3

\* All of it holds from the start.
LEMMA InitDebris ==
  ASSUME Heirs, Init
  PROVE  DebrisInv
<1>1. /\ AtomicInv /\ TypeInv /\ Proper /\ pc = "task" /\ fs = before
  BY InitAtomic DEF AtomicInv, CleanInv, Clean, Base, DiskInv, Init, Forward, Working
<1>2. DirsMade
  BY <1>1 DEF DirsMade
<1>3. Plain
  BY <1>1 DEF Plain, Proper
<1> QED
  BY <1>1, <1>2, <1>3 DEF DebrisInv, Litter

\* And it holds after every step.
LEMMA NextDebris ==
  ASSUME Faults = {}, Heirs, Builders, DebrisInv, [Next]_vars
  PROVE  DebrisInv'
<1>1. /\ AtomicInv /\ Sounds /\ TypeInv /\ SafeInv /\ Queues
      /\ pc \in Working => fate = "open"
      /\ pc \in Forward => Clean /\ DirsMade
  BY DEF Heirs, DebrisInv, AtomicInv, CleanInv, Base, NeverInv, Committed, Working
<1>2. AtomicInv'
  BY <1>1, NextAtomic
<1>3. SafeInv' /\ (pc \in Forward => Proper)'
  BY <1>2 DEF AtomicInv, CleanInv, Base, Clean, DiskInv
<1>4. (pc \in Forward => DirsMade)'
  <2> SUFFICES ASSUME pc' \in Forward PROVE DirsMade'
    OBVIOUS
  <2>1. pc \in Forward
    BY ForwardSteps
  <2>2. pc \in Working => Sure
    BY <1>1, <2>1, AlwaysViews DEF Ahead
  <2>3. Course /\ DirsMade
    BY <1>1, <2>1 DEF Clean, LogsInv
  <2> QED
    BY <1>1, <2>2, <2>3, NextDirsMade
<1>5. ASSUME fate' = "open"
      PROVE  Plain' /\ Litter'
  <2>1. fate = "open" /\ (pc \in Deleting \cup {"rollback"} => Safe)
    BY <1>1, <1>5, FateStays DEF SafeInv, Deleting, Ended
  <2>2. /\ pc \in Ahead \cup Deleting \cup {"rollback"} \cup Halting
        /\ pc \in Ahead => Standing /\ Sure
        /\ pc \in Deleting => Sparing
        /\ pc = "rollback" => Stored /\ Vacant
    BY <1>1, <2>1, AlwaysViews DEF AtomicInv
  <2>3. Plain /\ Litter
    BY <2>1 DEF DebrisInv
  <2>4. CASE UNCHANGED vars
    <3>1. before' = before /\ old' = old
      BY <2>4, Fixed DEF vars
    <3> QED
      BY <2>3, <2>4, <3>1 DEF vars, Plain, Litter, Waste, Exists, Sentenced, Last
  <2>5. CASE pc \in Ahead /\ pc' \in Ahead
    <3>1. pc' \in Forward /\ pc' \notin Reverting \cup {"exit23"}
      BY <2>5 DEF Ahead, Forward, Working, Busy, Reverting
    <3>2. Plain'
      BY <1>3, <3>1 DEF Proper, Plain
    <3> QED
      BY <3>1, <3>2 DEF Litter, Reverting
  <2>6. CASE pc \in Working /\ pc' \notin Forward
    <3>1. pc \in Ahead /\ pc \in Forward
      BY <2>6 DEF Ahead, Forward
    <3> QED
      BY <1>1, <2>2, <2>6, <3>1, FallsLittered
  <2>7. CASE pc \in Deleting
    BY <1>1, <2>1, <2>2, <2>3, <2>7, NextLitter
  <2>8. CASE pc = "rollback" /\ Rollback /\ rollbacks # <<>>
    BY <1>1, <2>1, <2>2, <2>3, <2>8, NextRestored
  <2>9. CASE \/ pc = "rollback" /\ Rollback /\ rollbacks = <<>>
             \/ pc = "rmscratch" /\ RevertScratch
    BY <1>1, <2>2, <2>3, <2>9, NextSwabbed
  <2> QED
    BY <1>3, <1>5, <1>1, <2>1, <2>2, <2>4, <2>5, <2>6, <2>7, <2>8, <2>9, OpenSteps
<1> QED
  BY <1>2, <1>4, <1>5 DEF DebrisInv

\* As long as nothing is injected a reverted run leaves nothing below the
\* destination that was not there before it: every directory and file is in a log
\* when the revert starts, and each directory is empty when its turn comes
\* (install_parent_dirs, flatten_manifest, delete_files, delete_scratchdirs).
THEOREM NoDebris ==
  ASSUME Faults = {}, Heirs, Builders
  PROVE  Spec => []RevertLeavesNoDebris
<1>1. Init => DebrisInv
  BY InitDebris
<1>2. DebrisInv /\ [Next]_vars => DebrisInv'
  BY NextDebris
<1>3. DebrisInv => RevertLeavesNoDebris
  <2> SUFFICES ASSUME DebrisInv, pc = "exit23"
               PROVE  \A p \in Path \ Above[Dest] : Exists(p) => before[p] # Absent
    BY DEF RevertLeavesNoDebris
  <2>1. fate = "open"
    BY DEF DebrisInv, AtomicInv, Decided, Cleaning
  <2>2. Waste = {}
    BY <2>1 DEF DebrisInv, Litter
  <2> QED
    BY <2>2 DEF Waste
<1> QED
  BY <1>1, <1>2, <1>3, PTL DEF Spec
=============================================================================
