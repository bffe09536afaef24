----------------------------- MODULE InstallTxn -----------------------------
(***************************************************************************)
(* One run of the MojoSetup installer, from the "source list" stage of     *)
(* do_install() to the end of the process, as a transaction on the file    *)
(* system (scripts/mojosetup_mainline.lua).                                *)
(*                                                                         *)
(* The installer keeps two logs in Lua tables: the manifest (every path it *)
(* created) and the rollbacks (every path whose old object was moved to    *)
(* .mojosetup/tmp/rollbacks/<id>).  fatal() runs real_revertinstall(),     *)
(* which deletes what the manifest lists and moves the rollbacks back; the *)
(* last stage deletes the rollbacks instead.  A step is one system call or *)
(* one update of a log, because a signal can run fatal() between any two.  *)
(***************************************************************************)
EXTENDS Naturals, Sequences, FiniteSets

CONSTANTS
  Path,          \* every path the run can touch, Dest and its parents included
  Root,          \* "/", the parent of the topmost paths; never in Path
  Parent,        \* [Path -> Path \cup {Root}]
  Above,         \* [Path -> SUBSET Path], the proper ancestors of a path
  Rank,          \* [Path -> Nat], the order of MojoSetup.strcmp on paths
  Dest,          \* MojoSetup.destination
  MetaDir,       \* MojoSetup.metadatadir, <Dest>/.mojosetup
  ScratchDir,    \* MojoSetup.scratchdir, <MetaDir>/tmp
  RollbackDir,   \* MojoSetup.rollbackdir, <ScratchDir>/rollbacks
  DownloadDir,   \* MojoSetup.downloaddir, <ScratchDir>/downloads
  Slot,          \* sequence of the paths <RollbackDir>/1, <RollbackDir>/2, ...
  Downloads,     \* sequence of the paths <DownloadDir>/0, ... to download to
  MenuFiles,     \* sequence of the .desktop files of Setup.DesktopMenuItem
  Scripts,       \* sequence of the uninstall script and the product key files
  Manifests,     \* sequence of the manifest files below <MetaDir>/manifest
  Scenarios,     \* sequence of [tree, links, oldFiles, oldDirs, archive, control,
                 \* work, noprompt]
  Faults         \* which of FaultKind the environment may inject

FaultKind == {"delete", "restore", "signal", "kill"}

\* What a path holds: nothing, a directory, an object that was there before
\* the run, a file being written, or an object written by this run.  A file
\* and a symbolic link are both objects; "of" tells two objects apart.
Node == [kind : {"absent", "dir", "prior", "partial", "new"}, of : Path]

Absent     == [kind |-> "absent",  of |-> Dest]
Dir        == [kind |-> "dir",     of |-> Dest]
Prior(p)   == [kind |-> "prior",   of |-> p]
Partial(p) == [kind |-> "partial", of |-> p]
New(p)     == [kind |-> "new",     of |-> p]

IsObject(n) == n.kind \in {"prior", "partial", "new"}

\* A unit of work of the stages.  name is the archive's name for the entry,
\* the key it is looked up with in MojoSetup.oldfiles; allow is the
\* allowoverwrite attribute of Setup.File.
Task == [do : {"gate", "install", "put", "fetch", "menu", "menusdone",
               "obsolete", "declare", "manifest"},
         path : Path, name : Path, kind : {"file", "dir", "symlink"},
         allow : BOOLEAN]

Bare(d)    == [do |-> d, path |-> Dest, name |-> Dest, kind |-> "file",
               allow |-> FALSE]
Own(d, p)  == [do |-> d, path |-> p, name |-> p, kind |-> "file",
               allow |-> FALSE]
Owns(d, s) == [i \in DOMAIN s |-> Own(d, s[i])]
DestTask   == [do |-> "put", path |-> Dest, name |-> Dest, kind |-> "dir",
               allow |-> FALSE]

\* The work of the stages in the order of the code: the destination directory
\* and the preflight hook; the downloads; the preinstall hook, the archives,
\* the menu items, the uninstall script and product keys, the obsolete files,
\* the postinstall hook, the control application, the manifests.
Work(archive, control) ==
  <<DestTask, Bare("gate")>>
    \o Owns("fetch", Downloads)
    \o <<Bare("gate")>> \o archive
    \o Owns("menu", MenuFiles) \o <<Bare("menusdone")>>
    \o Owns("put", Scripts)
    \o <<Bare("obsolete"), Bare("gate")>> \o control
    \o Owns("declare", Manifests) \o Owns("manifest", Manifests)

Image(s) == {s[i] : i \in DOMAIN s}

\* The directories delete_scratchdirs() removes.
ScratchDirs == {DownloadDir, RollbackDir, ScratchDir, MetaDir}

\* Paths the installer writes without asking permit_write() first.
OwnPaths == Image(Slot) \cup Image(Downloads) \cup Image(MenuFiles)
              \cup Image(Scripts) \cup Image(Manifests)

\* Every other path: what is there before the run is the user's, and goes
\* through permit_write() and backup_file().
Protected == Path \ OwnPaths

\* The rollback files and every directory above one.
Hidden == Image(Slot) \cup UNION {Above[p] : p \in Image(Slot)}

\* What an archive may ask for.
Entry == {t \in Task : /\ t.do = "install" /\ t.path \notin Image(Slot)
                       /\ t.kind # "dir" => t.path \notin Hidden}

ASSUME TreeAssumption ==
  /\ Root \notin Path
  /\ Parent \in [Path -> Path \cup {Root}]
  /\ Above \in [Path -> SUBSET Path]
  /\ \A p \in Path : Above[p] = IF Parent[p] = Root THEN {}
                                ELSE Above[Parent[p]] \cup {Parent[p]}
  /\ \A p \in Path : \A a \in Above[p] : Above[a] \subseteq Above[p]
  /\ \A p \in Path : p \notin Above[p]
  /\ Rank \in [Path -> Nat]
  /\ \A p \in Path \ Above[Dest] :
       \A a \in Above[p] \ Above[Dest] : Rank[a] < Rank[p]
  /\ {Dest} \cup ScratchDirs \subseteq Path

ASSUME SequenceAssumption ==
  /\ Slot \in Seq(Path)
  /\ \A i, j \in DOMAIN Slot : Slot[i] = Slot[j] => i = j
  /\ Downloads \in Seq(Path) /\ MenuFiles \in Seq(Path)
  /\ Scripts \in Seq(Path) /\ Manifests \in Seq(Path)

\* Nothing but backup_file() has to do with the names of the rollback files.
ASSUME SlotAssumption ==
  /\ \A p \in Path : Above[p] \cap Image(Slot) = {}
  /\ Image(Slot) \cap (Image(Downloads) \cup Image(MenuFiles) \cup Image(Scripts)
                        \cup Image(Manifests) \cup ScratchDirs \cup {Dest}) = {}

\* Where the destination and the metadata directory have what is the installer's.
ASSUME LayoutAssumption ==
  /\ Parent[MetaDir] = Dest /\ Parent[ScratchDir] = MetaDir
  /\ Parent[RollbackDir] = ScratchDir /\ Parent[DownloadDir] = ScratchDir
  /\ \A p \in Image(Slot) : Parent[p] = RollbackDir
  /\ \A p \in Image(Downloads) : Parent[p] = DownloadDir

\* A bound of the model: nothing is installed, backed up or put back through a
\* symbolic link to a directory, which is only met where an entry itself goes.
NothingThrough(sc) ==
  \A p \in {t.path : t \in Image(sc.work)} \cup Image(Slot) : Above[p] \cap sc.links = {}

ASSUME ScenarioAssumption ==
  /\ \A s \in DOMAIN Scenarios :
       LET sc == Scenarios[s] IN
       /\ sc.tree \in [Path -> Node]
       /\ \A p \in Path : sc.tree[p] \in {Absent, Dir, Prior(p)}
       /\ \A p \in Path : sc.tree[p] # Absent =>
                           \A a \in Above[p] : sc.tree[a] = Dir
       /\ \A p \in OwnPaths : sc.tree[p] # Dir
       /\ sc.links \subseteq {p \in Protected : sc.tree[p] = Prior(p)}
       /\ NothingThrough(sc)
       /\ \A p \in Image(Slot) : sc.tree[p] = Absent
       /\ \A p \in ScratchDirs : sc.tree[p] \in {Absent, Dir}
       /\ sc.oldFiles \subseteq Path \ Hidden /\ sc.oldDirs \subseteq Path
       /\ sc.archive \in Seq(Entry) /\ sc.control \in Seq(Entry)
       /\ sc.work = Work(sc.archive, sc.control)
       /\ sc.noprompt \in BOOLEAN
  /\ Faults \subseteq FaultKind

VARIABLES
  job,        \* which of the Scenarios this run is
  fs,         \* [Path -> Node]
  manifest,   \* the keys of MojoSetup.manifest
  seen,       \* the keys of MojoSetup.oldfiles with .seen set
  rollbacks,  \* MojoSetup.rollbacks
  downloads,  \* MojoSetup.downloads, as a set
  menus,      \* menu items registered with the desktop (external)
  menusDone,  \* MojoSetup.installed_menu_items
  force,      \* MojoSetup.forceoverwrite: nil, true or false
  step,       \* how many tasks of the plan have been started
  stack,      \* paths whose backup_file() call has not returned
  made,       \* the path just created, to be entered in the manifest
  rest,       \* paths a deletion loop still has to try
  fate,       \* MojoSetup.rollbacks: "open", emptied ("closing") or nil ("kept")
  torn,       \* what backup_file() had copied half when a signal came
  pc          \* where the program is

logs  == <<manifest, seen, rollbacks, downloads>>
menuv == <<menus, menusDone>>
ctl   == <<step, stack, made, rest>>
vars  == <<job, fs, manifest, seen, rollbacks, downloads, menus, menusDone,
           force, step, stack, made, rest, fate, torn, pc>>

before   == Scenarios[job].tree
links    == Scenarios[job].links    \* the symbolic links to directories
oldFiles == Scenarios[job].oldFiles
oldDirs  == Scenarios[job].oldDirs
old      == oldFiles \cup oldDirs

\* The command line has --noprompt.
SkipPrompt == Scenarios[job].noprompt

\* The task being done.
Plan == Scenarios[job].work
cur  == Plan[step]

\* The links to directories that have the path of a directory of the package.
Taken == {p \in links : \E t \in Image(Plan) : t.kind = "dir" /\ t.path = p}

-----------------------------------------------------------------------------
(* The file system, as platform_unix.c presents it. *)

Exists(p)    == fs[p] # Absent

\* MojoPlatform_isdir() goes where a symbolic link points to.
IsDirectory(p) == fs[p] = Dir \/ \E l \in links : fs[p] = Prior(l)

Children(p)  == {c \in Path : Parent[c] = p /\ Exists(c)}
ParentOK(p)  == Parent[p] # Root => fs[Parent[p]] = Dir

\* unlink() an object, rmdir() an empty directory; anything else fails.
Removable(p) == IsObject(fs[p]) \/ (fs[p] = Dir /\ Children(p) = {})

\* rename(2): a directory only replaces an empty directory, a file never does;
\* movefile() then copies the file over what MojoPlatform_unlink() removed.
CanMove(p, q) ==
  /\ Exists(p) /\ ParentOK(q)
  /\ IF fs[p] = Dir THEN fs[q] = Absent \/ (fs[q] = Dir /\ Children(q) = {})
     ELSE fs[q] = Absent \/ Removable(q)

Moved(p, q) == [fs EXCEPT ![q] = fs[p], ![p] = Absent]

\* MojoSetup.movefile() returning false: nothing happened, or the copy it
\* falls back to has removed the destination.
MoveFailed(p, q) ==
  fs' = fs \/ (Exists(p) /\ Removable(q) /\ fs' = [fs EXCEPT ![q] = Absent])

\* What the copy leaves that a signal interrupts: the source is still there, and
\* the destination is removed, half a copy, or a whole one.  (The copy of a
\* symbolic link is one of what it points to.)
CutShort(p, q) ==
  {[fs EXCEPT ![q] = n] :
     n \in {m \in {Absent, Partial(q), fs[p]} :
              /\ Exists(p) /\ ParentOK(q) /\ (Exists(q) => Removable(q))
              /\ m = fs[p] => IsObject(m)}}

\* do_delete() without and with an error.  The absolute names of Dest's own
\* parents never name anything below Dest: the deletion "succeeds".
Deleted(p) == IF p \notin Above[Dest] /\ Removable(p)
              THEN [fs EXCEPT ![p] = Absent] ELSE fs

TryDelete(p) == fs' = Deleted(p) \/ ("delete" \in Faults /\ fs' = fs)

-----------------------------------------------------------------------------
(* The logs. *)

\* Mutants: every path becomes "seen", one the previous version lacks as
\* well; a path of the previous version is marked but not entered.
EnterUnchecked(p) == manifest' = manifest \cup {p} /\ seen' = seen \cup {p}

EnterNewOnly(p) == /\ manifest' = manifest \cup ({p} \ old)
                   /\ seen' = seen \cup ({p} \cap old)

\* manifest_add(): a path of the previous version becomes "seen".
Enter(p) == /\ manifest' = manifest \cup {p}
            /\ seen' = seen \cup ({p} \cap old)

\* The rollback file of the next backup_file().
NextSlot  == Slot[Len(rollbacks) + 1]
SlotsLeft == Len(rollbacks) < Len(Slot)    \* a bound of the model

Top == stack[Len(stack)]
Pop == SubSeq(stack, 1, Len(stack) - 1)

\* The path whose parents install_parent_dirs() is creating.
Target  == IF stack = <<>> THEN cur.path ELSE NextSlot
Missing == {a \in Above[Target] : ~Exists(a)}

Goto(l) == pc' = l

\* fatal(): the message is shown, then MojoSetup.revertinstall() runs.
Fatal == Goto("revert")

-----------------------------------------------------------------------------
(* Starting a task, and the steps that may only stop the installation. *)

\* Mutant: entries of an archive are installed without permit_write().
FirstStepUnasked == [gate |-> "gate", install |-> "parents", put |-> "parents",
                     fetch |-> "parents", menu |-> "parents",
                     menusdone |-> "menusdone", obsolete |-> "obsolete",
                     declare |-> "declare", manifest |-> "parents"]

FirstStep == [gate |-> "gate", install |-> "permit", put |-> "parents",
              fetch |-> "parents", menu |-> "parents",
              menusdone |-> "menusdone", obsolete |-> "obsolete",
              declare |-> "declare", manifest |-> "parents"]

StartTask ==
  /\ pc = "task" /\ step < Len(Plan)
  /\ step' = step + 1
  /\ Goto(FirstStep[Plan[step + 1].do])
  /\ UNCHANGED <<job, fs, logs, menuv, force, stack, made, rest, fate, torn>>

\* run_config_defined_hook() and the insert-media loop: go on, or be fatal.
Gate ==
  /\ pc = "gate"
  /\ Goto("task") \/ Fatal
  /\ UNCHANGED <<job, fs, logs, menuv, force, ctl, fate, torn>>

MenusInstalled ==
  /\ pc = "menusdone"
  /\ menusDone' = TRUE
  /\ Goto("task")
  /\ UNCHANGED <<job, fs, logs, menus, force, ctl, fate, torn>>

\* install_manifests() enters its three files before it writes them.
Declare ==
  /\ pc = "declare"
  /\ Enter(cur.path)
  /\ Goto("task")
  /\ UNCHANGED <<job, fs, rollbacks, downloads, menuv, force, ctl, fate, torn>>

-----------------------------------------------------------------------------
(* permit_write() and backup_file(). *)

Answers == {"yes", "no", "always", "never"}

\* Mutant: allowoverwrite is asked before MojoSetup.forceoverwrite.
VerdictAllowFirst(ans) ==
  \/ cur.name \in old \/ cur.allow
  \/ IF force # "unset" THEN force = "always" ELSE ans \in {"yes", "always"}

\* May the existing object at cur.path be replaced, and with what answer?
Verdict(ans) ==
  IF cur.name \in old THEN TRUE
  ELSE IF force # "unset" THEN force = "always"
  ELSE cur.allow \/ ans \in {"yes", "always"}

Asked == ~(cur.name \in old \/ force # "unset" \/ cur.allow)

PermitWrite ==
  /\ pc = "permit"
  /\ IF ~Exists(cur.path) \/ cur.kind = "dir"
     THEN Goto("parents") /\ UNCHANGED <<force, stack>>
     ELSE \E ans \in Answers :
            /\ IF Verdict(ans)
               THEN Goto("backup") /\ stack' = <<cur.path>>
               ELSE Goto("task") /\ stack' = stack
            /\ force' = IF Asked /\ ans \in {"always", "never"} THEN ans
                        ELSE force
  /\ UNCHANGED <<job, fs, logs, menuv, step, made, rest, fate, torn>>

\* Objects of the previous version that this one no longer has.
Obsolete == {p \in oldFiles \ seen : Exists(p)}

PickObsolete ==
  /\ pc = "obsolete"
  /\ \/ Obsolete = {} /\ Goto("task") /\ stack' = stack
     \/ \E p \in Obsolete : stack' = <<p>> /\ Goto("backup")
  /\ UNCHANGED <<job, fs, logs, menuv, force, step, made, rest, fate, torn>>

\* backup_file() of a directory backs up what is in it first.
BackupDescend ==
  /\ pc = "backup" /\ fs[Top] = Dir
  /\ \E c \in Children(Top) : stack' = Append(stack, c)
  /\ UNCHANGED <<job, fs, logs, menuv, force, step, made, rest,
                 fate, pc, torn>>

BackupReady ==
  /\ pc = "backup" /\ SlotsLeft
  /\ fs[Top] = Dir => Children(Top) = {}
  /\ Goto("parents")
  /\ UNCHANGED <<job, fs, logs, menuv, force, ctl, fate, torn>>

LogRollback ==
  /\ pc = "log" /\ SlotsLeft
  /\ rollbacks' = Append(rollbacks, Top)
  /\ Goto("move")
  /\ UNCHANGED <<job, fs, manifest, seen, downloads, menuv, force, ctl,
                 fate, torn>>

MoveAway ==
  /\ pc = "move"
  /\ LET id == Len(rollbacks) IN
     \/ /\ CanMove(Top, Slot[id])
        /\ fs' = Moved(Top, Slot[id])
        /\ seen' = seen \cup ({Top} \cap old)
        /\ stack' = Pop
        /\ Goto(IF Pop # <<>> THEN "backup"
                ELSE IF cur.do = "obsolete" THEN "obsolete" ELSE "parents")
     \/ MoveFailed(Top, Slot[id]) /\ Fatal /\ UNCHANGED <<seen, stack>>
  /\ UNCHANGED <<job, manifest, rollbacks, downloads, menuv, force, step,
                 made, rest, fate, torn>>

-----------------------------------------------------------------------------
(* install_parent_dirs(), install_directory(), install_file(),             *)
(* install_symlink(), the downloads and the menu items.                    *)

\* mkdir() of a: success, or an error that is fatal unless a is a directory, or a
\* link to one, which is then entered as if the installer had made it.
MakeDir(a) ==
  \/ /\ ~Exists(a) /\ ParentOK(a)
     /\ fs' = [fs EXCEPT ![a] = Dir] /\ made' = a /\ Goto("record")
  \/ IsDirectory(a) /\ fs' = fs /\ made' = a /\ Goto("record")
  \/ ~IsDirectory(a) /\ fs' = fs /\ made' = made /\ Fatal

MakeParent ==
  /\ pc = "parents"
  /\ \E a \in Missing : Above[a] \cap Missing = {} /\ MakeDir(a)
  /\ UNCHANGED <<job, logs, menuv, force, step, stack, rest, fate, torn>>

\* All parents exist: back to backup_file(), or create the entry itself.
Create == IF cur.kind = "dir" THEN "mkdir"
          ELSE IF cur.kind = "symlink" THEN "link"
          ELSE IF cur.do = "fetch" THEN "open"
          ELSE IF cur.do = "manifest" THEN "open" ELSE "claim"

ParentsDone ==
  /\ pc = "parents" /\ Missing = {}
  /\ Goto(IF stack # <<>> THEN "log" ELSE Create)
  /\ UNCHANGED <<job, fs, logs, menuv, force, ctl, fate, torn>>

MakeEntryDir ==
  /\ pc = "mkdir"
  /\ MakeDir(cur.path)
  /\ UNCHANGED <<job, logs, menuv, force, step, stack, rest, fate, torn>>

MakeLink ==
  /\ pc = "link"
  /\ \/ /\ ~Exists(cur.path) /\ ParentOK(cur.path)
        /\ fs' = [fs EXCEPT ![cur.path] = New(cur.path)]
        /\ made' = cur.path /\ Goto("record")
     \/ fs' = fs /\ made' = made /\ Fatal
  /\ UNCHANGED <<job, logs, menuv, force, step, stack, rest, fate, torn>>

\* manifest_add() of what MakeDir or MakeLink created.
Record ==
  /\ pc = "record"
  /\ Enter(made)
  /\ Goto(IF stack = <<>> /\ made = cur.path THEN "task" ELSE "parents")
  /\ UNCHANGED <<job, fs, rollbacks, downloads, menuv, force, ctl, fate, torn>>

\* install_file() enters the file first, so that a failed write is reverted.
Claim ==
  /\ pc = "claim"
  /\ Enter(cur.path)
  /\ Goto("open")
  /\ UNCHANGED <<job, fs, rollbacks, downloads, menuv, force, ctl, fate, torn>>

\* MojoInput_toPhysicalFile(): remove what is there, create, then fill.
OpenFile ==
  /\ pc = "open"
  /\ \/ /\ ParentOK(cur.path) /\ (Exists(cur.path) => Removable(cur.path))
        /\ fs' = [fs EXCEPT ![cur.path] = Partial(cur.path)]
        /\ Goto("write")
     \/ /\ \/ fs' = fs
           \/ Removable(cur.path) /\ fs' = [fs EXCEPT ![cur.path] = Absent]
        /\ Fatal
  /\ UNCHANGED <<job, logs, menuv, force, ctl, fate, torn>>

WriteFile ==
  /\ pc = "write"
  /\ \/ /\ fs' = [fs EXCEPT ![cur.path] = New(cur.path)]
        /\ Goto(CASE cur.do = "fetch"    -> "fetched"
                  [] cur.do = "manifest" -> "task"
                  [] OTHER               -> "unclaim")
     \/ fs' = [fs EXCEPT ![cur.path] = Absent] /\ Fatal
  /\ UNCHANGED <<job, logs, menuv, force, ctl, fate, torn>>

\* The entry is replaced by one that has the checksums.
Unclaim ==
  /\ pc = "unclaim"
  /\ manifest' = manifest \ {cur.path}
  /\ Goto("reclaim")
  /\ UNCHANGED <<job, fs, seen, rollbacks, downloads, menuv, force, ctl,
                 fate, torn>>

Reclaim ==
  /\ pc = "reclaim"
  /\ Enter(cur.path)
  /\ Goto(IF cur.do = "menu" THEN "register" ELSE "task")
  /\ UNCHANGED <<job, fs, rollbacks, downloads, menuv, force, ctl, fate, torn>>

\* MojoSetup.downloads learns of a file only once it is complete.
Fetched ==
  /\ pc = "fetched"
  /\ downloads' = downloads \cup {cur.path}
  /\ Goto("task")
  /\ UNCHANGED <<job, fs, manifest, seen, rollbacks, menuv, force, ctl,
                 fate, torn>>

\* MojoPlatform_installDesktopMenuItem() runs xdg-desktop-menu.
RegisterMenu ==
  /\ pc = "register"
  /\ \/ menus' = menus \cup {cur.path} /\ Goto("task")
     \/ menus' = menus /\ Fatal
  /\ UNCHANGED <<job, fs, logs, menusDone, force, ctl, fate, torn>>

-----------------------------------------------------------------------------
(* Deletion loops: delete_files() goes through a list from its end, and    *)
(* the lists are sorted, so the greatest path is tried first.              *)

\* Mutants: the list is gone through from its start; a deletion that failed
\* is tried again.
Earliest(p, S) == p \in S /\ \A q \in S : Rank[p] <= Rank[q]

Latest(p, S) == p \in S /\ \A q \in S : Rank[q] <= Rank[p]

SweepRetrying(here, next, queue) ==
  /\ pc = here
  /\ \/ /\ \E p \in rest :
             /\ Latest(p, rest) /\ TryDelete(p)
             /\ rest' = IF fs' = fs THEN rest ELSE rest \ {p}
        /\ pc' = pc
     \/ rest = {} /\ fs' = fs /\ rest' = queue /\ Goto(next)
  /\ UNCHANGED <<job, logs, menuv, force, step, stack, made, fate, torn>>

\* One round of the loop at label here; when it is over, queue is next's list.
Sweep(here, next, queue) ==
  /\ pc = here
  /\ \/ /\ \E p \in rest : Latest(p, rest) /\ TryDelete(p) /\ rest' = rest \ {p}
        /\ pc' = pc
     \/ rest = {} /\ fs' = fs /\ rest' = queue /\ Goto(next)
  /\ UNCHANGED <<job, logs, menuv, force, step, stack, made, fate, torn>>

-----------------------------------------------------------------------------
(* The last stage: the installation succeeded. *)

FinishStages ==
  /\ pc = "task" /\ step = Len(Plan)
  /\ IF SkipPrompt
     THEN Goto("show") /\ UNCHANGED <<rollbacks, rest, fate>>
     ELSE /\ Goto("dropslots")
          /\ rollbacks' = <<>>
          /\ rest' = {Slot[i] : i \in 1 .. Len(rollbacks)}
          /\ fate' = "closing"
  /\ UNCHANGED <<job, fs, manifest, seen, downloads, menuv, force, step,
                 stack, made, torn>>

ObsoleteDirs == oldDirs \ seen

DropSlots     == Sweep("dropslots", "dropdownloads", downloads)
DropDownloads == Sweep("dropdownloads", "dropscratch", ScratchDirs)
DropScratch   == Sweep("dropscratch", "dropdirs", ObsoleteDirs)

\* The directories of the previous version, in the order of a hash table.
DropDirs ==
  /\ pc = "dropdirs"
  /\ \/ /\ \E p \in rest : TryDelete(p) /\ rest' = rest \ {p}
        /\ pc' = pc
     \/ rest = {} /\ fs' = fs /\ rest' = rest /\ Goto("forget")
  /\ UNCHANGED <<job, logs, menuv, force, step, stack, made, fate, torn>>

\* "Don't let future errors delete files from successful installs..."
Forget ==
  /\ pc = "forget"
  /\ downloads' = {} /\ rollbacks' = <<>> /\ fate' = "kept"
  /\ Goto("show")
  /\ UNCHANGED <<job, fs, manifest, seen, menuv, force, ctl, torn>>

\* MojoSetup.gui.final() returns, stop_gui(), and the tables are dropped.
Show ==
  /\ pc = "show"
  /\ manifest' = {} /\ menusDone' = FALSE /\ fate' = "kept"
  /\ Goto("done")
  /\ UNCHANGED <<job, fs, seen, rollbacks, downloads, menus, force, ctl, torn>>

-----------------------------------------------------------------------------
(* real_revertinstall() *)

\* uninstall_desktop_menu_items(): an error calls fatal() inside fatal().
RevertMenus ==
  /\ pc = "revert"
  /\ IF menusDone /\ menus # {}
     THEN \E m \in menus :
            \/ menus' = menus \ {m} /\ pc' = pc /\ rest' = rest
            \/ menus' = menus /\ Goto("exit22") /\ rest' = rest
     ELSE menus' = menus /\ rest' = downloads /\ Goto("rmdownloads")
  /\ UNCHANGED <<job, fs, logs, menusDone, force, step, stack, made,
                 fate, torn>>

\* Mutant: nothing the previous version had is deleted.
CondemnedNew == manifest \ old

\* filter_manifest() spares the directories of the version being upgraded.
Condemned == manifest \ {p \in old : IsDirectory(p)}

RevertDownloads == Sweep("rmdownloads", "rmfiles", Condemned)
RevertFiles     == Sweep("rmfiles", "rollback", {})

\* do_rollbacks() from the last id to the first; Len(rollbacks) stands for
\* the loop's counter.
Rollback ==
  /\ pc = "rollback"
  /\ LET id == Len(rollbacks)
         p  == rollbacks[id]
     IN  IF id = 0
         THEN /\ rest' = ScratchDirs /\ Goto("rmscratch")
              /\ UNCHANGED <<fs, rollbacks>>
         ELSE /\ \/ CanMove(Slot[id], p) /\ fs' = Moved(Slot[id], p)
                 \/ ~CanMove(Slot[id], p) /\ MoveFailed(Slot[id], p)
                 \/ "restore" \in Faults /\ MoveFailed(Slot[id], p)
              /\ rollbacks' = SubSeq(rollbacks, 1, id - 1)
              /\ UNCHANGED <<rest, pc>>
  /\ UNCHANGED <<job, manifest, seen, downloads, menuv, force, step,
                 stack, made, fate, torn>>

RevertScratch == Sweep("rmscratch", "exit23", {})

-----------------------------------------------------------------------------
(* Signals, kill, the end. *)

Ended == {"done", "exit22", "exit23", "dead"}

Reverting == {"revert", "rmdownloads", "rmfiles", "rollback", "rmscratch"}

\* The disk when the process is stopped: in the middle of a move as well.
Interrupted ==
  {fs} \cup
  LET id == Len(rollbacks) IN
  CASE pc = "move"                   -> CutShort(Top, Slot[id])
    [] pc = "rollback" /\ id # 0     -> CutShort(Slot[id], rollbacks[id])
    [] OTHER                         -> {}

\* signal_catcher() calls fatal() at once; the second fatal() panics.
Signal ==
  /\ "signal" \in Faults /\ pc \notin Ended
  /\ fs' \in Interrupted
  /\ LET slot == Slot[Len(rollbacks)] IN
     torn' = IF pc = "move" /\ fs'[slot] = Partial(slot) THEN torn \cup {Top} ELSE torn
  /\ IF pc \in Reverting THEN Goto("exit22") ELSE Fatal
  /\ UNCHANGED <<job, logs, menuv, force, ctl, fate>>

\* The process disappears: SIGKILL, a power failure.
Kill ==
  /\ "kill" \in Faults /\ pc \notin Ended
  /\ fs' \in Interrupted
  /\ Goto("dead")
  /\ UNCHANGED <<job, logs, menuv, force, ctl, fate, torn>>

Ending == pc \in Ended /\ UNCHANGED vars

Init ==
  /\ job \in DOMAIN Scenarios
  /\ fs = before
  /\ manifest = {} /\ seen = {} /\ rollbacks = <<>> /\ downloads = {}
  /\ menus = {} /\ menusDone = FALSE /\ force = "unset"
  /\ step = 0 /\ stack = <<>> /\ made = Dest /\ rest = {}
  /\ fate = "open" /\ torn = {} /\ pc = "task"

Install ==
  \/ StartTask \/ Gate \/ MenusInstalled \/ Declare
  \/ PermitWrite \/ PickObsolete \/ BackupDescend \/ BackupReady
  \/ LogRollback \/ MoveAway
  \/ MakeParent \/ ParentsDone \/ MakeEntryDir \/ MakeLink \/ Record
  \/ Claim \/ OpenFile \/ WriteFile \/ Unclaim \/ Reclaim
  \/ Fetched \/ RegisterMenu

Cleanup == \/ FinishStages \/ DropSlots \/ DropDownloads \/ DropScratch
           \/ DropDirs \/ Forget \/ Show

Revert == \/ RevertMenus \/ RevertDownloads \/ RevertFiles
          \/ Rollback \/ RevertScratch

Run == Install \/ Cleanup \/ Revert

Next == Run \/ Signal \/ Kill \/ Ending

Spec == Init /\ [][Next]_vars

\* The process keeps running: hooks return, users answer.
FairSpec == Spec /\ WF_vars(Run)

-----------------------------------------------------------------------------
(* What the run promises. *)

Labels == {"task", "gate", "menusdone", "declare", "permit", "obsolete",
           "backup", "log", "move", "parents", "mkdir", "link", "record",
           "claim", "open", "write", "unclaim", "reclaim", "fetched",
           "register", "dropslots", "dropdownloads", "dropscratch",
           "dropdirs", "forget", "show"} \cup Reverting \cup Ended

\* Every variable has the type of the Lua or file system value it stands for,
\* and there is a rollback file name for every entry of MojoSetup.rollbacks.
TypeOK ==
  /\ job \in DOMAIN Scenarios
  /\ fs \in [Path -> Node]
  /\ manifest \subseteq Path /\ seen \subseteq old
  /\ rollbacks \in Seq(Path) /\ Len(rollbacks) <= Len(Slot)
  /\ downloads \subseteq Path /\ menus \subseteq Path /\ menusDone \in BOOLEAN
  /\ force \in {"unset", "always", "never"}
  /\ step \in 0 .. Len(Plan)
  /\ stack \in Seq(Path) /\ made \in Path /\ rest \subseteq Path
  /\ fate \in {"open", "closing", "kept"} /\ torn \subseteq Path /\ pc \in Labels

\* An object that was on disk before the run, at a path the installer has to
\* ask for, is never destroyed before the installation has succeeded: it is at
\* its own path or whole in a rollback file, through failed writes, failed
\* backups, failed deletions and restores, signals and kills
\* (permit_write, backup_file, do_rollbacks).  Two are lost: a symbolic link to a
\* directory where the package has a directory, and what was being copied to its
\* rollback file when a signal came, over which half a copy is put back.
NothingLost ==
  fate = "open" =>
    \A p \in Protected \ (Taken \cup torn) : IsObject(before[p]) =>
      \/ fs[p] = before[p]
      \/ \E i \in DOMAIN Slot : fs[Slot[i]] = before[p]

\* What real_revertinstall() would leave at p if it ran now: the oldest
\* rollback of p, else nothing if p is in the manifest, else what is there.
Undone == {"rollback", "rmscratch", "exit23"}
Logged == IF pc \in Undone THEN {}
          ELSE manifest \cup (IF pc = "reclaim" THEN {cur.path} ELSE {})
                        \cup (IF pc = "record" THEN {made} ELSE {})
Holders(p) == {i \in 1 .. Len(rollbacks) :
                 rollbacks[i] = p /\ Exists(Slot[i])}
RevertView(p) ==
  IF \E i \in Holders(p) : \A j \in Holders(p) : i <= j
  THEN fs[Slot[CHOOSE i \in Holders(p) : \A j \in Holders(p) : i <= j]]
  ELSE IF p \in Logged THEN Absent ELSE fs[p]

ObjectOf(n) == IF IsObject(n) THEN n ELSE Absent

\* The paths at which a package has a file or a symbolic link.
Package(sc) == {t.path : t \in {u \in Image(sc.archive) \cup Image(sc.control) :
                                  u.kind # "dir"}}
Written == Package(Scenarios[job])

\* The paths at which a run may make a directory.
Roads(sc) == (UNION {Above[p] : p \in {t.path : t \in Image(sc.work)} \cup Image(Slot)})
               \cup {t.path : t \in {u \in Image(sc.work) : u.kind = "dir"}}

\* The packages and file systems for which the promises are kept that need more
\* than that nothing goes wrong: no file is delivered twice, below another one or
\* where the installer has its own; no directory is delivered over a link to one;
\* what the previous version had as a file is no directory; nothing else is in the
\* scratch directory.
Sound(sc) ==
  /\ \A i, j \in DOMAIN sc.work :
       /\ sc.work[i].do = "install" /\ sc.work[i].kind # "dir"
       /\ sc.work[j].do = "install" /\ sc.work[i].path = sc.work[j].path
       => i = j
  /\ (Package(sc) \cup OwnPaths) \cap (Roads(sc) \cup ScratchDirs) = {}
  /\ Package(sc) \cap OwnPaths = {}
  /\ \A t \in Image(sc.work) : t.kind = "dir" => t.path \notin sc.links
  /\ Image(Downloads) \cap (Image(MenuFiles) \cup Image(Scripts)
                              \cup Image(Manifests) \cup sc.oldFiles) = {}
  /\ \A p \in sc.oldFiles : sc.tree[p] # Dir
  /\ \A p \in Path : ScratchDir \in Above[p] =>
       sc.tree[p] = Absent \/ p \in ScratchDirs \cup Image(Downloads)
  /\ \A t \in Image(sc.work) : ScratchDir \in Above[t.path] => t.do = "fetch"

\* Where a directory may be made after the obsolete files are gone.
LateRoads(sc) ==
  (UNION {Above[p] : p \in {t.path : t \in Image(sc.control)} \cup Image(Manifests)})
    \cup {t.path : t \in {u \in Image(sc.control) : u.kind = "dir"}}

\* The same of the previous version: what it had as a directory is no file; a
\* directory that is delivered over one that is there was its; none of its files
\* gives way to a directory.
Succeeds(sc) ==
  /\ \A p \in sc.oldDirs : ~IsObject(sc.tree[p])
  /\ \A t \in Image(sc.archive) \cup Image(sc.control) :
       t.kind = "dir" /\ sc.tree[t.path] = Dir => t.path \in sc.oldDirs
  /\ sc.oldFiles \cap LateRoads(sc) = {}

\* The previous version is still there where this one builds on it: no directory
\* is made at a path of its that is gone, those for the downloads and the
\* rollbacks aside, and its manifest is in the metadata directory.
BuildsOn(sc) ==
  /\ \A p \in sc.oldFiles \cup sc.oldDirs :
       p \in Roads(sc) => sc.tree[p] # Absent \/ p \in {ScratchDir, RollbackDir, DownloadDir}
  /\ sc.oldFiles \cup sc.oldDirs # {} => sc.tree[MetaDir] = Dir

\* Everything is below the destination, or above it.
Inland == \A p \in Path : p \in Above[Dest] \cup {Dest} \/ Dest \in Above[p]

\* The run as one atomic change of the objects at the protected paths: until
\* it is decided, what counts is what a revert would leave.
Offer   == [writes |-> Written,
            drops  |-> oldFiles \cup {p \in Path : Above[p] \cap Written # {}}]
Objects == [p \in Protected |->
              ObjectOf(IF fate # "open" \/ pc = "exit23" THEN fs[p]
                       ELSE RevertView(p))]
Outcome == IF fate # "open" THEN "installed"
           ELSE IF pc = "exit23" THEN "reverted" ELSE "undecided"

Atomic == INSTANCE AtomicInstall WITH
  File    <- Protected,
  Nothing <- Absent,
  Fresh   <- [p \in Protected |-> New(p)],
  offer   <- Offer,
  disk    <- Objects,
  outcome <- Outcome

\* The installer implements the atomic installation: every step is a stutter,
\* the one that commits, or the one that ends a revert with every object as it
\* was (do_install, real_revertinstall).
ImplementsAtomic == Atomic!Spec

\* After a revert nothing exists below Dest that was not there before: every
\* directory and file was logged, and the order of the deletions lets each
\* directory be empty when it is tried (flatten_manifest, delete_files,
\* delete_scratchdirs).
RevertLeavesNoDebris ==
  pc = "exit23" =>
    \A p \in Path \ Above[Dest] : Exists(p) => before[p] # Absent

\* When the success message is on screen the manifest lists exactly what the
\* uninstaller will find: every object this run wrote is listed, a download
\* that was not cleaned up aside, and every listed path exists, scratch
\* directories aside (install_file, the obsolete files).
ManifestMatchesDisk ==
  pc = "show" =>
    /\ \A p \in Path : fs[p].kind \in {"new", "partial"} =>
                         p \in manifest \cup downloads
    /\ \A p \in manifest \ ScratchDirs : Exists(p)

\* When the success message is on screen no rollback, download or scratch
\* directory is left, and no object only the previous version had
\* (delete_rollbacks, delete_scratchdirs, the obsolete files).  With --noprompt
\* there is no message, and no cleanup either.
SuccessLeavesNoScratch ==
  pc = "show" /\ ~SkipPrompt =>
    /\ \A p \in Image(Slot) \cup Image(Downloads) : ~Exists(p)
    /\ ~Exists(ScratchDir)
    /\ \A p \in oldFiles \ manifest : ~IsObject(fs[p])

\* A success leaves what it says it leaves, and nothing else of its own.
SuccessIsClean == ManifestMatchesDisk /\ SuccessLeavesNoScratch

\* What gives way without a question: the previous version's files, and what an
\* entry is installed over that has the name of something the version had.
Ceded ==
  oldFiles \cup
  {t.path : t \in {u \in Image(Scenarios[job].archive) \cup
                       Image(Scenarios[job].control) :
                       u.kind # "dir" /\ u.name \in old}}

\* The user's paths, but for those below such a one, which backup_file() takes
\* with it, and a link to a directory that the package has a directory for, which
\* is not asked about.
Spared == {p \in Protected \ (old \cup Taken) : ({p} \cup Above[p]) \cap Ceded = {}}

\* Once the user has answered "never", no object of his is moved or replaced,
\* whatever the archives hold and whatever fails, except with a directory of the
\* previous version that a file replaces (permit_write, backup_file).
NeverMeansNever ==
  [][force = "never" =>
       \A p \in Spared : fs[p].kind = "prior" => fs'[p] = fs[p]]_vars

\* The installer always ends: no deletion or restore that keeps failing, no
\* fatal() out of fatal(), makes it go round for ever (delete_files,
\* do_rollbacks, fatal).
Termination == <>(pc \in Ended)

-----------------------------------------------------------------------------
(* What the documentation and the messages promise and the code does not   *)
(* keep.                                                                   *)

\* "Files are actually moved out of the way instead of overwritten, so the
\* installer can restore them if the install is cancelled or fails mid-way":
\* after a revert the user's objects are back (do_rollbacks).
RevertRestores ==
  pc = "exit23" /\ fate = "open" =>
    \A p \in Protected : IsObject(before[p]) => fs[p] = before[p]

\* "Don't let future errors delete files from successful installs...": once
\* the rollbacks are gone for good no revert follows that deletes what the
\* manifest lists (fatal, real_revertinstall).
SuccessIsKept ==
  pc = "exit23" /\ fate = "kept" =>
    \A p \in Written : before[p] = Absent => fs[p] = New(p)
=============================================================================
