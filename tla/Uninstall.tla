----------------------------- MODULE Uninstall -----------------------------
(***************************************************************************)
(* What may happen to an installation afterwards: manifest_management()    *)
(* and uninstaller() of src/scripts/mojosetup_mainline.lua, run again and  *)
(* again on one package, among the user's own files, with kills and        *)
(* failing file operations.  A step is one file operation or one command.  *)
(***************************************************************************)
EXTENDS Integers, Sequences

CONSTANTS
  Path,      \* what the destination may hold, below it and itself
  Parent,    \* the directory a path is in; that of the destination is itself
  Above,     \* all directories a path is in
  Outer,     \* directories above the destination that the installer made; their
             \* names in the manifest are absolute (make_relative)
  Below,     \* where delete_files() looks for each: below the destination
  Rank,      \* the place of a name in the order of strcmp()
  Installed, \* what the installer wrote to the destination and listed
  Program,   \* of that, what starts and runs the uninstallation
  Lists,     \* the Lua, XML and text manifests, in this order
  MaxKills, MaxFaults, MaxCommands  \* bounds on what happens

Name == Path \cup Outer

ASSUME UninstallAssumption ==
  /\ Parent \in [Path -> Path] /\ Above \in [Path -> SUBSET Path]
  /\ Outer \cap Path = {} /\ Below \in [Outer -> Path \ Installed]
  /\ Rank \in [Name -> Nat]
  /\ \A p, q \in Name : Rank[p] = Rank[q] => p = q
  /\ \A p \in Path : p # Parent[p] => Parent[p] \in Above[p]
  /\ \A p \in Path : \A q \in Above[p] : Parent[q] \in Above[p] /\ Rank[q] < Rank[p]
  /\ Program \subseteq Installed
  /\ Installed \subseteq Path /\ \A p \in Installed : Parent[p] \in Installed
  /\ Lists \in [1 .. 3 -> Installed]
  /\ \A i, j \in 1 .. 3 : Lists[i] = Lists[j] => i = j
  /\ \A i \in 1 .. 3 : Lists[i] \notin Program
  /\ \A i \in 1 .. 3 : Parent[Lists[i]] = Parent[Lists[1]]
                       /\ \A p \in Path : Parent[p] # Lists[i]
  /\ MaxKills \in Nat /\ MaxFaults \in Nat /\ MaxCommands \in Nat

Lua == Lists[1]
Manifests == {Lists[i] : i \in 1 .. 3}

VARIABLES
  fs,       \* what exists
  lists,    \* what each manifest says, as long as it exists
  pc,       \* "idle", "commands", "unlink", "write", "confirm", "delete", "gone"
  at,       \* the number of the manifest that is deleted or written
  package,  \* the package table: the names it lists and those without a key
  todo,     \* the names still to be deleted
  users,    \* the names at which the user has made a file, or that he took off
            \* the manifest
  cut,      \* a rebuild of the manifests was killed
  kills, faults, commands  \* how many there were

vars == <<fs, lists, pc, at, package, todo, users, cut, kills, faults, commands>>

Listing(names, nokey) == [names |-> names, nokey |-> nokey]

Init ==
  /\ fs = Installed \cup Outer
  /\ lists = [l \in Manifests |-> Listing(Installed \cup Outer, {})]
  /\ package = Listing({}, {})
  /\ pc = "idle" /\ at = 0 /\ todo = {} /\ users = {}
  /\ cut = FALSE
  /\ kills = 0 /\ faults = 0 /\ commands = 0

\* The user, or the program, makes a file where there is a directory for it, or
\* has his own in the place of one that was installed.
UserAdds ==
  /\ pc \in {"idle", "gone"}
  /\ \E p \in Path \ (Manifests \cup Program) :
       /\ Parent[p] \in fs
       /\ p \in fs => \A q \in Path : Parent[q] # p
       /\ fs' = fs \cup {p} /\ users' = users \cup {p}
  /\ UNCHANGED <<lists, pc, at, package, todo, cut, kills, faults, commands>>

\* The program that manages and uninstalls is part of what was installed.
CanStart == Program \cup {Lua} \subseteq fs

\* load_manifest(); without the Lua manifest the program fails at once.
Load(next) ==
  /\ pc \in {"idle", "gone"} /\ CanStart
  /\ package' = lists[Lua] /\ pc' = next
  /\ UNCHANGED <<fs, lists, at, todo, users, cut, kills, faults, commands>>

StartManaging == Load("commands")
StartUninstalling == Load("confirm")

-----------------------------------------------------------------------------
(* manifest_management().                                                  *)

Command ==
  /\ pc = "commands" /\ commands < MaxCommands /\ commands' = commands + 1
  /\ UNCHANGED <<fs, lists, at, todo, users, cut, kills, faults>>

\* "add" fails whether or not there is a file: manifest_add() reads the table
\* MojoSetup.oldfiles, which only an installation sets.
Add == Command /\ pc' = "idle" /\ UNCHANGED package

\* "delete" takes the name off the manifest; the file stays.
Delete(p) ==
  /\ Command
  /\ package' = Listing(package.names \ {p}, package.nokey \ {p})
  /\ UNCHANGED pc

\* Where the file of a name is looked for.
Place(p) == IF p \in Outer THEN Below[p] ELSE p

\* "resync" calls manifest_resync() without a key and so loses the entry's.
Resync(p) ==
  /\ Command
  /\ IF Place(p) \notin fs THEN pc' = "idle" /\ UNCHANGED package
     ELSE /\ package' = IF p \in package.names
                        THEN [package EXCEPT !.nokey = @ \cup {p}] ELSE package
          /\ UNCHANGED pc

\* After the last command the manifests are rebuilt: delete_files() goes from the
\* last to the first.
Rebuild ==
  /\ pc = "commands" /\ pc' = "unlink" /\ at' = 3
  /\ UNCHANGED <<fs, lists, package, todo, users, cut, kills, faults, commands>>

Works == UNCHANGED faults
Fails == faults < MaxFaults /\ faults' = faults + 1

UnlinkList ==
  /\ pc = "unlink"
  /\ \/ Works /\ fs' = fs \ {Lists[at]}
     \/ Fails /\ UNCHANGED fs
  /\ IF at = 1 THEN pc' = "write" /\ UNCHANGED at ELSE at' = at - 1 /\ UNCHANGED pc
  /\ UNCHANGED <<lists, package, todo, users, cut, kills, commands>>

\* Mutant: the text manifest is not written.
WriteListTwo ==
  LET l == Lists[at] IN
  /\ pc = "write"
  /\ Works /\ fs' = fs \cup {l} /\ lists' = [lists EXCEPT ![l] = package]
  /\ users' = IF at = 1 THEN users \cup (fs \ (package.names \cup Manifests)) ELSE users
  /\ IF at = 2 THEN pc' = "idle" /\ UNCHANGED at ELSE at' = at + 1 /\ UNCHANGED pc
  /\ UNCHANGED <<package, todo, cut, kills, commands>>

\* build_xml_manifest() groups the entries by their keys, and no table has nil
\* for a key.  A write that fails leaves no file, and nobody asks.  What the new
\* Lua manifest does not list is the user's from now on.
WriteList ==
  LET l == Lists[at] IN
  /\ pc = "write"
  /\ IF at = 2 /\ package.nokey # {}
     THEN pc' = "idle" /\ UNCHANGED <<fs, lists, at, users, faults>>
     ELSE /\ \/ /\ Works /\ fs' = fs \cup {l} /\ lists' = [lists EXCEPT ![l] = package]
                /\ users' = IF at = 1 THEN users \cup (fs \ (package.names \cup Manifests))
                            ELSE users
             \/ Fails /\ fs' = fs \ {l} /\ UNCHANGED <<lists, users>>
          /\ IF at = 3 THEN pc' = "idle" /\ UNCHANGED at ELSE at' = at + 1 /\ UNCHANGED pc
  /\ UNCHANGED <<package, todo, cut, kills, commands>>

-----------------------------------------------------------------------------
(* uninstaller().                                                          *)

\* Mutant: the names are deleted from the first on.
Earliest(p, names) == p \in names /\ \A q \in names : Rank[p] <= Rank[q]

\* flatten_manifest() sorts the names, and delete_files() goes from the last on.
Latest(p, names) == p \in names /\ \A q \in names : Rank[q] <= Rank[p]

\* The question, the hook preuninstall and the menu items: a no or a failure
\* ends the program.
Confirm ==
  /\ pc = "confirm"
  /\ \/ pc' = "idle" /\ UNCHANGED todo
     \/ pc' = "delete" /\ todo' = package.names
  /\ UNCHANGED <<fs, lists, at, package, users, cut, kills, faults, commands>>

\* Mutant: a directory goes with all that is in it.
UnlinkTree(p) == fs' = {q \in fs : q \in Outer \/ (q # p /\ p \notin Above[q])}

\* MojoPlatform_unlink(): a directory that is not empty stays.
Unlink(p) ==
  fs' = IF \E q \in (fs \cap Path) \ {p} : Parent[q] = p THEN fs ELSE fs \ {p}

\* do_delete() goes by the name alone, whoever made the file.  An error is not
\* fatal, install_manifests() never says it is.
DeleteNext ==
  /\ pc = "delete"
  /\ \E p \in todo :
       /\ Latest(p, todo) /\ todo' = todo \ {p}
       /\ \/ Works /\ Unlink(Place(p))
          \/ Fails /\ Place(p) \in fs /\ UNCHANGED fs
  /\ UNCHANGED <<lists, pc, at, package, users, cut, kills, commands>>

Finish ==
  /\ pc = "delete" /\ todo = {} /\ pc' = "gone"
  /\ UNCHANGED <<fs, lists, at, package, todo, users, cut, kills, faults, commands>>

\* A kill, at any time.
Killed ==
  /\ pc \notin {"idle", "gone"} /\ kills < MaxKills /\ kills' = kills + 1
  /\ pc' = "idle" /\ todo' = {} /\ cut' = (cut \/ pc \in {"unlink", "write"})
  /\ UNCHANGED <<fs, lists, at, package, users, faults, commands>>

Next ==
  \/ UserAdds \/ StartManaging \/ StartUninstalling
  \/ Add \/ (\E p \in Name : Delete(p) \/ Resync(p)) \/ Rebuild \/ UnlinkList \/ WriteList
  \/ Confirm \/ DeleteNext \/ Finish \/ Killed

Spec == Init /\ [][Next]_vars

-----------------------------------------------------------------------------
(* Properties.                                                             *)

\* The variables hold what the program can be in, and what exists in the
\* destination is in a directory that exists.
TypeOK ==
  /\ fs \subseteq Name /\ \A p \in fs \cap Path : Parent[p] \in fs
  /\ pc \in {"idle", "commands", "unlink", "write", "confirm", "delete", "gone"}
  /\ at \in 0 .. 3 /\ todo \subseteq package.names /\ cut \in BOOLEAN
  /\ package.nokey \subseteq package.names /\ package.names \subseteq Name

\* Whatever is managed, killed and uninstalled, a file of the user's stays, and so
\* does what he has taken off the manifest, also in a directory that is deleted.
\* Only an uninstallation takes one from him: where the manifest lists its name, or
\* where it looks for a directory above the destination.
UsersFilesStay ==
  [][\A p \in users \cap fs :
       p \in fs' \/ (pc = "delete" /\ \E n \in package.names : Place(n) = p)]_vars

\* The directories out of which the search for one above the destination may take
\* the last file when their own turn is over.
EmptiedLate ==
  {p \in Path \cap package.names :
     \E n \in Outer \cap package.names : Rank[n] < Rank[p] /\ p \in Above[Below[n]]}

\* An uninstallation no deletion of which failed leaves nothing it lists but
\* directories with something in them that it does not list or that was added
\* since, those that were emptied late, and the directories above the destination,
\* which it never finds.
NothingIsLeft ==
  /\ TypeOK
  /\ pc = "gone" /\ faults = 0 =>
       \A p \in ((fs \cap package.names) \ users) \ Outer :
         \/ \E q \in fs \cap Path : q \notin package.names \ users /\ p \in Above[q]
         \/ \E q \in EmptiedLate : p \in Above[q] \cup {q}

\* An uninstallation can be killed at any time and started again until what it is
\* started with goes itself.  When it cannot be started any more it is through with
\* every name that sorts after those: with the whole installation, but for the
\* metadata directory and what sorts before it.  A rebuild of the manifests that is
\* killed or fails leaves a program that cannot be started, and everything else.
ProgramGoesLast ==
  ~CanStart /\ pc \notin {"unlink", "write"} /\ ~cut /\ faults = 0 =>
    \A p \in ((fs \cap package.names) \ users) \ Outer :
      \/ \A q \in (Program \cup {Lua}) \ fs : Rank[p] < Rank[q]
      \/ \E q \in Path : Parent[q] = p

\* A rebuild that ends has written all manifests, and they agree, unless an entry
\* has lost its key (manifest_resync), something failed or somebody killed it.
ListsAgree ==
  [][pc = "write" /\ pc' = "idle" /\ kills' = 0 /\ faults' = 0 /\ package.nokey = {} =>
       \A l \in Manifests : l \in fs' /\ lists'[l] = package]_vars
=============================================================================
