---------------------------- MODULE MCInstallTxn ----------------------------
(***************************************************************************)
(* Small file systems and packages for InstallTxn: a destination /opt/g    *)
(* with two payload files, one of them in a subdirectory, an uninstall     *)
(* script, and the .mojosetup directory with a control application, one    *)
(* manifest, one menu file, one download and six rollback names.          *)
(***************************************************************************)
EXTENDS InstallTxn, TLC

MCRoot == "/"

\* In the order of MojoSetup.strcmp on the names in the manifest; "/opt" is
\* there under its absolute name.
Order == <<"g", ".m", ".m/app", ".m/desk", ".m/man", ".m/man/lua", ".m/tmp",
           ".m/tmp/dl", ".m/tmp/dl/0", ".m/tmp/rb", "rb1", "rb2", "rb3",
           "rb4", "rb5", "rb6", "/opt", "a", "d", "d/f", "un">>

MCPath == {Order[i] : i \in DOMAIN Order}
\* The function f, tabulated.
Table(f) == f @@ <<>>

MCRank == Table([p \in MCPath |-> CHOOSE i \in DOMAIN Order : Order[i] = p])

MCParent == Table(
  [p \in MCPath |->
     CASE p = "/opt" -> "/"
       [] p = "g" -> "/opt"
       [] p \in {".m", "a", "d", "un"} -> "g"
       [] p \in {".m/app", ".m/desk", ".m/man", ".m/tmp"} -> ".m"
       [] p = ".m/man/lua" -> ".m/man"
       [] p \in {".m/tmp/dl", ".m/tmp/rb"} -> ".m/tmp"
       [] p = ".m/tmp/dl/0" -> ".m/tmp/dl"
       [] p \in {"rb1", "rb2", "rb3", "rb4", "rb5", "rb6"} -> ".m/tmp/rb"
       [] p = "d/f" -> "d"])

MCAbove ==
  LET up[p \in MCPath] == IF MCParent[p] = "/" THEN {}
                          ELSE {MCParent[p]} \cup up[MCParent[p]]
  IN Table(up)

OneDownload == <<".m/tmp/dl/0">>
OneMenu     == <<".m/desk">>
OneScript   == <<"un">>
OneManifest == <<".m/man/lua">>
NoFaults    == {}
AllFaults   == FaultKind

MCSlot == <<"rb1", "rb2", "rb3", "rb4", "rb5", "rb6">>

\* A file system with the directories ds and the objects fs.
Tree(ds, os) == Table([p \in MCPath |-> IF p \in ds THEN Dir
                                        ELSE IF p \in os THEN Prior(p)
                                        ELSE Absent])

Deliver(p, k, ok) == [do |-> "install", path |-> p, name |-> p, kind |-> k,
                    allow |-> ok]

App  == Deliver(".m/app", "file", FALSE)
Meta == {".m/app", ".m/man/lua", "un"}      \* what an installation has of ours

\* What is at the destination: nothing; what the user has; an installation,
\* some files of which are the user's own or missing.
Disk(dirs, had, mine, olddirs) ==
  [tree |-> Tree({"/opt"} \cup dirs, had), links |-> {}, oldFiles |-> mine,
   oldDirs |-> olddirs, control |-> <<App>>]

\* The object at p is a symbolic link to a directory.
Linked(disk, p) == [disk EXCEPT !.links = {p}]

UserDisk(dirs, had) == Disk({"g"} \cup dirs, had, {}, {})

OldDisk(dirs, had, mine) ==
  Disk({"g", ".m", ".m/man"} \cup dirs, had \cup Meta, mine \cup Meta,
       {"g", ".m", ".m/man", ".m/tmp"} \cup dirs)

Disks ==
  <<Disk({}, {}, {}, {}),
    UserDisk({}, {}), UserDisk({}, {"a"}), UserDisk({}, {"a", "d"}),
    UserDisk({"d"}, {}), UserDisk({"d"}, {"d/f"}), UserDisk({"d"}, {"a", "d/f"}),
    OldDisk({}, {"a"}, {"a"}), OldDisk({}, {"d"}, {"d"}),
    OldDisk({"d"}, {}, {}), OldDisk({"d"}, {"a", "d/f"}, {"a", "d/f"}),
    OldDisk({"d"}, {"a", "d/f"}, {"d/f"}), OldDisk({"d"}, {"a", "d/f"}, {}),
    Linked(UserDisk({}, {"d"}), "d"), Linked(OldDisk({}, {"d"}, {"d"}), "d")>>

Payload == <<Deliver("a", "file", TRUE), Deliver("a", "symlink", FALSE),
             Deliver("d", "dir", FALSE), Deliver("d", "file", FALSE),
             Deliver("d/f", "file", FALSE)>>

Archives == [i \in 1 .. 5 |-> <<Payload[i]>>] \o
            [i \in 1 .. 25 |-> <<Payload[(i - 1) \div 5 + 1],
                                 Payload[((i - 1) % 5) + 1]>>]

With(disk, archive) ==
  [tree |-> disk.tree, links |-> disk.links, oldFiles |-> disk.oldFiles,
   oldDirs |-> disk.oldDirs, archive |-> archive, control |-> disk.control,
   work |-> Work(archive, disk.control), noprompt |-> FALSE]

Quiet(s) == [s EXCEPT !.noprompt = TRUE]

Every(disks, archives) ==
  [i \in 1 .. Len(disks) * Len(archives) |->
     With(disks[(i - 1) \div Len(archives) + 1],
          archives[((i - 1) % Len(archives)) + 1])]

\* The packages and file systems for which the promises are kept: no file is
\* delivered twice, none below a file that is delivered, a directory of the
\* archive that was there before the run belongs to the previous version, and
\* none, nor anything in it, is delivered over a link to a directory.
Fitting(s) ==
  /\ \A i, j \in DOMAIN s.archive :
       /\ s.archive[i].path = s.archive[j].path =>
            i = j \/ (s.archive[i].kind = "dir" /\ s.archive[j].kind = "dir")
       /\ s.archive[i].path \in MCAbove[s.archive[j].path]
            => s.archive[i].kind = "dir"
  /\ \A i \in DOMAIN s.archive :
       LET t == s.archive[i] IN
       /\ t.kind = "dir" /\ s.tree[t.path] = Dir => t.path \in s.oldDirs
       /\ t.kind = "dir" => t.path \notin s.links
       /\ MCAbove[t.path] \cap s.links = {}

MCSoundScenarios ==
  LET sound  == SelectSeq(Every(Disks, Archives), Fitting)
      single == SelectSeq(Every(Disks, SubSeq(Archives, 1, 5)), Fitting)
  IN sound \o [i \in DOMAIN single |-> Quiet(single[i])]

ASSUME FittingIsSound ==
  /\ \A sc \in Image(MCSoundScenarios) : Sound(sc) /\ Succeeds(sc) /\ BuildsOn(sc)
  /\ Inland

\* A package whose archive has an entry for a directory the user had.
MCOverUserDir ==
  <<With(UserDisk({"d"}, {"d/f"}),
         <<Deliver("d", "dir", FALSE), Deliver("d/f", "file", TRUE)>>)>>

\* A package two options of which deliver the same file.
MCTwice ==
  <<With(Disk({}, {}, {}, {}),
         <<Deliver("a", "file", TRUE), Deliver("a", "file", TRUE)>>)>>

\* An upgrade, and one over files of the user's in the way.
MCUpgrade ==
  <<With(OldDisk({"d"}, {"d/f"}, {"d/f"}), <<Deliver("a", "symlink", FALSE)>>)>>

MCReplace ==
  <<With(OldDisk({"d"}, {"a", "d/f"}, {"a"}),
         <<Deliver("d", "file", FALSE), Deliver("a", "file", FALSE)>>)>>

\* A package on a machine that has not even the parent of the destination.
MCFresh ==
  <<With([Disk({}, {}, {}, {}) EXCEPT !.tree = Tree({}, {})],
         <<Deliver("d/f", "file", FALSE)>>)>>

\* A package with a directory where the user has a link to one.
MCOverLink ==
  <<With(Linked(UserDisk({}, {"a", "d"}), "d"),
         <<Deliver("d", "dir", FALSE), Deliver("a", "file", FALSE)>>)>>

MCHard == MCOverUserDir \o MCTwice \o MCUpgrade \o MCReplace \o MCOverLink

\* What the .cfg files give to the constants: TLC computes a definition such
\* as MCPath once, and the right-hand side of "Path <- ..." at every use.
Paths          == MCPath
Parents        == MCParent
Ancestors      == MCAbove
Ranks          == MCRank
Slots          == MCSlot
SoundScenarios == MCSoundScenarios
HardScenarios  == MCHard
OverUserDir    == MCOverUserDir
Fresh          == MCFresh
SignalOnly     == {"signal"}
=============================================================================
