# A TLA+ model of MojoSetup

MojoSetup is an installer: a C program with an embedded Lua interpreter. The Lua
program `scripts/mojosetup_mainline.lua` decides what happens, the C program
gives it files, archives, a user interface and the platform. This directory
holds the specification of the parts on which a user's data depends - the
installation and its revert, the copying of files, the archives they come from,
downloads, the uninstaller - and of the three that decide in what order things
happen: the stages, the end of the process, and the web interface. With it come
its TLC runs and its TLAPS proofs.

## The system

| component | state | operations | what makes it hard | what makes it correct |
| --- | --- | --- | --- | --- |
| installation transaction (`mojosetup_mainline.lua`: `do_install`, `permit_write`, `backup_file`, `install_*`, `real_revertinstall`) | `MojoSetup.manifest`, `rollbacks`, `downloads`, `oldfiles`, `forceoverwrite`, `installed_menu_items`; the file system | back up, create, write, log, obsolete, clean up, revert | any step may fail; a signal may run the revert between any two; the revert may fail too | the user's objects survive; the installation is all or nothing; the manifest says what is on disk |
| stage driver and GUI stages (`do_install`) | stage index, option tree, `productkeys` | next, back, cancel | stages run again after a step back | what is installed is what was last chosen |
| uninstaller, manifest management (`uninstaller`, `manifest_management`, `load_manifest`) | the three manifests on disk, the one loaded | delete what is listed; add, delete, resync entries; rewrite the manifests | several runs over one tree, a kill in between, files of the user's among the installed ones | nothing that is not listed is deleted; an uninstallation that was interrupted can go on as long as its program is there |
| `fatal`, `panic`, signal handlers (`mojosetup.c`, `platform_unix.c`) | `in_fatal`, `panic_runs`, `GGui` | show a message, revert, exit 23 or 22 | re-entered from handlers and from themselves | always ends; reverts at most once |
| file copy and streams (`fileio.c`, `lua_glue.c`) | position, length, output file, callback's verdict; for each stream its own position and that of the stream below | read, copy, seek, subset, decompress | unknown lengths, short reads, cancel; streams that share one position | a file is complete or not there; a member's bytes are its own |
| downloads (`libfetch/common.c`) | a ring buffer, `length`, `error`, `stop` | a thread puts, the installer gets | the thread and the installer share all of it | the bytes arrive once and in order; giving up ends |
| archive readers (`archive_*.c`) | enumeration position, current entry, offsets, the state of a zip entry's resolution | enumerate, next, open | one stream for all members, archives in archives, links in circles | each entry once, in order, with its own bytes |
| Lua glue (`lua_glue.c`) | scratch ring, Lua state | `movefile`, `cmdline`, `findmedia`, `wildcardmatch`, `translate` | buffers reused | conversions are what Lua code expects |
| platform (`platform_unix.c`, `platform_windows.c`, `platform_beos.cpp`) | none | unlink, mkdir, rename, ... | errors | as POSIX |
| GUI plugin selection (`gui.c`), plugins (`gui_*.c`) | the chosen plugin | pages, progress, prompts | - | one answer for each page |
| web GUI (`gui_www.c`) | the listening socket, the client whose response waits for the next page, `output` | serve, accept, parse, prompt, deinit | requests race with pages; connections that carry nothing | nobody is left waiting; an answer belongs to its question |
| configuration (`mojosetup_init.lua`, `config.lua`), localization | tables | check, default | - | - |

The stages call the GUI and wait for its answer; the GUI's progress callback is
called from inside a file copy and may cancel it; every Lua error and every
signal ends in `fatal()` (C), which calls `MojoSetup.revertinstall` (Lua), which
deletes what the manifest lists, moves the rollbacks back and returns to C to
exit. A file reaches the disk through one loop, `MojoInput_toPhysicalFile`, that
reads from a stream: a member of an archive, which is a part of a packed stream
over a file, or a download. All of that is one thread but for a download, whose
network thread fills a ring that the loop empties. The concurrency is that of
signals with the program, of the network thread with the installer, of the user
and his browser with the GUI, and of runs that follow each other on the same
disk.

`PROJECT.json` lists the components with their status, and the hazards with the
properties that watch them.

## Modules

| module | what it is |
| --- | --- |
| `AtomicInstall` | what an installation promises: one commit, or an abort that changes nothing |
| `InstallTxn` | one run of the installer, from the source list stage to the end of the process |
| `MCInstallTxn` | small trees and packages for TLC |
| `InstallTxnProofs` | the theorems about `InstallTxn`: what holds for all packages, then what a success and what a revert leave behind when a package's entries do not collide |
| `Wizard` | one package before that: the stages, forward and back, up to the choice of what is installed |
| `MCWizard` | small packages for TLC |
| `WizardProofs` | the theorems about `Wizard` |
| `Shutdown` | one process around both: start, `fatal`, `panic`, signals, end |
| `ShutdownProofs` | the theorems about `Shutdown` |
| `Download` | the network thread, its ring buffer, and the stream read from it |
| `FileCopy` | the loop that writes a file and the calls it is made for, with `Download` beside it |
| `MCFileCopy` | the file and the calls for TLC |
| `FileCopyProofs` | the theorems about `FileCopy` and `Download` |
| `ZipArchive` | the entries of a zip archive and their resolution |
| `ZipArchiveProofs` | the theorems about `ZipArchive` |
| `Streams` | the streams archives are read through: file, subset, packed, member; how they are opened and closed |
| `StreamIO` | how they are read and sought, each through the one below it |
| `Extract` | tar, pck and pkg archives over `Streams`, and the passes that install from them; `Read` and `Seek` are parameters |
| `MCExtract` | archives for TLC, with `Read` and `Seek` from `StreamIO` |
| `ExtractProofs` | the theorems about `Extract`, for any `Read` and `Seek` |
| `Uninstall` | an installation afterwards: manifest management and uninstallations |
| `MCUninstall` | a tree for TLC |
| `UninstallProofs` | the theorems about `Uninstall` |
| `Web` | the web interface and a browser |
| `MCWeb` | questions and a browser for TLC |
| `WebProofs` | the theorems about `Web` |

`Wizard`, `InstallTxn` and `Shutdown` meet at their ends. `Wizard` ends where
`InstallTxn` starts, with the options whose files go into its plan, and takes
all of the installation as one step that succeeds or fails. `Shutdown` takes
both as one action, `Mainline`, that may leave a half-finished installation, and
has every step of `fatal`, which `InstallTxn` takes as one. `InstallTxn` in turn
takes the writing of a file as opening and writing it, with the outcomes that
`FileCopy` has in detail; `FileCopy` reads from a file or from `Download`, whose
steps are its own; `Extract` runs the same loop over the streams of archives. A
user of `Wizard` answers each page, and `Web` is how a browser does.

### InstallTxn

*Disk.* `fs` maps every path to what it holds. Files and symbolic links are
"objects"; an object that was there before the run is `Prior(p)`, wherever it is
moved, one the package delivers is `New(p)`, and one that is being written
`Partial(p)`. File contents, permissions and checksums are left out. `Removable`,
`CanMove`, `MoveFailed` say what `MojoPlatform_unlink`, `rename` and the copy
fallback of `luahook_movefile` do. A backup or a restore is one step when it
succeeds or fails; when a signal or a kill comes in the middle, `Interrupted` is what
the copy may have left by then (`CutShort`): the source as it was, and for the
destination nothing, a half-written file, or a whole one. A half-written rollback
file is put over the original, which is still there, by the revert that the signal
starts; `torn` remembers whose.

*Symbolic links.* `MojoPlatform_isdir` goes where a link points to
(platform_unix.c 615-625). So a user's link to a directory is taken for the
directory that an entry asks for (mainline 493-498): it is entered in the manifest
without a question or a backup, and a revert unlinks it. `links` are the links to
directories, `IsDirectory` is `isdir`, and `Taken` are the links that have the path of
a directory of the package. They are lost, and the properties except them by name.
A bound is that such a link is only met where an entry itself goes: nothing is
delivered, backed up or restored through one (`NothingThrough`). The copy of a link
to a file is a copy of the file, which the models take for the same object.

*Names.* The manifest's keys are names relative to the destination, except those
of the destination's own parents, which stay absolute, because `make_relative`
does not change them. `Deleted` models what follows: `delete_files` puts the
destination in front of them and finds nothing. Keys and paths are otherwise in
bijection and are identified. `name` of a task is the archive's name of an entry,
the key that `permit_write` looks up in `MojoSetup.oldfiles`.

*Work.* A scenario gives the tree before the run, the files and directories of
the previous version's manifest, and the entries of the archives. `Plan` puts
the tasks in the order of the stages: destination directory, preflight,
downloads, preinstall, archives, menu items, uninstall script and product keys,
obsolete files, postinstall, control application, manifests. A package has all
of these (`support_uninstall`, `write_manifest`); options that were not selected
have no tasks. Media, downloads and included archives differ only in where the
bytes come from; an `insertmedia` prompt that is cancelled is a `Gate`.

*Steps.* One action is one system call or one update of one table, since a
signal can run the revert between any two. `pc` says which one is next:

| code | actions |
| --- | --- |
| the loops over tasks | `StartTask`, `Gate`, `MenusInstalled` |
| `permit_write` | `PermitWrite` |
| `backup_file` | `BackupDescend`, `BackupReady`, then the parents of the rollback file, `LogRollback`, `MoveAway` |
| `install_parent_dirs`, `install_directory` | `MakeParent`, `MakeEntryDir`, `Record`, `ParentsDone` |
| `install_symlink` | `MakeLink`, `Record` |
| `install_file`, `MojoInput_toPhysicalFile` | `Claim`, `OpenFile`, `WriteFile`, `Unclaim`, `Reclaim` |
| downloads, menu items | `OpenFile`, `WriteFile`, `Fetched`; `RegisterMenu` |
| `install_manifests` | `Declare` for each file, then `OpenFile`, `WriteFile` |
| obsolete files | `PickObsolete`, then `backup_file` |
| last stage | `FinishStages`, `DropSlots`, `DropDownloads`, `DropScratch`, `DropDirs`, `Forget`, `Show` |
| `fatal`, `real_revertinstall` | `Fatal`, `RevertMenus`, `RevertDownloads`, `RevertFiles`, `Rollback`, `RevertScratch` |
| signals, SIGKILL | `Signal`, `Kill` |

The recursion of `backup_file` over a directory is the variable `stack`. The
rollback files are `Slot`, whose length bounds the number of backups
(`SlotsLeft`); the plan bounds everything else.

*Environment.* Any write, `mkdir`, `symlink`, backup or hook may fail in every
run; a user may cancel a copy, which is a failed write. `Faults` adds failing
deletions, failing restores, signals and kills. A signal during a revert is a
second `fatal()`, which panics: exit 22.

*Assumptions.* The rollback directory holds no files when the run starts and
nothing else of the package is called like a rollback file (`SlotAssumption`,
`ScenarioAssumption`); nothing goes through a link to a directory (`NothingThrough`);
the installer's own directories are directories. The
first one is not guaranteed by the code after a killed run; see the hazards.

### Wizard

`cfg` is the package: its tree of options and groups, what it asks of the user,
and the command line's `--i-agree-to-all-licenses` and `--nooptions` (with
`--noreadme` it has no readmes). `Stages` builds the array of stages as
`do_install` does. `i`, `inside` and `todo` say which stage was called last,
whether it has returned, and which pages it has still to show. A stage without
pages is entered and left like any other: that is where stepping back fails.

| code | actions |
| --- | --- |
| the stage loop | `Leave` (1), `StepBack` (-1), `Cancel` (0) |
| stages with pages | `ShowPages`, then `ReadOn`, `Accept`, `Refuse`, `GiveKey`, `AskAgain`, `GoBack` |
| `luahook_gui_options`, `build_one_gui_option`, `cleanup_gui_option_list`, `done_gui_options` | `ShowOptions` with `Forced` and `Radio`; `Choose`, `GoBack` |
| hooks, source list, installation | `Precheck`, `Sources`, `InstallFiles` |

The tree of options is walked four times in the code: once in C for the GUI, and
three times in Lua, for licenses, keys and files. The three in Lua are the same
walk, `Found`; the one in C is `Visited` and `Shown`. Not every tree the program
accepts is covered: `Straight` leaves out those with a group declared inside a
required option, and those with a required option in a group that has options of its
own, because the C walk then takes a sibling for the parent (`lua_glue.c` 1392) and
corrects, and undoes, the wrong choices (noted with its hazard in `PROJECT.json`).
What the runs and the theorems say of the options they say of the other trees. `accepted` and
`back` are history: the licenses the user agreed to, and the stage he last left
by Back. Keys are named by their description, as in `MojoSetup.productkeys`.
The GUI lets the user set any box and one button of each group.

### Shutdown

`at` is the program point. `fatal`, `panic` and the signal handlers never return,
so the stack of their callers is not needed. The handlers are installed with
`signal()`, whose signals stay blocked while their handler runs: each is taken
once (`blocked`), in any order and at any point. `lua` has three values, since
`MojoLua_deinitLua` closes the state before it forgets it, and `ggui` and
`guiUp` are two variables, since `panic` shuts the plugin down and keeps the
pointer. `Caught` is the choice of the handlers: `fatal` once their message is
there, `panic` before. A revert that calls `fatal` is a second one, and so is a Lua
error in it, by way of `lua_atpanic`.

`work` is what of an unfinished installation is on disk: nothing ("clean"), what the
manifest and the rollbacks list ("half"), besides it an object that was made and not
listed yet ("loose", between mainline 493 and 498), or an installation whose
rollbacks are dropped and whose manifest is not ("late"). A revert that returns
(`Returned`) has undone what is listed, or has gone on without the deletions (176)
and the restores (218-223) that failed; of the rest it knows nothing. `left` is what
it left. Status 23 says no more than that, and that is what `HonestExit` says: that
the revert ran through to its end, and that nothing has touched the rest since.

A step is atomic for signals. A handler that interrupts `malloc` or the Lua
interpreter and then allocates or runs Lua itself is undefined in C and not
modelled.

### Download and FileCopy

`Download` has two actors. The network thread (`Thread`) connects, learns the
length, receives up to `NetChunk` bytes into `batch` and puts them into the
`ring`, waiting for room; the installer reads through `BlockingReady` and
`BlockingRead` and gives up with `BlockingClose`. A critical section of the
ring's mutex is one step, and so is each write of `length`, `error` and `stop`,
which are shared without it. The ring is one of `RingSize` places with `read`,
`write` and `used` as the code has them, so that it wraps round.

`FileCopy` is one call: `download`, a copy from a local stream with or without a
maximum, or `movefile`, which tries `rename` first. `pc` follows
`MojoInput_toPhysicalFile`: wait until there is something to read or the
callback cancels (`Wait`), ask for the length (`ToCopy`), unlink and create the
file, go round the loop (`LeaveLoop`, `Poll`, `CopyChunk`, `EndOfStream`), close
and remove what failed (`CloseOut`), close the stream (`CloseIn`, for a download
`Join`), and for a move unlink the source and, when that fails, the copy. Bytes
are named by their place in the file, so that order, loss and repetition are
told apart; `sums` is what went into the checksum. `Faults` are the calls that
may fail. `close` and `remove` are in `FaultKind` but not in the run: a failing
`close` is not seen by the code, and a failing `remove` leaves what it could not
remove.

### ZipArchive

The archive is any table of `N` entries: a kind, a target for a link, and
whether its local header is intact. `resolved`, `offset` and `symlink` are the
fields of `ZIPentry`. `zip_resolve` and `zip_follow_symlink` call each other;
`stack` holds the entries for which the former has not returned, `phase` and
`result` what the latest is doing, and a step is one of its reads or returns.
`EnumNext`, `OpenCurrentEntry` and `Duplicate` are the operations that start it and
`Return` is what they do with its result. `Answer` is the end of `enumNext`: a link
that broke before its text was read has no `linkdest`, which `enumNext` gives to
`xstrdup` (archive_zip.c 2061, mojosetup.c 948-953), and the process crashes
(`phase = "crashed"`). An I/O error may come at every read (`ReadsFail`, `faulted`).

### Streams, StreamIO and Extract

A world `w` is a stack of streams and a stack of archives. A stream is a file, a
subset of it (an archive appended to a program), a packed stream, or a member of
an archive; each has a position of its own and reads from the one below it,
whose position it moves. The data are cells, two to a block: a header, a name, a
piece of data, padding, zeros; reading a header where there is none sets `wild`,
and the message "BUG: tar entry still open" sets `bug`. A packed stream, which
stands for bzip2 and xz alike, decodes forward only; seeking back starts
again from the beginning of the stream below. Data in gzip form are cells that no
stream unpacks: the decoder is asked for with the window bits 31 (fileio.c 102 and
214), which the bundled `inflateInit2` refuses (miniz.h 532). Reads are numbered, and
the run picks the one that fails (`Fails`).

`Extract` is driven by the Lua code. `OpenBase`, `Unpack` and `NewArchive` open
the base archive, once. For each pass, that is, for each `Setup.File` that names
it, come `StartEnumeration`; `drill_for_archive` through inner archives
(`DrillNext`, `OpenInner`); then `InstallNext`, `OpenEntry`, `Copy` for each
member the pass wants, `CloseInner` for each inner archive, and `FinishPass`.
`NextTar`, `NextPck` and `NextPkg` are the three `enumNext` functions, with
their seeks and reads in order. The two loops of the tar reader, over zero blocks
and over long names, are steps of their own: `pc` is then at the label
`get_next_block` or at `zeroes`, and `Look` goes on from there.

`Read` and `Seek` are constants, which the configurations set to `InputRead` and
`InputSeek` of `StreamIO`. `Extract` takes from what they answer the data, the
verdict, and `w.io`, where the streams are; which streams and archives are open
is in the rest of `w`, which only `Extract` and `Streams` change.

### Uninstall

`fs` is what exists in the destination, `users` what of it is the user's,
`lists` what each of the three manifests lists. `package` is the manifest that
the running program has loaded, with the entries that have lost their key. One
action is a command of `manifest_management` (`Command` with `Add`, `Delete`,
`Resync`), a deletion of a manifest (`UnlinkList`), the writing of one
(`WriteList`), the user's consent (`Confirm`), or one deletion of the uninstaller
(`DeleteNext`), in descending order of names (`Latest`, from `flatten_manifest`).
`Killed` ends the program anywhere; `UserAdds` is the user, or the program that
was installed, putting a file where none is, or one of his own in the place of one
that was installed, the manifests and the program itself excepted.
Deletions and writes may fail. Names are in the order of `strcmp` (`Rank`). `users`
also gets what a rebuilt Lua manifest no longer lists: `delete` hands a file to the
user.

Names are relative to the destination, but for those of the directories above it
that the installer had to make (`Outer`): `make_relative` leaves them absolute
(mainline 35-41, 503-517), and `delete_files` (164-185) looks for them below the
destination, at `Below` (`Place`). Nothing is there as a rule, and a deletion of
nothing counts as one that worked, so these directories stay. Should the user have
an object there, it is deleted.

What manages and uninstalls is a part of the installation (`Program`: the control
application and its scripts, mainline 982-1045): without it, or without the Lua
manifest, nothing can be started (`CanStart`). A new installation over the old one
is not modelled.

### Web

The server is the one thread of the installer: it shows a page (`ShowPage`),
answers the client it has kept, accepts a connection, reads it until it has a
request (`Accept`, `Read`, `Parse`), and decides whether that is an answer to the
page or a page asked for again (`Judge`); at the end it turns browsers away until
there are none (`StartDeinit`, `FinishDeinit`). The browser is external: two tabs
that may ask for a page, show what they were sent, and press its buttons once or
twice, connections that carry nothing, end, or are bogus, and hang up at any
time. A page is known by its name alone, as in the code, and `taken` says for
which page the answer to each question was given. `careful` is a user with one
tab who clicks once on each page.

## Runs

A run is named like its configuration file.

| run | question | result |
| --- | --- | --- |
| `txn_atomic` | Without signals, for packages whose entries do not collide: is the installation atomic on the user's objects (`ImplementsAtomic`), does a revert leave debris (`RevertLeavesNoDebris`), does the manifest of a success match the disk and is the scratch space gone (`SuccessIsClean`), is "never" obeyed but for what goes with a replaced directory of the previous version (`NeverMeansNever`)? Some packages also with `--noprompt`. | holds, 225 000 states from 318 initial ones |
| `txn_faults` | Can any collision, failure, signal or kill destroy an object of the user's other than a link to a directory or what a signal caught half copied (`NothingLost`), and does the process always end (`Termination`)? | holds, 2.2 million states |
| `txn_restore` | Is every user's file back after a revert (`RevertRestores`)? | violated |
| `txn_kept` | Is a finished installation safe from later errors (`SuccessIsKept`)? | violated |
| `wizard` | Whatever the user refuses, goes back to and changes: are all licenses accepted (`Licensed`) and keys entered (`KeysReady`) for what is installed, are required, disabled and grouped options respected (`ChoiceIsLegal`), are choices kept on going back (`KeepsChoices`), is there no step back over the start (`StagesInOrder`), and do the stages end unless the user goes round (`Ends`)? | holds, 18 000 states |
| `shutdown` | With signals and errors in any order: one revert at most (`RevertedOnce`), honest exit codes (`HonestExit`), a revert that runs to its end after any single failure (`OneFaultIsReverted`), no box of a dead GUI in `panic` and no freed message (`NothingDeadIsUsed`), and an end (`WindsUp`)? | holds, 99 000 states |
| `copy` | Do the bytes of a download arrive in order (`InTransit`) and its length in time (`InStep`), is a file complete or absent (`CompleteOrAbsent`), does a move ever cost it (`MoveIsSafe`), and does a copy end (`EndsOrStuck`)? | holds, 6 100 states |
| `zip` | Does resolution mark its own entries and no others (`CallsInProgress`), read the data it resolved (`ReadsTheData`), judge entries alike in every order of calls (`VerdictIsTheArchives`), leave what is settled (`SettledForGood`) and return, unless it enumerates a link that broke before its text was read (`CallsReturn`)? | holds, 46 000 states |
| `extract` | Are the installed files the members' bytes (`BytesAreTheMembers`) and those each pass wants, once and in order (`AsWanted`), is what is open what the code works with, closed in the end, and only the wanted installed (`Tidy`), and does an installation without a failing read fail exactly for the archives the readers cannot read (`FailsForCause`)? | holds, 28 000 states |
| `tar_cat` | The last of these for two tar archives in one file. | violated |
| `uninstall` | Do the user's files stay but at listed names (`UsersFilesStay`), is the rest removed but for what the code cannot find (`NothingIsLeft`), can an uninstallation be taken up again until its own program goes (`ProgramGoesLast`), and do the manifests agree after a rebuild (`ListsAgree`)? | holds, 3.0 million states |
| `web` | Is no connection lost (`NobodyForgotten`), is a careful user's answer taken for the question it was given to (`OneClickOneAnswer`), and is everyone served (`EveryoneIsServed`)? | holds, 118 000 states |

*Bounds.* The tree of `MCInstallTxn` has a destination `/opt/g` with the payload
paths `a`, `d`, `d/f`, the uninstall script, a control application, a manifest, a
menu file, a download, and six rollback names: enough for a directory with a
file, a second object, the previous version's control application, manifest and
script, and the package's own first copy to be backed up in one run. It has every
pair of file, directory and symbolic link entries over fifteen trees: empty, the
user's files, an installation whose files are in the old manifest, or partly not,
and two with a link to a directory. `Fitting` says which scenarios `txn_atomic` is
about: no file is delivered twice or below a delivered file, no entry names a
directory that is the user's, and no directory goes over a link to one.
`txn_restore` is what happens otherwise. `txn_faults` has five packages, with an entry
for a directory of the user's, one for a link of his to a directory, a path that is
delivered twice, an upgrade, and files of his in the way.

The packages of `MCWizard` have six options and a radio group, nested, required,
disabled and both; with and without a first stage; and with each skip on the
command line. `Patience` bounds how often the user goes back, refuses, errs or
changes his mind. Five is enough to go back from a second key over the licenses
to the options, change them, and do part of it again.

The `shutdown` run has two signals of each kind, so that each handler is
interrupted by the other one and by one of its own, and four failures can meet:
as many as `panic` counts. Nothing else needs a bound: `work` has four values, and the
counters stop by themselves.

The file of `copy` has five bytes, its ring three places and its chunks two: the
ring wraps round in the middle of a chunk, fills, and runs empty. A maximum is
two, nine or none: below the length, above it, unknown. `zip` has three entries: a
circle of two or three, one that is entered from outside, a chain of two links,
and an entry with a result while another waits for it; every archive of three
entries is an initial state. `extract` has members of none to three cells, so that
padding occurs and does not, a directory, a long name, and each of the first 40
reads failing, which is more than any installation makes. `uninstall` has ten
paths in three directories, with places of the user's own in two of them, one of
these where a directory above the destination is looked for, and one kill, one
failing operation and two commands: one is enough for every step to be the
interrupted one, and two commands change an entry twice. `web` has three
pages, of which two have the same name, three connections, and a backlog of two
(five in the code): the queue fills, and one connection is kept, one read and one
waiting.

Deadlock is not checked in `wizard`, `shutdown`, `copy`, `extract`, `uninstall` and
`web`, which stop when their work is over, when everyone waits for the user, or,
in `copy`, as `Stuck` says.

*Fairness.* `Termination` assumes `WF_vars(Run)`: the installer is one thread
that is always scheduled, hooks return and users answer. `Ends` assumes
`WF_vars(Next)` of `Wizard`: stages run, and the user answers each page in the
end; since doubts are bounded, a run without end would be a loop of the code.
`WindsUp` assumes weak fairness of the steps of `fatal`, `panic` and
`deinitEverything`, none of which waits for anything but the user's closing of a
message box. `EndsOrStuck` assumes weak fairness of the copy and of the network
thread, each a thread of its own: the server sends, ends or breaks off.
`CallsReturn` assumes it of the steps of a call, which calls nothing that waits;
that `faulted` is left alone there says that nothing is asked of I/O errors.
`EveryoneIsServed` assumes that the server runs and that the installer comes to
its next question or its end, and nothing of the browser. Nothing is assumed of
signals and kills.

*Mutants.* Each property is checked against a plausible error in the code it
watches: entries installed without asking, deletion from the wrong end, a log
entry forgotten, "never" asked after `allowoverwrite`; licenses collected once
instead of each time, a correction of the options that undoes the user's choice;
a missing guard against a second `fatal`, memory freed before its pointer is
cleared; a ring that loses what does not fit, a copy that came out short and
counts, a source that goes although the copy failed; a circle of links that is
waited for, a link that is followed once only, a broken entry tried again; a
packed stream that is sought back from where it is, an entry left open, an
enumeration that goes on where the last one ended; directories deleted with all
that is in them, names deleted in the wrong order, a manifest left out; a
connection not closed after a 404, a page kept from one question to the next.

## Disagreements found

1. *A user's file is not restored* (`txn_restore`). `install_directory` enters a
   directory that existed already in the manifest, and only directories of the
   previous version are spared by `filter_manifest`. The revert removes the
   user's directory, which `backup_file` emptied, before it moves the files back
   into it; the restore fails and the file stays in `.mojosetup/tmp/rollbacks`.
   docs.txt 893-894 promises the restore.
2. *A signal at the success message deletes the installation* (`txn_kept`): the
   manifest outlives the rollbacks until `gui.final` has returned.
3. *Tar archives that were appended to each other* (`tar_cat`). The comment at
   archive_tar.c 215-217 says that their zero blocks are skipped. They are, but
   not counted: the offset of the next member is computed from where the search
   began, so its bytes are those of its own header, and the header after it is
   looked for in its data.

Others are visible in the models, which do what the code does, and have no run
of their own; the properties above are stated so as not to promise them.

In the installation and the stages:

- A failed upgrade loses the previous version's own files: uninstall script,
  product keys and menu files are overwritten without a backup
  (mainline 1070), entered in the manifest and deleted by the revert, though
  mainline 1909-1911 says that they are restored.
- A path that two options deliver (outside `Fitting`): the second copy backs up
  the first as if it were the user's, and a revert restores it.
- Parents of the destination stay after a revert and after an uninstallation: they
  are in the manifest under absolute names, and `delete_files` puts the destination
  in front of them.
- A user's symbolic link to a directory, where the package has a directory, is
  entered in the manifest and deleted by a revert; it is not asked about, and
  neither does "never" protect it. `NothingLost` and `NeverMeansNever` except it, and
  `Sound` packages have none.
- A signal while `movefile` copies a backup makes the revert put the half-written
  copy over the original, which is intact. `NothingLost` excepts it (`torn`).
- A signal between `mkdir` or `symlink` and `manifest_add` leaves an object that no
  log knows of; the revert goes on after deletions and restores that fail. Both
  end with status 23. `OneFaultIsReverted` and `HonestExit` promise no more than
  that the revert ran to its end.
- `--noprompt` leaves out the last stage with its cleanup; `SuccessIsClean`
  excepts it.
- Rollback files that a killed run, or one with `--noprompt`, has left are
  overwritten by the next, which counts from 1 again.
- The stage loop steps back by one, and a stage that has no page goes forward
  again: from the key of an option, over an empty stage of licenses, the user
  comes to the key again. docs.txt 518-519 says that he can change his options.
- `MojoSetup.productkeys` is never pruned when options change: the key of an
  option that was unchecked is written.
- `--nooptions` skips `required` and `disabled`, which only the walk for the GUI
  applies (docs.txt 691-692).
- A key without a destination is a Lua error at the end of the installation
  (status "error" in `Wizard`); docs.txt 605 says it is not written to disk.
- A signal between `lua_close` and `luaState = NULL` (lua_glue.c 1970) makes
  `fatal` call the revert in a closed Lua state.
- `panic` shuts the GUI down and keeps `GGui`: a signal before `exit(22)` makes
  `fatal` show its box through the dead plugin.

In copies and downloads:

- A download that is given up while the ring is full never ends: the loop in
  which the thread waits for room (common.c 974) does not look at `stop`, and
  close joins the thread. `EndsOrStuck` names this state.
- A complete download of unknown length counts as failed. Whether `MojoPlatform_close`
  failed cannot be told on Unix, where it returns false either way
  (platform.h 185-189 says true on success).
- `movefile` removes the copy when it cannot remove the source.

In archives:

- A read error or a truncated file inside a tar archive ends the pass as if the
  archive had ended (archive_tar.c 222): fewer files, and success. `AsWanted`
  speaks of runs without failing reads for that reason.
- The directory of a pck archive is read from wherever the stream is
  (archive_pck.c 118), so that a second pass over one fails.
- Archives in gzip form are in the list of archives (fileio.c 33 and 36) and can
  never be opened, since the bundled `inflateInit2` refuses what it is asked for.
- A pkg archive whose name does not end in pkg is not recognised, though the list
  says that its contents show what it is (fileio.c 43): `MojoArchive_createPCK`, which
  is tried before, has read eight bytes and leaves the stream behind them
  (archive_pck.c 246-253). `FailsForCause` names these three as `Hopeless`, and says
  that no other archive in the run fails.
- A transient I/O error marks a zip entry broken for good; `VerdictIsTheArchives`
  excepts it. The enumeration of a link whose local header is corrupt, or could not
  be read, crashes, as said above; `CallsReturn` names it as `Crashed`. The crash is a
  signal, for which `fatal` reverts the installation.

In manifests:

- `resync` takes the key of an entry, after which `build_xml_manifest` fails on it
  (mainline 828): all three manifests have been deleted by then, and only the
  Lua manifest is back. `ListsAgree` excepts entries without a key.
- `add` always fails: `manifest_add` reads `MojoSetup.oldfiles`, which is nil there.
- The uninstall script, the control application and its scripts are on the manifest
  that they work through. An uninstallation that is killed after the first file of
  the program is gone cannot be started again: what sorts before that, the metadata
  directory with the manifests among it, stays. `ProgramGoesLast` says that nothing
  else does.
- A rebuild of the manifests that is killed after it has deleted the Lua manifest
  leaves a program that nothing can uninstall any more (`cut`), and so does one
  whose writing fails.
- Files are deleted by name (mainline 2242-2243): what the user has put in the place
  of an installed file goes with the others.
- The uninstaller goes on after failed deletions (`delete_error_is_fatal` is never
  in a manifest) and deletes the manifests with the rest.

In the web interface:

- The loop of `deinit` that turns browsers away ends at the first request that is
  bogus; those after it are closed without a word.
- A connection that is closed by the browser before its request is complete makes
  `recv` return 0, on which the server adds the last byte to the request again and
  again until the memory is used up; if that byte is the end of a line, it counts as
  the second one and the part that has come is answered as a request. A browser that
  stays silent holds the server up as well. `EveryoneIsServed` names both as
  `HeldUp`; the request cut off at the end of a line is one that was sent, in the
  model.
- Two clicks on a button answer two questions of the same name; `OneClickOneAnswer`
  speaks of a careful user.
- After a failure of `accept` the socket is closed, and `doPromptPage` goes round
  for ever.

## Proofs

`InstallTxnProofs` proves, for every tree, plan, sequence of rollback names and
set of faults that satisfies the named assumptions of `InstallTxn`:

- `TypeCorrect`: `Spec => []TypeOK`. The strengthening `Control` relates `pc` to
  `step`, `stack` and `rollbacks`: a task is current where the code uses it,
  `backup_file` has a path where it moves one, and a rollback name is left where
  one is taken.
- `NothingIsLost`: `Spec => []NothingLost`, signals, kills, failing restores and
  copies cut short included. What is promised is `Owed`: every object of the user's
  but the links the code takes for directories (`Taken`) and what a signal has torn.
  `NothingLost` is not inductive: whether the next step destroys an object depends on
  the logs. `SafeInv` says that `Saved`, that each object owed is somewhere whole, holds
  until the installation has succeeded, and `Safe` until the process has ended:
  - `InPlace`: an object of the user's is at its path or in a rollback file;
  - `SlotsHold`: a rollback file that holds one holds that of the path its entry
    in `rollbacks` names, and the next rollback file is empty;
  - `OldestFirst`: if a path has several rollbacks, the one that holds the user's
    object is the first that holds anything, and a path that still has it has
    none, or a copy that was complete when a signal came (`Whole`): so `do_rollbacks`,
    going from the last to the first, never overwrites the original with anything
    else;
  - `Expendable`: what the revert's deletion loops go through is not the user's;
  - `Backing` and `Ready`: what `backup_file` is working on, and that the path
    about to be written has been emptied.
  The proof has one lemma for each kind of step (`QuietStep`, `WriteStep`,
  `BackedUp`, `RolledBack`, `SweepSafe`) and cites it for every action.

- `NeverIsObeyed`: `Spec => NeverMeansNever`, for every package and all `Faults`. A
  step changes the disk in one of three ways - something is put at one path
  (`Puts`), an object is moved to a rollback file (`Stows`) or tried to be moved
  back (`Restores`), or such a move is cut short (`CutOnDisk`) - or leaves it
  (`EveryDiskStep`), and the invariant is proved for these.
  It adds to `Safe` that the deletion loops' lists hold what their names say
  (`Queues`); that a run that has given up its rollbacks does no task and restores
  nothing (`Committed`); that any object that was there before is at its path or in
  a rollback file of that path (`Homes`); and that after "never" `backup_file` works
  only on what gives way unasked (`Yielding`), so that only such an object can be
  torn (`Halves`). The attempt to prove the property for every path of the user's
  showed that it is not true of the code: `permit_write` does not ask about a name
  of the previous version, and when that is a directory that a file replaces,
  `backup_file` takes away what the user has in it. `Spared` leaves out what is
  below such a path, one of the trees of `MCInstallTxn` has it, and the links in
  `Taken`, which nobody asks about.

The second part of `InstallTxnProofs` proves `SuccessIsTidy`:
`Spec => []SuccessIsClean`. Its first hypothesis is that every scenario is `Sound`: no
file is delivered twice, below a file, or where the installer has its own, no
directory is delivered over a link to one, what the previous version had as a file is
no directory, and the scratch directory holds nothing else. Its second is that no
deletion fails (`"delete" \notin Faults`): the code prints the failure of one of its
deletion loops and goes on. Restores that fail, signals and kills may be among the
faults. For all packages the property is false: one that delivers `d/f` and then a
file `d` moves its own `d/f` away and keeps it in its manifest. `FittingIsSound`, an
assumption that TLC evaluates in every run of `MCInstallTxn`, says that the packages
of `txn_atomic` satisfy it.

The property speaks of one moment, when the message is shown, and so says nothing of
the steps before. `Clean` is what holds of them as long as nothing is reverted:

- of the plan, `Course`, that a task is at a label its kind goes through;
- of the logs, `Manifested`, what the manifest may list so far; `Declared`, `Claimed`
  and `FetchesDone`, what it and the list of downloads do list; `Noted`, that no
  name of the previous version is entered again before it has been seen;
- of the disk, `Logging`, that what this run has written is in a log or in the hands
  of the step that enters it; `Listed`, that what the manifest lists exists or is yet to
  be written; `Leaving`, that `backup_file` never moves away what is in the new
  manifest; `Passed` and `Kept`, that what the obsolete files' task has left of the
  previous version is in the new manifest; `Tidy` and `Swept`, what is in the scratch
  directory and what each loop of the cleanup has yet to delete.

Each part is proved for kinds of steps (`ForwardSteps`): those that only move on,
those that write a log, the five ways to change the disk (`MakesWhat`), the cleanup.
The order of the plan enters by three lemmas about the sequence that `Work` builds
(`WorkImage`, `WorkManifests` and `PlanPlaces`).

The third part is about the reverts. `InstallsAtomically`:
`Spec => ImplementsAtomic`, the refinement of `AtomicInstall`, and from the same
invariant `RevertRestoresAll`: `Spec => []RevertRestores`. Both assume that nothing is
injected (`Faults = {}`: I/O errors, full disks, failing hooks and cancellations remain),
and that every scenario is `Sound` and `Succeeds` the previous version: what that
version had as a directory is no file, a directory that is delivered over one that is
there was its own, and none of its files is where a directory is made after the
obsolete files are gone. The second of these is what `txn_restore` shows to be
needed; `FittingIsSound` says that the packages of `txn_atomic` satisfy all of them.

What counts as the content of a path while the run is undecided is what a revert
would leave there (`RevertView`), and the proof is that this never changes (`Views`).
It has three phases, and `AtomicInv` says what holds in each:

- While tasks are done, `Standing`. `Stored` says of the rollback files that each
  holds what was at its path before the run, none twice, and that the directory it
  will be moved back into exists or is in a later rollback file (`Roofs`), which is
  restored earlier. `Vacated` says that what has taken the place of something moved
  away is an object in the manifest, and `Replaced` that something is put there,
  unless it is to be dropped. `Sources` says why a path is moved away at all. `DirsGone`
  and `DirsKept` say that directories that were there are neither lost nor listed,
  but for those of the previous version.
- While a revert deletes, `Sparing`: the objects on the manifest that still exist are
  on the list of the loop (`Doomed`), and no directory that a restore needs is.
- While it restores, `Vacant`: nothing is in the way of any of the rollback files
  that are left, so that every `movefile` is one rename that succeeds (`Restored`,
  `NextUndone`).

`FatalSteps` and `EarlySteps` list what the steps into and in a revert do. A commit is
the step that gives up the rollbacks: by `ObjectsAre` every object is then the old one
or the package's, whole, and by `GoneIsDropped` what is missing was to be dropped. After
it no object at a protected path changes (`StaysInstalled`).

`NoDebris`, the last part, proves `Spec => []RevertLeavesNoDebris`. Besides the
hypotheses of the refinement it has that all paths are at, below or above the
destination (`Inland`), and that the new version `BuildsOn` what the previous one
has left: its manifest is in the metadata directory, and no directory is made at a name
of its that is gone. The last is needed since `filter_manifest` spares every directory
with such a name: one that the user has removed and the run makes again stays
after a revert. `FittingIsSound` covers these, too. The invariant, `DebrisInv`, follows
what was not there before the run (`Waste`) through the loops of the revert (`Litter`):
at its start all of that is in the manifest or the list of downloads (`WasteLogged`),
but for the directories of the rollback files and what is in them, which go at
the end when the destination was there before (`Last`, `DestWas`). `SweepWaste` is the
heart of it: a loop that takes the greatest path first meets each directory after what
is in it, so that `rmdir` finds it empty. For this a directory must sort before
what is in it, as `TreeAssumption` says of the names below the destination and as
`MojoSetup.strcmp` does.

`WizardProofs` proves every safety property of `wizard` for all configurations
that `ConfigsAssumption` allows, the ones whose tree is `Straight`, and any
`Patience`: `StageOrder` (`StagesInOrder`),
`LicensesFirst` (`Licensed`), `KeysFirst` (`KeysReady`), `LegalInstalled`
(`ChoiceIsLegal`) and `ChoicesKept` (`KeepsChoices`). The stages are a sequence
`Preface` that every package has and a `Course` from the page of the options on,
and the invariants say what the position in it implies: each page still to be
shown belongs to the stage the driver is in (`PagesFit`); behind the licenses and
keys of the package they have been given (`PackageAsked`), behind those of the
options they have been given for what is chosen now, or their page is still to
come and the options do not change before it (`OptionsAsked`); the selection is as
the walk over the options leaves it from their page on, also for a user who comes
back (`Corrected`). `WentBack` says that who went back from a page is not past it
without having met a page again, which is why the driver does not step over the
start. The operators are recursive functions and are met by least
counterexamples: what is around an option in the tree (`AroundNodes`,
`Outermost`), and what a flattened sequence holds (`FlattenElements`).
`RadioLegal` and `RadioIdle` say of the correction that its result is legal and
that a legal selection is not changed by it.

`ShutdownProofs` proves, for all sets of signals, `TypeInvariant` (`TypeOK`),
`RevertOnlyOnce`, `ExitIsHonest`, `OneFaultSuffices` and `NothingDead`, that is,
every safety property of `shutdown`. They rest on `SignalsAreTwoKinds` alone and
on invariants that tie the program point to the static variables: `in_fatal` is
set from the first `fatal` on, so a second one panics; a message's pointer is set
only while its memory is allocated; a first `panic` has happened before the GUI
is shut down by one; whoever shuts down in good order has finished, or leaves what a
revert that ran to its end has left (`CleanEnding`); and unfinished work after a single
failure is on its way to the revert, with all the revert needs, or is what that left
(`FaultsCounted`). That is less than that one failure leaves nothing behind, which the
code does not keep: a deletion or a restore of the revert may fail too, and an
object may be on no list.

`ZipArchiveProofs` proves, for archives of any size, `CallsAreMarked`
(`CallsInProgress`), `DataIsRead` (`ReadsTheData`) and `SettledStays`
(`SettledForGood`). To be inductive they need what the stack of calls looks like
(`StackOK`): each call but the last waits for the entry its link names, which is
the next on the stack. Further `OffsetOK`: an offset has been moved exactly when
its entry's own call is past its local header; `LinksOK`: a link has a final entry
exactly when it is resolved; `CursorOK`: the enumeration is at an entry where the
code uses one. `VerdictsAreRight` proves `VerdictIsTheArchives`: what is
remembered of an entry, and every answer given while no read has failed, is what
the table of the archive alone decides, in whatever order the entries were asked
for. Its invariant is `Checked`, that what is settled is right, and `Told`, that
what is being returned is; the work is in what a chain of links decides. A chain
that leads to data in some number of links does so in at most `N` (`LeadsSoon`, since
a longer one meets an entry twice: `ChainRepeats`, by counting), one link further
from the entry before it (`LinkLeads`), and from an entry on a circle it leads
nowhere (`CircleLeadsNowhere`).

`UninstallProofs` proves all four properties of `uninstall` for every tree, order
of names and number of kills, failures and commands that `UninstallAssumption`
allows: `NothingOfTheUsers` (`UsersFilesStay`), `AllIsRemoved` (`NothingIsLeft`),
`ProgramStays` (`ProgramGoesLast`) and `ListsWillAgree` (`ListsAgree`). The heart of
its invariant is `Deleted`, that each name the deletion is through with is gone or is
a directory that holds something that is not to go (`Excused`); it uses that what
exists is in a directory that exists (`Closed`) and that a directory sorts before what
is in it. With `InOrder`, that what was tried sorts after what was not, and
`Startable`, that what the program is started with is missing only when it was tried
itself, it gives `ProgramGoesLast`. `UsersFilesStay` is a property of single steps:
those that take something off the disk are the deletion of the manifests and that
of the uninstallation, and the first takes nothing that can be the user's
(`UsersApart`).

`FileCopyProofs` proves every safety property of `copy` for any file, any sizes of
the ring and of the chunks, and any calls: `SpecInTransit` (`InTransit`),
`SpecInStep` (`InStep`), `SpecMoveIsSafe` (`MoveIsSafe`) and `SpecCompleteOrAbsent`
(`CompleteOrAbsent`). The last two assume that `close` is not among the faults, the
last also that `remove` is not: as said above, the code does not see the one and
can do nothing about the other. The lemmas `PutAppends` and `GetTakes` say of the
ring, wherever it wraps, that what is put comes after what is there and overwrites
none of it, and that what is got is its beginning. From them `Flow`, the middle of
the invariant, says byte by byte that the checksum, the ring and the thread's batch
continue each other; `Settled` that nothing can be read before the length is
known; `Written` and `Moving` what the destination and the source of a move hold
at each point of the call.

`WebProofs` proves both safety properties of `web` for any sequence of page names,
any tabs, connections and backlog, and any oddities of the browser:
`SpecNobodyForgotten` (`NobodyForgotten`) and `SpecOneClickOneAnswer`
(`OneClickOneAnswer`), from `WebAssumption`. The first rests on `Queued`, that a
connection waits in the queue once and nowhere else, and on `Talk`, that the
server reads only while it keeps no client. For the second, `Turns` counts the
answers taken, `Waiting` says that a careful user's last press is on the one
connection his tab waits for, and `Current` that this press, until it is taken,
and the page he sees while he waits for nothing, are those of the question that
is put. One lemma covers every reply (`DropStep`) and one every end of listening
(`StopStep`).

`ExtractProofs` proves `AlwaysTidy`: `Spec => []Tidy`, and `OnlyWholeFiles`, that a
file that was copied is installed only at the length its archive gives for it.
Both hold for every set of disks, whatever the files hold, and for every `Read`
and `Seek`: any read may fail, return too little, or return what makes no sense,
and any seek may go wrong. The readers keep their archives and streams in order
by themselves. The invariant says what is open at each value of `pc`. `Stacked`:
the archives read from ever higher streams, each but the first from an open member
of the one below it, there are no other members, and the file is at the bottom.
On that stands the stream the next archive is made of (`Opening`), an archive with
no entry open (`Idle`), or its current entry, which is as long as the archive says
(`Reading`). The lemmas lead from one to the next: `ArchiveIsIdle` and `Identified`
for the five `create` functions tried in turn, `LookKeeps` and `EnumerateKeeps` for
the walks over an archive, which open and close nothing (`Same`), `EntryOpened`,
`CloseEndsReading`, and `CloseArchiveIsIdle` for archives inside archives, where
`LowestIsTheMember` says which of the streams go when the topmost is closed.
`Installed` adds that a pass for one file has installed nothing until it is over.

TLC also checked the strengthenings as invariants before they were proved. Only
model-checked are

- what `Extract` installs: `BytesAreTheMembers`, `AsWanted` and `FailsForCause` depend
  on what `StreamIO` reads and on the format of contents of any length. Its streams
  read through each other by `RECURSIVE` operators, of which nothing can be proved
  here, and to walk a directory of any length is an induction over data;
- the liveness properties - `Termination`, `WindsUp`, `Ends`, `EndsOrStuck`,
  `CallsReturn` and `EveryoneIsServed` - which are out of the prover's reach.

## Not modelled

- The vendored libraries - Lua, liblzma, bzip2, miniz, stb_image, the protocols of
  libfetch - are most of the C code of the repository. They are third-party code
  that the models take as what MojoSetup uses them for.
- Byte formats: the fields of zip, tar, pck, pkg and uz2 headers, the search for
  the end of a zip's directory, compressed bytes and buffer sizes, checksums, the
  parsing of HTTP and of configuration files. They convert data, sequentially, and
  a test with a file reaches them.
- `findmedia` and the loop that asks for the next disc; with `--media0` set to a
  directory without the file the loop over overrides (lua_glue.c 796) never ends,
  since it does not advance its index.
- The directory archive, memory streams, `make_relative` (which compares prefixes
  without a separator: with the destination `/opt/g` the name `/opt/game/x`
  becomes `me/x`), `wildcardMatch`, `cmdlinestr`, the ring of scratch strings of
  `mojosetup.c` 30.
- The interactive plugins (stdio, ncurses, GTK+, Cocoa): their answers are what the
  user of `Wizard` does. In the web interface the contents of pages, the stub of
  the option page, which always goes forward, and the form for product keys.
- What a signal handler may break inside `malloc` or the Lua interpreter, which is
  undefined in C: a step of the models is atomic for signals.
- The desktop's registry of menu items, beyond whether the transaction has
  registered them; hooks of a package before and after an uninstallation.
- Several packages in one process, and rollbacks across processes; installations and
  backups through a symbolic link to a directory.
- Windows and BeOS platform layers, localization data, the build.
