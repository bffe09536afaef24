------------------------------ MODULE Extract ------------------------------
(***************************************************************************)
(* Installing from an archive: MojoArchive_newFromInput() and the tar, pck *)
(* and pkg readers (src/fileio.c, src/archive_tar.c, archive_pck.c and     *)
(* archive_pkg.c), driven by drill_for_archive() and install_archive()     *)
(* (src/scripts/mojosetup_mainline.lua) through the hooks of               *)
(* src/lua_glue.c.  One archive, perhaps compressed, perhaps appended to a *)
(* program, perhaps with an archive in it, is passed over once for every   *)
(* Setup.File that names it.  A step is one call from the Lua code, or one *)
(* round of a loop: of copying, of looking for a tar header, of closing.   *)
(***************************************************************************)
EXTENDS Streams, SequencesExt

CONSTANTS
  Disks,           \* what may be there to install from, see Disk
  Fails,           \* which read of the file fails, 0 for none
  Read(_, _, _),   \* what a stream's read(w, k, n) answers, see StreamIO
  Seek(_, _, _)    \* what a stream's seek(w, k, p) answers

\* A disk: the file's content and its extension; where in the file the archive is;
\* the archives to drill through, by name; what the last of them holds; and what
\* each pass wants: names, and whether it is one explicit name.
Disk(known, file, start, path, members, passes) ==
  [ext |-> known, file |-> file, start |-> start, path |-> path,
   members |-> members, passes |-> passes]

\* Every disk is installed from in passes.
ASSUME PassesAssumption == \A d \in Disks : Len(d.passes) \in Nat \ {0}

VARIABLES
  disk,
  world,     \* the streams and archives that are open, see Streams
  pc,        \* where the installation is, see TypeOK
  ext,       \* the extension of the archive that is being opened
  pass,      \* the number of the pass
  drill,     \* the names of the archives still to drill through
  written,   \* what has been written of the current file
  installed  \* what has been installed: pass, name, data

vars == <<disk, world, pc, ext, pass, drill, written, installed>>

Top == Len(world.ar)
TopStream == Len(world.st)

\* Reading and seeking move the streams of a world; they open and close none.
ReadFrom(w, k, n) ==
  LET r == Read(w, k, n) IN
  [w |-> [w EXCEPT !.io = r.w.io], out |-> r.out, rc |-> r.rc]

SeekIn(w, k, p) ==
  LET r == Seek(w, k, p) IN [w |-> [w EXCEPT !.io = r.w.io], ok |-> r.ok]

-----------------------------------------------------------------------------
(* The readers.  An archive reads from the stream that was topmost when it *)
(* was opened: its number is io.                                           *)

\* MojoInput_newCompressedStream() on the topmost input, which is read and then
\* sought back: gzip's decompressor cannot be made (the bundled zlib refuses its
\* window size), so gzip data is left as it is.
SoughtBack(r, b) ==
  IF b.ok /\ r.rc = 1 /\ r.out[1].is \in {"bz2", "xz"}
  THEN Push(b.w, Stream(r.out[1].is)) ELSE b.w

Sniffed(r, k) == SoughtBack(r, SeekIn(r.w, k, 0))

NewCompressedStream(w) == Sniffed(ReadFrom(w, Len(w.st), 1), Len(w.st))

NoEntryYet == [name |-> "", size |-> 0, type |-> ""]

Archive(w, format, first) ==
  [w EXCEPT !.ar = Append(@, [format |-> format, io |-> Len(w.st), prev |-> NoEntryYet,
                              cur |-> 0, next |-> 0, input |-> FALSE,
                              first |-> first, table |-> <<>>, index |-> 0])]

Created(w, ok) == [w |-> w, ok |-> ok]

\* MojoArchive_createTAR(): the position is reset whatever it finds.
TarChecked(r, b) ==
  IF b.ok /\ r.rc = Block /\ r.out[1].is = "head"
  THEN Created(Archive(b.w, "tar", 0), TRUE) ELSE Created(b.w, FALSE)
TarRead(r, k) == TarChecked(r, SeekIn(r.w, k, 0))
CreateTAR(w) == TarRead(ReadFrom(w, Len(w.st), Block), Len(w.st))

\* MojoArchive_createPCK() and createPKG(): the position stays behind the header.
HeaderRead(r, format, first) ==
  IF r.rc = 1 /\ r.out[1].is = format
  THEN Created(Archive(r.w, format, IF first = 0 THEN r.out[1].size ELSE first), TRUE)
  ELSE Created(r.w, FALSE)
CreatePCK(w) == HeaderRead(ReadFrom(w, Len(w.st), 1), "pck", 0)
CreatePKG(w) == HeaderRead(ReadFrom(w, Len(w.st), 1), "pkg", 1)

\* MojoArchive_createZIP() on what is not a zip: it looks for a signature and
\* leaves the position wherever it stopped.
CreateZIP(w) == Created(ReadFrom(w, Len(w.st), 1).w, FALSE)

OrElse(r, Create(_)) == IF r.ok THEN r ELSE Create(r.w)
OrClose(r) == IF r.ok THEN r ELSE Created(Close(r.w), FALSE)

\* The formats whose create() succeeds, in the order of archives[], where tar
\* stands twice.
Identify(w) ==
  OrElse(OrElse(OrElse(OrElse(CreateZIP(w), CreateTAR), CreateTAR), CreatePCK), CreatePKG)

\* MojoArchive_newFromInput() after MojoInput_newCompressedStream(): an extension
\* decides alone.
NewFromInput(w, known) ==
  IF known = "tar" THEN CreateTAR(w)
  ELSE IF known = "pck" THEN CreatePCK(w)
  ELSE IF known = "pkg" THEN CreatePKG(w)
  ELSE OrClose(Identify(w))

DirectoryRead(r, a) ==
  LET first == r.w.ar[a].first IN
  IF r.rc # first - 1 THEN Answer(r.w, FALSE)
  ELSE Answer([r.w EXCEPT !.ar[a].table = r.out, !.ar[a].index = 0,
                          !.ar[a].next = first, !.ar[a].prev = NoEntryYet,
                          !.io.wild = @ \/ \E i \in 1 .. r.rc : r.out[i].is # "entry"], TRUE)

\* MojoArchive_pck_enumerate() reads the directory from wherever the stream is.
EnumeratePck(w, a) == DirectoryRead(ReadFrom(w, w.ar[a].io, w.ar[a].first - 1), a)

\* Mutant: a tar or pkg archive goes on from where it was.
EnumerateOn(w, a) ==
  LET ar == w.ar[a] IN
  IF ar.format = "pck" THEN EnumeratePck(w, a)
  ELSE Answer([w EXCEPT !.ar[a].prev = NoEntryYet,
                        !.ar[a].next = IF ar.format = "pkg" /\ @ = 0 THEN 1 ELSE @], TRUE)

\* The enumerate() of each archive.
Enumerate(w, a) ==
  LET ar == w.ar[a] IN
  IF ar.format = "pck" THEN EnumeratePck(w, a)
  ELSE IF ar.format = "pkg"
  THEN Answer([w EXCEPT !.ar[a].next = 1, !.ar[a].prev = NoEntryYet], TRUE)
  ELSE Answer([w EXCEPT !.ar[a].next = 0, !.ar[a].cur = 0, !.ar[a].prev = NoEntryYet,
                        !.bug = @ \/ ar.input], TRUE)

\* What looking for the next entry comes to: the end, an entry, or another round
\* of the loop, at a label of MojoArchive_tar_enumNext().
NoMore(w) == [w |-> w, found |-> "end"]
Again(w, label) == [w |-> w, found |-> label]
OneMore(w, a, head, name, cur, next) ==
  [w |-> [w EXCEPT !.ar[a].prev = [name |-> name, size |-> head.size, type |-> head.type],
                   !.ar[a].cur = cur, !.ar[a].next = next], found |-> "entry"]

Rounded(n) == ((n + Block - 1) \div Block) * Block

\* A LONGNAME block names the entry that follows; a failed read of it is taken
\* for a name.
LongNameRead(l, a, size) ==
  IF l.rc = 0 THEN NoMore(l.w)
  ELSE Again([l.w EXCEPT !.ar[a].next = @ + Block + Rounded(size),
                         !.ar[a].prev.name = IF l.rc < 0 THEN "garbage" ELSE l.out[1].name],
             "get_next_block")

\* A block of the file: zeros are skipped.
TarBlock(r, a) ==
  LET next == r.w.ar[a].next
      name == r.w.ar[a].prev.name
      head == r.out[1] IN
  IF r.rc # Block THEN NoMore(r.w)
  ELSE IF head.is = "zero" THEN Again(r.w, "zeroes")
  ELSE IF head.is # "head" THEN NoMore([r.w EXCEPT !.io.wild = TRUE])
  ELSE IF head.type = "long"
  THEN LongNameRead(ReadFrom(r.w, r.w.ar[a].io, head.size), a, head.size)
  ELSE OneMore(r.w, a, head, IF name = "" THEN head.name ELSE name,
               next + Block, next + Block + Rounded(head.size))

NextBlock(w, a) == TarBlock(ReadFrom(w, w.ar[a].io, Block), a)

TarSought(s, a) == IF s.ok THEN NextBlock(s.w, a) ELSE NoMore(s.w)

\* MojoArchive_tar_enumNext() from get_next_block on.
TarHeader(w, a) == TarSought(SeekIn(w, w.ar[a].io, w.ar[a].next), a)

\* MojoArchive_tar_enumNext().
NextTar(w, a) ==
  TarHeader([w EXCEPT !.ar[a].prev = NoEntryYet, !.bug = @ \/ w.ar[a].input], a)

PckSought(s, a) ==
  LET ar == s.w.ar[a]
      e == ar.table[ar.index + 1] IN
  IF ~s.ok THEN NoMore(s.w)
  ELSE OneMore([s.w EXCEPT !.ar[a].index = @ + 1], a, e, e.name, 0, ar.next + e.size)

\* MojoArchive_pck_enumNext().
NextPck(w, a) ==
  IF w.ar[a].index >= Len(w.ar[a].table) THEN NoMore(w)
  ELSE PckSought(SeekIn(w, w.ar[a].io, w.ar[a].next), a)

PkgHeader(r, a) ==
  LET e == r.out[1] IN
  IF r.rc # 1 THEN NoMore(r.w)
  ELSE IF e.is # "entry" THEN NoMore([r.w EXCEPT !.io.wild = TRUE])
  ELSE OneMore(r.w, a, e, e.name, 0, r.w.ar[a].next + 1 + e.size)
PkgSought(s, a) == IF s.ok THEN PkgHeader(ReadFrom(s.w, s.w.ar[a].io, 1), a) ELSE NoMore(s.w)

\* MojoArchive_pkg_enumNext(): the file follows its header.
NextPkg(w, a) == PkgSought(SeekIn(w, w.ar[a].io, w.ar[a].next), a)

EnumNext(w, a) ==
  IF w.ar[a].format = "tar" THEN NextTar(w, a)
  ELSE IF w.ar[a].format = "pck" THEN NextPck(w, a) ELSE NextPkg(w, a)

\* The openCurrentEntry() of each: a tar archive has one open at most.
OpenCurrentEntry(w, a) ==
  LET ar == w.ar[a]
      m == [Stream("member") EXCEPT !.ar = a, !.start = ar.cur, !.end = ar.prev.size] IN
  IF ar.format # "tar" THEN Answer(Push(w, m), TRUE)
  ELSE IF ar.cur = 0 THEN Answer(w, FALSE)
  ELSE Answer([Push(w, m) EXCEPT !.bug = @ \/ ar.input, !.ar[a].input = TRUE], TRUE)

\* The close() of each, which closes its stream.
CloseArchive(w) ==
  LET c == Close(w) IN [c EXCEPT !.ar = SubSeq(@, 1, Len(@) - 1)]

-----------------------------------------------------------------------------
(* The passes.                                                             *)

Init ==
  /\ disk \in Disks
  /\ world \in {World(disk.file, f) : f \in Fails}
  /\ pc = "open" /\ ext = "" /\ pass = 1 /\ drill = disk.path
  /\ written = <<>> /\ installed = <<>>

Wanted == disk.passes[pass]

\* Where install_archive()'s loop goes on when it has installed an entry.
AfterInstall == IF Wanted.single THEN "finish" ELSE "next"

\* MojoArchive_initBaseArchive() and luahook_archive_fromfile(): an archive that
\* was appended to a program is a subset of its file.
OpenBase ==
  /\ pc = "open"
  /\ LET sub == [Stream("subset") EXCEPT !.start = disk.start,
                                         !.end = Len(Content[disk.file]) - 1] IN
     world' = IF disk.start = 0 THEN world ELSE Push(SeekIn(world, 1, disk.start).w, sub)
  /\ pc' = "unpack" /\ ext' = disk.ext
  /\ UNCHANGED <<disk, pass, drill, written, installed>>

\* MojoArchive_newFromInput().
Unpack ==
  /\ pc = "unpack"
  /\ world' = NewCompressedStream(world) /\ pc' = "identify"
  /\ UNCHANGED <<disk, ext, pass, drill, written, installed>>

NewArchive ==
  /\ pc = "identify"
  /\ \E r \in {NewFromInput(world, ext)} :
       world' = r.w /\ pc' = IF r.ok THEN "enumerate" ELSE "failed"
  /\ UNCHANGED <<disk, ext, pass, drill, written, installed>>

\* luahook_archive_enumerate(), for drilling and for installing.
StartEnumeration ==
  /\ pc = "enumerate"
  /\ \E r \in {Enumerate(world, Top)} :
       world' = r.w /\ pc' = IF r.ok THEN "next" ELSE "failed"
  /\ UNCHANGED <<disk, ext, pass, drill, written, installed>>

\* Where the installation is while it looks for an entry: before a call of
\* enumNext(), or between two rounds of it.
Looking == {"next", "get_next_block", "zeroes"}
Look ==
  IF pc = "next" THEN EnumNext(world, Top)
  ELSE IF pc = "zeroes" THEN NextBlock(world, Top) ELSE TarHeader(world, Top)

Member(name) == CHOOSE m \in Range(disk.members) : m.name = name
ExtensionOf(name) == IF name = "in.tar" THEN "tar" ELSE ""

\* One round of drill_for_archive()'s loop.
DrillNext ==
  /\ pc \in Looking /\ drill # <<>>
  /\ \E r \in {Look} :
       LET e == r.w.ar[Top].prev IN
       /\ world' = r.w
       /\ pc' = IF r.found = "end" THEN "failed"
                ELSE IF r.found # "entry" THEN r.found
                ELSE IF e.type = "file" /\ e.name = Head(drill) THEN "drill" ELSE "next"
  /\ UNCHANGED <<disk, ext, pass, drill, written, installed>>

\* luahook_archive_fromentry() for the archive that was looked for.
OpenInner ==
  /\ pc = "drill"
  /\ \E o \in {OpenCurrentEntry(world, Top)} :
       world' = o.w /\ pc' = IF o.ok THEN "unpack" ELSE "failed"
  /\ ext' = ExtensionOf(Head(drill)) /\ drill' = Tail(drill)
  /\ UNCHANGED <<disk, pass, written, installed>>

\* One round of install_archive()'s loop, up to the writing of a file.  A
\* directory or a link is installed at once.
InstallNext ==
  /\ pc \in Looking /\ drill = <<>>
  /\ \E r \in {Look} :
     LET e == r.w.ar[Top].prev IN
     /\ world' = r.w
     /\ IF r.found = "end" THEN pc' = "finish" /\ UNCHANGED installed
        ELSE IF r.found # "entry" THEN pc' = r.found /\ UNCHANGED installed
        ELSE IF e.name \notin Wanted.names THEN pc' = "next" /\ UNCHANGED installed
        ELSE IF e.type = "file" THEN pc' = "entry" /\ UNCHANGED installed
        ELSE /\ installed' = Append(installed, [pass |-> pass, name |-> e.name, data |-> <<>>])
             /\ pc' = AfterInstall
  /\ UNCHANGED <<disk, ext, pass, drill, written>>

\* luahook_writefile().
OpenEntry ==
  /\ pc = "entry"
  /\ \E o \in {OpenCurrentEntry(world, Top)} :
       world' = o.w /\ pc' = IF o.ok THEN "copy" ELSE "failed"
  /\ written' = <<>>
  /\ UNCHANGED <<disk, ext, pass, drill, installed>>

\* Mutant: the length of the file is not looked at.
CopyUncounted ==
  /\ pc = "copy"
  /\ LET flen == Length(world, TopStream)
         n == Lesser(CopyChunk, flen - Len(written)) IN
     \E r \in {IF n = 0 THEN Got(world, <<>>) ELSE ReadFrom(world, TopStream, n)} :
     IF r.rc > 0
     THEN world' = r.w /\ written' = written \o r.out /\ UNCHANGED <<pc, installed>>
     ELSE /\ world' = Close(r.w) /\ UNCHANGED written
          /\ IF r.rc <= 0
             THEN /\ installed' = Append(installed,
                       [pass |-> pass, name |-> world.ar[Top].prev.name, data |-> written])
                  /\ pc' = AfterInstall
             ELSE pc' = "failed" /\ UNCHANGED installed
  /\ UNCHANGED <<disk, ext, pass, drill>>

\* One round of MojoInput_toPhysicalFile()'s loop; a file that came out short
\* stops the installation.
Copy ==
  /\ pc = "copy"
  /\ LET flen == Length(world, TopStream)
         n == Lesser(CopyChunk, flen - Len(written)) IN
     \E r \in {IF n = 0 THEN Got(world, <<>>) ELSE ReadFrom(world, TopStream, n)} :
     IF r.rc > 0
     THEN world' = r.w /\ written' = written \o r.out /\ UNCHANGED <<pc, installed>>
     ELSE /\ world' = Close(r.w) /\ UNCHANGED written
          /\ IF r.rc = 0 /\ Len(written) = flen
             THEN /\ installed' = Append(installed,
                       [pass |-> pass, name |-> world.ar[Top].prev.name, data |-> written])
                  /\ pc' = AfterInstall
             ELSE pc' = "failed" /\ UNCHANGED installed
  /\ UNCHANGED <<disk, ext, pass, drill>>

\* One round of close_archive_list(), which closes the archives that were drilled
\* for.
CloseInner ==
  /\ pc = "finish" /\ Top > 1
  /\ world' = CloseArchive(world)
  /\ UNCHANGED <<disk, pc, ext, pass, drill, written, installed>>

\* When they are closed, the next file's turn comes.
FinishPass ==
  /\ pc = "finish" /\ Top <= 1
  /\ IF pass = Len(disk.passes)
     THEN pc' = "done" /\ UNCHANGED <<pass, drill>>
     ELSE pc' = "enumerate" /\ pass' = pass + 1 /\ drill' = disk.path
  /\ UNCHANGED <<disk, world, ext, written, installed>>

Next ==
  \/ OpenBase \/ Unpack \/ NewArchive
  \/ StartEnumeration \/ DrillNext \/ OpenInner \/ InstallNext
  \/ OpenEntry \/ Copy \/ CloseInner \/ FinishPass

Spec == Init /\ [][Next]_vars

-----------------------------------------------------------------------------
(* Properties.                                                             *)

ReadFailed == world.io.fails \in 1 .. world.io.reads

\* The variables hold what the program can be in, and every open archive reads
\* from a stream that is open.
TypeOK ==
  /\ disk \in Disks
  /\ pc \in Looking \cup {"open", "unpack", "identify", "enumerate", "drill", "entry",
                         "copy", "finish", "done", "failed"}
  /\ pass \in 1 .. Len(disk.passes)
  /\ pc # "failed" => \A a \in 1 .. Len(world.ar) : world.ar[a].io \in 1 .. Len(world.st)

\* When all is done, everything that was opened for it is closed, but for the
\* archive itself.
AllClosed == pc = "done" => /\ Len(world.ar) = 1 /\ TopStream = world.ar[1].io
                            /\ ~world.ar[1].input

\* No entry is opened or enumerated over one that is open ("BUG: tar entry still
\* open", "BUG: tar entry double open").
OneAtATime == ~world.bug

\* What is copied is as long as the archive says its current entry is.
CopiesTheEntry == pc = "copy" => Length(world, TopStream) = world.ar[Top].prev.size

\* However the names of the archive repeat, a pass installs only what it wants, and
\* only once when it wants one file.
OnlyWanted ==
  /\ \A i \in 1 .. Len(installed) :
       installed[i].name \in disk.passes[installed[i].pass].names
  /\ \A i, j \in 1 .. Len(installed) :
       installed[i].pass = installed[j].pass /\ disk.passes[installed[i].pass].single => i = j

\* Whatever is in the archive, and whatever reading it answers: the archives and
\* streams that are open are those the code works with, and what is installed is
\* of the entries that the passes want.
Tidy == TypeOK /\ OneAtATime /\ AllClosed /\ CopiesTheEntry /\ OnlyWanted

\* As long as no read fails, no data is taken for a header, no member is read past
\* its end, and no stream is before its beginning.
NoConfusion ==
  /\ world.io.wild => ReadFailed
  /\ \A k \in 1 .. Len(world.st) :
       world.io.at[k].pos >= 0 /\ (ReadFailed \/ Tell(world, k) >= 0)

\* A file that was installed has the bytes of its archive member, whatever was
\* read, sought and decompressed again before, and whichever read failed.
BytesAreTheMembers ==
  /\ NoConfusion
  /\ \A i \in 1 .. Len(installed) : installed[i].data = Member(installed[i].name).data

\* The names pass p wants, in the order of the archive, or the first of them.
WantedOf(p) ==
  LET all == SelectSeq([i \in 1 .. Len(disk.members) |-> disk.members[i].name],
                       LAMBDA n : n \in disk.passes[p].names) IN
  IF disk.passes[p].single THEN SubSeq(all, 1, 1) ELSE all

InstalledIn(p) ==
  LET mine == SelectSeq(installed, LAMBDA i : i.pass = p) IN
  [i \in 1 .. Len(mine) |-> mine[i].name]

\* Every pass installs each member it wants once, in the archive's order, also
\* when the archive was passed over or drilled through before.
PassIsComplete ==
  pc = "done" /\ world.io.fails = 0 =>
    \A p \in 1 .. Len(disk.passes) : InstalledIn(p) = WantedOf(p)

\* Whatever fails, nothing is installed twice in a pass.
NothingTwice == \A p \in 1 .. Len(disk.passes) : IsInjective(InstalledIn(p))

\* What is installed is what was asked for.
AsWanted == PassIsComplete /\ NothingTwice

\* Good archives that the code can never install: data in gzip form, a pkg archive
\* whose name does not say so (archives[] claims that its contents do), and a
\* pck archive that is passed over twice.
Hopeless ==
  LET cells == Content[disk.file]
      magic == cells[disk.start + 1].is IN
  \/ \E i \in 1 .. Len(cells) : cells[i].is = "gz"
  \/ magic = "pkg" /\ disk.ext # "pkg"
  \/ magic = "pck" /\ Len(disk.passes) > 1

\* When no read fails, an installation from a good archive fails exactly when the
\* archive is one of those.
FailsForCause ==
  pc \in {"done", "failed"} /\ ~ReadFailed => (pc = "failed" <=> Hopeless)
=============================================================================
