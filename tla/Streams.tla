------------------------------ MODULE Streams ------------------------------
(***************************************************************************)
(* The MojoInputs that archives are read through (src/fileio.c and the     *)
(* inputs of src/archive_tar.c, archive_pck.c and archive_pkg.c): a file,  *)
(* the part of a file an archive was appended to, a decompressor, and a    *)
(* member of an archive.  They are stacked: each reads from the one below  *)
(* it, and members share the position of the stream below with the archive *)
(* they belong to.  This module opens and closes them; how they are read   *)
(* is in StreamIO.                                                         *)
(*                                                                         *)
(* A world w holds the stack of streams w.st and the stack of open         *)
(* archives w.ar, and in w.io what reading and seeking changes: where each *)
(* stream is, and how many reads of the file there were.  Operations are   *)
(* functions of worlds, as the code runs them on one thread.  Data is a    *)
(* sequence of cells, a block two of them.                                 *)
(***************************************************************************)
EXTENDS Integers, Sequences

CONSTANT Content   \* the cells of each file and of what each packed file unpacks to

Block == 2
CopyChunk == 3   \* what toPhysicalFile() reads at once

\* A cell of data: what it is, what it says when it is a header, and for the
\* first of a packed file the Content it unpacks to.
Cell(is) == [is |-> is, name |-> "", type |-> "", size |-> 0, n |-> 0, of |-> ""]
Data(n) == [Cell("data") EXCEPT !.n = n]
Lesser(a, b) == IF a < b THEN a ELSE b

\* What a stream is: its data (of a file), the part of the stream below that it
\* shows, and its archive (of a member).
Stream(kind) == [kind |-> kind, data |-> "", start |-> 0, end |-> 0, ar |-> 0]

\* Where a stream is; of a decompressor, what it unpacks and how far it is.
AtStart == [pos |-> 0, dec |-> 0, fed |-> FALSE, of |-> ""]

\* The fails-th read of the file returns an error (0: none does).
World(data, fails) ==
  [st |-> <<[Stream("file") EXCEPT !.data = data]>>, ar |-> <<>>, bug |-> FALSE,
   io |-> [at |-> <<AtStart>>, reads |-> 0, fails |-> fails, wild |-> FALSE]]

Push(w, s) == [w EXCEPT !.st = Append(@, s), !.io.at = Append(@, AtStart)]

\* What a read returns: the world after it, the cells and the byte count.
Got(w, out) == [w |-> w, out |-> out, rc |-> Len(out)]
Failed(w) == [w |-> w, out |-> <<>>, rc |-> -1]
Answer(w, ok) == [w |-> w, ok |-> ok]

-----------------------------------------------------------------------------
(* A member of an archive.  The input of a tar member knows its place; those *)
(* of pck and pkg members go by what the archive says of its current entry. *)

MemberSize(w, k) ==
  LET s == w.st[k] IN
  IF w.ar[s.ar].format = "tar" THEN s.end ELSE w.ar[s.ar].prev.size

MemberOffset(w, k) ==
  LET s == w.st[k] IN
  IF w.ar[s.ar].format = "tar" THEN s.start
  ELSE w.ar[s.ar].next - w.ar[s.ar].prev.size

\* The tell() of each input: only a member's depends on the stream below.
Tell(w, k) ==
  LET tell[i \in 1 .. Len(w.st)] ==
        IF w.st[i].kind = "member" THEN tell[i - 1] - MemberOffset(w, i)
        ELSE w.io.at[i].pos IN
  tell[k]

Length(w, k) ==
  LET s == w.st[k] IN
  IF s.kind = "file" THEN Len(Content[s.data])
  ELSE IF s.kind = "subset" THEN s.end - s.start
  ELSE IF s.kind = "member" THEN MemberSize(w, k) ELSE -1

-----------------------------------------------------------------------------
(* The close() of an input closes those it owns: all below it down to the file, *)
(* or down to the member of an archive that they read.                     *)

Below(w, k) == [w EXCEPT !.st = SubSeq(@, 1, k), !.io.at = SubSeq(@, 1, k)]

\* The lowest of the inputs that are closed with the topmost.
LowestOwned(w) ==
  CHOOSE k \in 1 .. Len(w.st) :
    /\ w.st[k].kind \in {"file", "member"}
    /\ \A i \in k + 1 .. Len(w.st) : w.st[i].kind \notin {"file", "member"}

\* Mutant: the archive does not learn of it.
CloseKept(w) == Below(w, LowestOwned(w) - 1)

\* The close() of the topmost input; the archive learns that its entry is closed.
Close(w) ==
  LET s == w.st[LowestOwned(w)]
      b == Below(w, LowestOwned(w) - 1) IN
  IF s.kind = "file" THEN b ELSE [b EXCEPT !.ar[s.ar].input = FALSE]
=============================================================================
