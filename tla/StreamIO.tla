------------------------------ MODULE StreamIO ------------------------------
(***************************************************************************)
(* The read() and seek() of the MojoInputs (src/fileio.c and the inputs of *)
(* src/archive_tar.c, archive_pck.c and archive_pkg.c): each does it by    *)
(* what it reads from.  Of a world they change w.io only.                  *)
(***************************************************************************)
EXTENDS Streams

Put(w, k, at) == [w EXCEPT !.io.at[k] = at]

RECURSIVE InputRead(_, _, _), InputSeek(_, _, _), SkipTo(_, _, _)

\* MojoInput_file_read().
ReadFile(w, k, n) ==
  LET pos == w.io.at[k].pos
      cells == Content[w.st[k].data]
      out == SubSeq(cells, pos + 1, Lesser(pos + n, Len(cells)))
      w2 == [w EXCEPT !.io.reads = @ + 1] IN
  IF w2.io.reads = w.io.fails THEN Failed(w2)
  ELSE Got([w2 EXCEPT !.io.at[k].pos = @ + Len(out)], out)

Advanced(r, k) == IF r.rc > 0 THEN [r EXCEPT !.w.io.at[k].pos = @ + r.rc] ELSE r

\* MojoInput_subset_read(): end is a place in the file, pos one in the subset.
ReadSubset(w, k, n) ==
  Advanced(InputRead(w, k - 1, Lesser(n, w.st[k].end - w.io.at[k].pos)), k)

\* MojoInput_tar_read(): beyond the end the count wraps to a huge one.
ReadMember(w, k, n) ==
  LET left == MemberSize(w, k) - Tell(w, k) IN
  IF n <= left THEN InputRead(w, k - 1, n)
  ELSE IF left >= 0 THEN InputRead(w, k - 1, left)
  ELSE Failed([w EXCEPT !.io.wild = TRUE])

\* The decompressor takes in what is left below it when it needs input.
TakeIn(r, k) ==
  IF r.rc <= 0 \/ r.out[1].is # r.w.st[k].kind THEN Answer(r.w, FALSE)
  ELSE Answer([r.w EXCEPT !.io.at[k].fed = TRUE, !.io.at[k].of = r.out[1].of], TRUE)

Feed(w, k) ==
  IF w.io.at[k].fed THEN Answer(w, TRUE)
  ELSE TakeIn(InputRead(w, k - 1, Length(w, k - 1) - Tell(w, k - 1)), k)

\* BZ2_bzDecompress() reports the end of the stream together with its last byte,
\* and MojoInput_bzip2_read() takes every report for an error.
EndsHere(kind, s, n) ==
  LET size == Len(Content[s.of]) IN
  s.dec + n > size \/ (kind = "bz2" /\ s.dec + n = size)

Decode(w, k, n) ==
  LET s == w.io.at[k]
      to == Lesser(s.dec + n, Len(Content[s.of])) IN
  IF EndsHere(w.st[k].kind, s, n) THEN Failed(Put(w, k, [s EXCEPT !.dec = to]))
  ELSE Got(Put(w, k, [s EXCEPT !.dec = to, !.pos = @ + n]),
           SubSeq(Content[s.of], s.dec + 1, to))

Decoded(f, k, n) == IF f.ok THEN Decode(f.w, k, n) ELSE Failed(f.w)

\* MojoInput_xz_read() and MojoInput_bzip2_read(): all that was asked for, or an
\* error that leaves the decoder further than uncompressed_position.
ReadPacked(w, k, n) == IF n = 0 THEN Got(w, <<>>) ELSE Decoded(Feed(w, k), k, n)

\* The read() of each input.
InputRead(w, k, n) ==
  LET s == w.st[k] IN
  IF s.kind = "file" THEN ReadFile(w, k, n)
  ELSE IF s.kind = "subset" THEN ReadSubset(w, k, n)
  ELSE IF s.kind = "member" THEN ReadMember(w, k, n)
  ELSE ReadPacked(w, k, n)

\* Decode and throw away up to position p.
Skipped(r, k, n, p) == IF r.rc = n THEN SkipTo(r.w, k, p) ELSE Answer(r.w, FALSE)

SkipTo(w, k, p) ==
  LET n == Lesser(p - w.io.at[k].pos, Block) IN
  IF n = 0 THEN Answer(w, TRUE) ELSE Skipped(InputRead(w, k, n), k, n, p)

\* Mutant: the decoder goes on from where it was.
RewoundHalf(s) == [s EXCEPT !.pos = 0, !.fed = FALSE]

Rewound(s) == [s EXCEPT !.pos = 0, !.dec = 0, !.fed = FALSE]

FromStart(r, k, p) ==
  IF r.ok THEN SkipTo([r.w EXCEPT !.io.at[k] = Rewound(@)], k, p) ELSE r

\* MojoInput_xz_seek() and MojoInput_bzip2_seek(): backwards is from the start.
SeekPacked(w, k, p) ==
  IF p >= w.io.at[k].pos THEN SkipTo(w, k, p)
  ELSE FromStart(InputSeek(w, k - 1, 0), k, p)

Moved(r, k, p) == IF r.ok THEN [r EXCEPT !.w.io.at[k].pos = p] ELSE r

SeekSubset(w, k, p) ==
  LET s == w.st[k] IN
  IF p > s.end - s.start THEN Answer(w, FALSE)
  ELSE Moved(InputSeek(w, k - 1, p + s.start), k, p)

\* A member has no position at its end to seek to.
SeekMember(w, k, p) ==
  IF p >= MemberSize(w, k) THEN Answer(w, FALSE)
  ELSE InputSeek(w, k - 1, MemberOffset(w, k) + p)

\* The seek() of each input; a file can be sought beyond its end.
InputSeek(w, k, p) ==
  LET s == w.st[k] IN
  IF s.kind = "file" THEN Answer([w EXCEPT !.io.at[k].pos = p], TRUE)
  ELSE IF s.kind = "subset" THEN SeekSubset(w, k, p)
  ELSE IF s.kind = "member" THEN SeekMember(w, k, p)
  ELSE SeekPacked(w, k, p)
=============================================================================
